----------------------------- MODULE StreamReader ------------------------------
(***************************************************************************)
(* A parser that reads a stream through the cache: StreamingPipe.cpp on    *)
(* StreamingCache, appLocalReadFile and CheckContentAvailableBytes of      *)
(* Parser.cpp, and the wait of GMPlayer::LoadParser for the first byte.    *)
(* The parser polls CheckAvailableBytes until the bytes are there, then    *)
(* calls Read, which checks again and copies node by node under the lock.  *)
(* "locked" is the place of the parser in the loop that copies; the cache  *)
(* thread takes no step that needs the lock meanwhile.                     *)
(***************************************************************************)
EXTENDS StreamingCache

CONSTANTS
    Sizes,          \* how many bytes the parser reads at a time
    Targets,        \* the offsets it sets its position to
    nPreCacheSize,  \* how many it waits for once it has to wait
    MaxAborts       \* a bound: how often it gives up waiting

ASSUME ReaderAssumption ==
    /\ Sizes \subseteq Nat \ {0}
    /\ Targets \subseteq Nat
    /\ {nPreCacheSize, MaxAborts} \subseteq Nat

VARIABLES
    cpc,            \* where the parser stands
    loading,        \* LoadParser has not seen a byte yet
    nOffset,        \* StreamingPipe's position
    nb,             \* how many bytes the parser reads
    nSize,          \* how many bytes the call at hand asks for
    offset, size,   \* what ReadAt still has to copy, and to where
    outcome,        \* how the last read ended
    exact,          \* a ghost: every byte the read copied was the stream's
    told,           \* a ghost: it reads since it was told that the bytes are there
                    \* ("ready"), without that ("hasty"), or with a reset pending
                    \* ("reset")
    aborts          \* how often it has given up waiting

readerVars == <<cpc, loading, nOffset, nb, nSize, offset, size, outcome, exact, told, aborts>>
vars == <<cacheVars, readerVars>>

Init ==
    /\ CacheInit
    /\ cpc = "check"
    /\ loading = TRUE
    /\ nOffset = 0
    /\ nb = 1 /\ nSize = 1
    /\ offset = 0 /\ size = 0
    /\ outcome = "none"
    /\ exact = TRUE
    /\ told = "ready"
    /\ aborts = 0

Total == mBlockCnt * mBlockSize

\* What the clamp leaves of a request for n bytes.
Clamped(n) ==
    IF mContentLength > 0 /\ n > mContentLength - nOffset
    THEN mContentLength - nOffset ELSE n

Leave(why) == cpc' = "idle" /\ outcome' = why

-----------------------------------------------------------------------------
(* The parser's calls *)

SetPosition ==
    /\ cpc = "idle" /\ ~loading
    /\ nOffset' \in Targets
    /\ outcome' = "none"
    /\ UNCHANGED <<cacheVars, cpc, loading, nb, nSize, offset, size, exact, told, aborts>>

\* appLocalReadFile begins by asking for the bytes.
ReadFile ==
    /\ cpc = "idle" /\ ~loading
    /\ nb' \in Sizes
    /\ nSize' = nb'
    /\ cpc' = "check"
    /\ outcome' = "none"
    /\ exact' = TRUE
    /\ UNCHANGED <<cacheVars, loading, nOffset, offset, size, told, aborts>>

\* The part of CheckAvailableBytes and AvailableAt that does not take the lock;
\* Read begins with the same.
Prelude(begin, next) ==
    /\ cpc = begin
    /\ IF mProtocolError THEN Leave("failed") /\ UNCHANGED nSize
       ELSE IF nSize > Total THEN Leave("refused") /\ UNCHANGED nSize
       ELSE IF mContentLength > 0 /\ nOffset >= mContentLength
            THEN Leave("ended") /\ UNCHANGED nSize
       ELSE cpc' = next /\ nSize' = Clamped(nSize) /\ UNCHANGED outcome
    /\ UNCHANGED <<cacheVars, loading, nOffset, nb, offset, size, exact, told, aborts>>

Ready(result) == result = "Ok"

\* The locked part of AvailableAt for CheckAvailableBytes.  The parser asks
\* again while there are not enough bytes, and for more.
Find ==
    /\ cpc = "find"
    /\ \E result \in {"Ok", "Insufficient", "Unseekable"} :
         /\ Locate(nOffset, nSize, result)
         /\ \/ /\ Ready(result)
               /\ loading' = FALSE
               /\ cpc' = IF loading THEN "idle" ELSE "read"
               /\ nSize' = nb
               /\ told' = IF bReset THEN "reset" ELSE "ready"
               /\ UNCHANGED outcome
            \/ /\ ~Ready(result) /\ result = "Insufficient"
               /\ cpc' = "check"
               /\ nSize' = IF nPreCacheSize > nb /\ ~loading THEN nPreCacheSize ELSE nb
               /\ UNCHANGED <<loading, outcome, told>>
            \/ /\ result = "Unseekable"
               /\ Leave("refused")
               /\ UNCHANGED <<loading, nSize, told>>
    /\ UNCHANGED <<ring, mContentLength, bStreamEOS, bSeekable, mProtocolError, bStopThread,
                   at, connection, nOffset, nb, offset, size, exact, aborts>>

\* The parser has a command to process and reads without the bytes, or stops
\* reading.
Abort ==
    /\ cpc = "check" /\ ~loading
    /\ aborts < MaxAborts /\ aborts' = aborts + 1
    /\ \/ /\ cpc' = "read" /\ nSize' = nb
          /\ told' = IF bReset THEN "reset" ELSE "hasty"
          /\ UNCHANGED outcome
       \/ Leave("refused") /\ UNCHANGED <<nSize, told>>
    /\ UNCHANGED <<cacheVars, loading, nOffset, nb, offset, size, exact>>

\* AvailableAt for ReadAt: it returns 0 bytes unless they are there.
FindAgain ==
    /\ cpc = "find again"
    /\ \E result \in {"Ok", "Insufficient", "Unseekable"} :
         /\ Locate(nOffset, nSize, result)
         /\ IF result = "Ok" THEN cpc' = "copy" /\ UNCHANGED outcome
            ELSE Leave("broken")
    /\ UNCHANGED <<ring, mContentLength, bStreamEOS, bSeekable, mProtocolError, bStopThread,
                   at, connection, loading, nOffset, nb, nSize, offset, size, exact, told, aborts>>

\* Are the n bytes from byte i of a node those of the stream at o.
Same(node, i, o, n) == n = 0 \/ nodes[node].nBase + i = o

\* The position moves by what was copied.  (The parser takes nb for the number
\* of bytes, for HttpsPipe_Read only says that it is not 0.)
Return(n) ==
    /\ nOffset' = nOffset + n
    /\ Leave("read")

\* Lock, and copy from mPlayNode.  "fault" is a copy from outside the block.
Copy ==
    /\ cpc = "copy"
    /\ LET first == nodes[mPlayNode]
           i == nOffset - first.nOffset
           left == first.nLength - i
       IN  \/ /\ i < 0 \/ (left < 0 /\ nSize > left)
              /\ cpc' = "fault"
              /\ UNCHANGED <<nOffset, offset, size, outcome, exact>>
           \/ /\ i >= 0 /\ nSize <= left
              /\ exact' = Same(mPlayNode, i, nOffset, nSize)
              /\ Return(nSize)
              /\ UNCHANGED <<offset, size>>
           \/ /\ i >= 0 /\ left >= 0 /\ nSize > left
              /\ exact' = Same(mPlayNode, i, nOffset, left)
              /\ offset' = nOffset + left
              /\ size' = nSize - left
              /\ cpc' = "locked"
              /\ UNCHANGED <<nOffset, outcome>>
    /\ UNCHANGED <<cacheVars, loading, nb, nSize, told, aborts>>

\* Mutation: the next node is not the one that follows in the ring.
NextPlayUnwrapped == IF mPlayNode + 1 \in Nodes THEN mPlayNode + 1 ELSE mPlayNode

NextPlay == Following(mPlayNode)

\* One turn of the loop: go to the next node and copy.
CopyNext ==
    /\ cpc = "locked"
    /\ mPlayNode' = NextPlay
    /\ LET length == nodes[NextPlay].nLength
           n == IF size >= length THEN length ELSE size
       IN  /\ exact' = (exact /\ Same(NextPlay, 0, offset, n))
           /\ offset' = offset + n
           /\ size' = size - n
           /\ IF size = n THEN Return(nSize)
              ELSE UNCHANGED <<cpc, nOffset, outcome>>
    /\ UNCHANGED <<ring, mContentLength, request, bStreamEOS, bSeekable, mProtocolError,
                   bStopThread, at, connection, loading, nb, nSize, told, aborts>>

\* Mutation: the thread is not told to stop.
AskNothing == UNCHANGED bStopThread

AskToStop == bStopThread' = TRUE

\* DeInit, between two reads or when a wait was given up for good, stops the
\* thread and waits for its end.
Close ==
    /\ cpc \in {"idle", "check"}
    /\ AskToStop
    /\ cpc' = "join"
    /\ UNCHANGED <<ring, mPlayNode, mContentLength, request, bStreamEOS, bSeekable,
                   mProtocolError, at, connection, loading, nOffset, nb, nSize, offset,
                   size, outcome, exact, told, aborts>>

Joined ==
    /\ cpc = "join"
    /\ at = "exit"
    /\ cpc' = "closed"
    /\ UNCHANGED <<cacheVars, loading, nOffset, nb, nSize, offset, size, outcome, exact, told, aborts>>

\* A call that has begun goes on.
Proceed ==
    \/ Prelude("check", "find")
    \/ Find
    \/ Prelude("read", "find again")
    \/ FindAgain
    \/ Copy
    \/ CopyNext
    \/ Joined

Reader == SetPosition \/ ReadFile \/ Abort \/ Close \/ Proceed

\* These places of the cache thread lead to a lock, "read" and "reseek" when Read
\* returns.
Thread ==
    /\ at \in {"loop", "fill", "read", "reseek", "seek"} => cpc # "locked"
    /\ CacheThread
    /\ UNCHANGED readerVars

Next == Thread \/ Reader \/ (Network /\ UNCHANGED readerVars)

Spec == Init /\ [][Next]_vars

\* Both threads are scheduled, and url_read and url_seek return, although they may
\* fail.  Nothing is asked of the network.
FairSpec == Spec /\ WF_vars(Thread) /\ WF_vars(Proceed)

-----------------------------------------------------------------------------
(* Properties *)

TypeOK ==
    /\ nodes \in [Nodes -> [nOffset : Nat, nLength : 0..mBlockSize, nBase : Int]]
    /\ {mStartNode, mEndNode, mPlayNode} \subseteq Nodes
    /\ {mOffsetStart, mOffsetEnd, mContentLength, mResetTargetOffset, pos, urlLength} \subseteq Nat
    /\ {bReset, bStreamEOS, bSeekable, mProtocolError, bStopThread, bServes,
        bLocalhost, down, cut} \subseteq BOOLEAN
    /\ at \in {"open", "length", "probe", "rewind", "loop", "seek", "fill", "read", "reseek", "exit"}
    /\ cpc \in {"idle", "check", "find", "read", "find again", "copy", "locked", "fault",
                "join", "closed"}
    /\ {loading, exact} \subseteq BOOLEAN
    /\ told \in {"ready", "hasty", "reset"}
    /\ aborts \in 0..MaxAborts
    /\ {nOffset, nb, nSize, offset, size} \subseteq Nat
    /\ outcome \in {"none", "read", "ended", "failed", "refused", "broken"}

\* The filled nodes hold the stream from mOffsetStart to mOffsetEnd, each with
\* the bytes its nOffset tells, none of them empty: dropping, filling, resetting
\* and reading ahead never leave a gap or a block of another offset.
RingHoldsStream ==
    /\ \A i \in Nodes : Filled(i) =>
         /\ nodes[i].nLength > 0
         /\ nodes[i].nBase = nodes[i].nOffset
         /\ nodes[i].nOffset + nodes[i].nLength =
              IF Following(i) = mEndNode THEN mOffsetEnd ELSE nodes[Following(i)].nOffset
    /\ mOffsetStart = IF mStartNode = mEndNode THEN mOffsetEnd ELSE nodes[mStartNode].nOffset

\* Whatever the thread does between the check and the copy, Read gives the bytes
\* of the stream at the position it is called at, unless a reset was
\* pending when the parser turned to it.  When
\* CheckAvailableBytes has said that they are there it finds them: the thread
\* never drops, in between, what the parser was promised.
ReadExact ==
    /\ told # "reset" => exact /\ cpc # "fault"
    /\ told = "ready" => outcome # "broken"

\* CP_CheckBytesOk is said to mean that there "are at least the request number
\* of bytes available" (OMX_ContentPipe.h): Read then finds them.
PromiseKept == told # "hasty" => outcome # "broken"

\* The parser is told that the stream has ended only when it has, whether the
\* length was told, or is found at the end of the last block, or the network broke
\* down meanwhile.  Except on localhost without a length (GetHandleError): there a
\* url_read that fails makes an end where there is none.
EndTrue == outcome = "ended" => nOffset >= Ends \/ cut

\* The parser waits for the byte after a full ring, of which the thread drops
\* nothing because mPlayNode does not move.
Wedged ==
    /\ nOffset = mOffsetEnd
    /\ Following(mEndNode) = mStartNode
    /\ Behind(mPlayNode) <= mEarlierDataMinBlockCnt

\* The server has refused the seek of a reset, with any status from 400 on: this
\* ends the thread without an error that the parser could see.
Deserted == at = "exit" /\ ~bSeekable /\ ~mProtocolError

\* Read seeks in a server without ranges, and does so for ever.
Unrecovered == at = "reseek" /\ ~bServes

\* After a reset the network broke down on localhost: the end is before the
\* length found earlier, or there is not a byte, and the parser is not told of it.
CutShort == cut /\ bStreamEOS /\ (mContentLength = 0 \/ mOffsetEnd < mContentLength)

\* If the network holds from some moment on, a parser that waits for bytes gets
\* them, or an answer, however often reading and seeking failed before.  It must
\* not ask for more than the ring holds ahead of the earlier data, nor for the one
\* offset that a full ring never comes to, nor for one that the server refuses, and
\* the server must have ranges if the network did break down.  (While it is down
\* for good, Read and Seek try again for ever and the parser polls for ever.)
Served ==
    <>[]~down =>
        (cpc \in {"check", "find"} ~>
             cpc \notin {"check", "find"} \/ Wedged \/ Deserted \/ Unrecovered \/ CutShort)

\* Close returns, whatever the thread is doing, and even if the network stays down:
\* every loop that tries again looks at bStopThread.
Closed == cpc = "join" ~> cpc = "closed"
=============================================================================
