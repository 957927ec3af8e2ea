---------------------------- MODULE StreamingCache -----------------------------
(***************************************************************************)
(* content_pipe/streaming_common/StreamingCache.cpp: a thread reads the    *)
(* stream, block by block, into a ring of nodes; the reader finds its      *)
(* offset in the ring, moves mPlayNode to it and copies.  An offset out of *)
(* the ring makes the thread empty the ring and seek.                      *)
(*                                                                         *)
(* The module has the state and the actions of the cache thread, and the   *)
(* locked part of AvailableAt.  StreamReader adds the caller.  What is     *)
(* between two places where the lock is taken or released is one action;   *)
(* Seek and Read of the protocol (https_pipe_v3/HttpsProtocol.cpp) happen  *)
(* without the lock.  A block is described by the place of its first byte  *)
(* in the stream.                                                          *)
(***************************************************************************)
EXTENDS Integers

CONSTANTS
    mBlockSize,             \* bytes of a node
    mBlockCnt,              \* nodes of the ring, of which one stays empty
    mEarlierDataMinBlockCnt,\* nodes kept behind mPlayNode
    Ends,                   \* length of the stream
    Lengths,                \* what GetContentLength may return, 0 if unknown
    Probe,                  \* the offset sought to see if the server can seek
    Servers,                \* does the server seek: a subset of BOOLEAN
    Hosts,                  \* is it http://localhost: a subset of BOOLEAN
    Faults                  \* "connect" and "seek" may fail, the server "refuse"
                            \* a request, the "network" break down

ASSUME CacheAssumption ==
    /\ mBlockSize \in Nat \ {0}
    /\ mBlockCnt \in Nat \ {0, 1}
    /\ mEarlierDataMinBlockCnt \in 0..mBlockCnt - 1
    /\ Ends \in Nat
    /\ Lengths \subseteq Nat
    /\ Probe \in Nat
    /\ Servers \subseteq BOOLEAN
    /\ Hosts \subseteq BOOLEAN

Nodes == 0..mBlockCnt - 1

\* Where the bytes of a block are from that is not filled, or only in part.
Garbage == -mBlockSize

\* CacheNode, with the place in the stream of the first byte of pData.
Node(offset, length, base) == [nOffset |-> offset, nLength |-> length, nBase |-> base]

VARIABLES
    nodes,                  \* mCacheNodeRoot
    mStartNode, mEndNode, mPlayNode,
    mOffsetStart, mOffsetEnd,
    mContentLength,
    bReset, mResetTargetOffset,
    bStreamEOS,
    bSeekable,
    mProtocolError,         \* has it been set
    bStopThread,
    at,                     \* where the cache thread stands
    pos,                    \* where the connection stands in the stream
    bServes,                \* does the server seek
    bLocalhost,             \* szURL begins with http://localhost
    urlLength,              \* what GetContentLength of the protocol returns
    down,                   \* url_read and url_seek fail
    cut                     \* a ghost: a failing url_read was taken for the end

ring == <<nodes, mStartNode, mEndNode, mOffsetStart, mOffsetEnd>>
request == <<bReset, mResetTargetOffset>>
server == <<bServes, bLocalhost, urlLength>>
connection == <<pos, server, down, cut>>
cacheVars == <<ring, mPlayNode, mContentLength, request, bStreamEOS, bSeekable,
               mProtocolError, bStopThread, at, connection>>

CacheInit ==
    /\ nodes = [i \in Nodes |-> Node(0, 0, Garbage)]
    /\ mStartNode = 0 /\ mEndNode = 0 /\ mPlayNode = 0
    /\ mOffsetStart = 0 /\ mOffsetEnd = 0
    /\ mContentLength = 0
    /\ bReset = FALSE /\ mResetTargetOffset = 0
    /\ bStreamEOS = FALSE
    /\ bSeekable = TRUE
    /\ mProtocolError = FALSE
    /\ bStopThread = FALSE
    /\ at = "open"
    /\ pos = 0
    /\ bServes \in Servers
    /\ bLocalhost \in Hosts
    /\ urlLength \in Lengths
    /\ down = FALSE
    /\ cut = FALSE

Following(i) == (i + 1) % mBlockCnt

\* How many nodes after mStartNode a node is.
Behind(i) == (i + mBlockCnt - mStartNode) % mBlockCnt

Filled(i) == Behind(i) < Behind(mEndNode)

Holds(i, offset) ==
    nodes[i].nOffset <= offset /\ offset < nodes[i].nOffset + nodes[i].nLength

-----------------------------------------------------------------------------
(* The cache thread up to its loop *)

GetStopRetrying == bStopThread \/ bReset

\* HttpsProtocol::Open retries until it is told to stop or has tried too long.
Open ==
    /\ at = "open"
    /\ ~bStopThread
    /\ \/ at' = "length" /\ UNCHANGED mProtocolError
       \/ /\ GetStopRetrying \/ "connect" \in Faults
          /\ at' = "exit"
          /\ mProtocolError' = TRUE
    /\ UNCHANGED <<ring, mPlayNode, mContentLength, request, bStreamEOS, bSeekable,
                   bStopThread, connection>>

GetContentLength ==
    /\ at = "length"
    /\ ~bStopThread
    /\ mContentLength' = urlLength
    /\ at' = "probe"
    /\ UNCHANGED <<ring, mPlayNode, request, bStreamEOS, bSeekable, mProtocolError,
                   bStopThread, connection>>

\* What url_seek does: it moves the connection, or the server refuses, with any
\* status from 400 on.
Moves(target) == ~down /\ target <= Ends /\ (bServes \/ target = 0) /\ pos' = target
Refuses(target) == ~down /\ (target >= Ends \/ "refuse" \in Faults) /\ UNCHANGED pos

\* HttpsProtocol::Seek to target, and its result.  A server without ranges puts
\* the connection at 0.  Only a Seek that does not block gives up on any other
\* error; one that blocks tries again for ever.
Seek(target, blocking, result) ==
    \/ result = "None" /\ Moves(target)
    \/ result = "Terminated" /\ GetStopRetrying /\ UNCHANGED pos
    \/ result = "Unseekable" /\ (Refuses(target) \/ (~down /\ ~bServes /\ UNCHANGED pos))
    \/ result = "Undefined" /\ ~blocking /\ "seek" \in Faults /\ UNCHANGED pos

\* Seek to the middle of the stream, to see if the server refuses.
ProbeSeek ==
    /\ at = "probe"
    /\ \E result \in {"None", "Terminated", "Unseekable", "Undefined"} :
         /\ Seek(IF mContentLength > 0 THEN mContentLength \div 2 ELSE Probe, FALSE, result)
         /\ bSeekable' = (bSeekable /\ result # "Unseekable")
    /\ at' = "rewind"
    /\ UNCHANGED <<ring, mPlayNode, mContentLength, request, bStreamEOS,
                   mProtocolError, bStopThread, server, down, cut>>

\* The result of the Seek back to 0 is not looked at: a refusal, which would be
\* one more, does as a failure does.
Rewind ==
    /\ at = "rewind"
    /\ ~bStopThread
    /\ \E result \in {"None", "Terminated", "Undefined"} : Seek(0, FALSE, result)
    /\ at' = "loop"
    /\ UNCHANGED <<ring, mPlayNode, mContentLength, request, bStreamEOS, bSeekable,
                   mProtocolError, bStopThread, server, down, cut>>

\* bStopThread is tested at each of these places.
StopThread ==
    /\ at \in {"open", "length", "rewind", "loop"}
    /\ bStopThread
    /\ at' = "exit"
    /\ UNCHANGED <<ring, mPlayNode, mContentLength, request, bStreamEOS, bSeekable,
                   mProtocolError, bStopThread, connection>>

-----------------------------------------------------------------------------
(* GetStreamData *)

ResetCache(offset) ==
    /\ nodes' = [i \in Nodes |-> Node(IF i = 0 THEN offset ELSE 0, 0, nodes[i].nBase)]
    /\ mOffsetStart' = offset /\ mOffsetEnd' = offset
    /\ mStartNode' = 0 /\ mEndNode' = 0 /\ mPlayNode' = 0

\* The reset, up to the Seek without the lock.
StartReset ==
    /\ at = "loop"
    /\ ~bStopThread
    /\ bReset
    /\ bReset' = FALSE
    /\ bStreamEOS' = FALSE
    /\ ResetCache(mResetTargetOffset)
    /\ at' = "seek"
    /\ UNCHANGED <<mContentLength, mResetTargetOffset, bSeekable, mProtocolError,
                   bStopThread, connection>>

\* Mutation: the thread goes on as if the Seek had been done.
NextAfterSeekAnyway(result) == IF result = "Unseekable" THEN "exit" ELSE "fill"

NextAfterSeek(result) ==
    IF result = "None" THEN "fill" ELSE IF result = "Terminated" THEN "loop" ELSE "exit"

EndReset ==
    /\ at = "seek"
    /\ \E result \in {"None", "Terminated", "Unseekable"} :
         /\ Seek(mOffsetStart, TRUE, result)
         /\ bSeekable' = (bSeekable /\ result # "Unseekable")
         /\ at' = NextAfterSeek(result)
    /\ UNCHANGED <<ring, mPlayNode, mContentLength, request, bStreamEOS,
                   mProtocolError, bStopThread, server, down, cut>>

AtEnd == bStreamEOS \/ (mContentLength > 0 /\ mOffsetEnd >= mContentLength)

\* Mutation: nothing is dropped.
DropNothing == 0

\* Of a full ring, the earlier data is dropped but for the nodes to be kept:
\* how many nodes go.
Drop ==
    IF Following(mEndNode) = mStartNode /\ Behind(mPlayNode) > mEarlierDataMinBlockCnt
    THEN Behind(mPlayNode) - mEarlierDataMinBlockCnt ELSE 0

\* nWant: a block, or what is left of a stream of known length.
Want ==
    IF mContentLength > 0 /\ mOffsetEnd + mBlockSize > mContentLength
    THEN mContentLength - mOffsetEnd ELSE mBlockSize

\* Drop earlier data if the ring is full, and prepare the node to be filled.
Fill ==
    /\ at = "fill" \/ (at = "loop" /\ ~bStopThread /\ ~bReset)
    /\ bStreamEOS' = AtEnd
    /\ IF AtEnd
       THEN at' = "loop" /\ UNCHANGED ring
       ELSE LET start == (mStartNode + Drop) % mBlockCnt
                kept == [i \in Nodes |-> IF Behind(i) < Drop THEN Node(0, 0, nodes[i].nBase)
                                         ELSE nodes[i]]
            IN  /\ mStartNode' = start
                /\ mOffsetStart' = IF Drop > 0 THEN nodes[start].nOffset ELSE mOffsetStart
                /\ IF Following(mEndNode) = start
                   THEN at' = "loop" /\ nodes' = kept
                   ELSE /\ at' = "read"
                        /\ nodes' = [kept EXCEPT ![mEndNode] = Node(mOffsetEnd, 0, Garbage)]
                /\ UNCHANGED <<mEndNode, mOffsetEnd>>
    /\ UNCHANGED <<mPlayNode, mContentLength, request, bSeekable, mProtocolError,
                   bStopThread, connection>>

\* Mutation: the length is set to where the block began.
LengthAtBlock(n, eos) == IF mContentLength = 0 /\ eos THEN mOffsetEnd ELSE mContentLength

\* The length of a stream becomes known at its end.
LengthAtEnd(n, eos) == IF mContentLength = 0 /\ eos THEN mOffsetEnd + n ELSE mContentLength

\* What Read gives when url_read does not fail: a block, or less at the end.
ToRead == IF Want <= Ends - pos THEN Want ELSE Ends - pos

\* On localhost, without a length, any url_read that fails is the end.
GetHandleError == bLocalhost /\ urlLength = 0

\* Read of the protocol without the lock, and what is done with its result.
ReadBlock ==
    /\ at = "read"
    /\ \E n \in 0..Want :
         /\ \/ ~down /\ n = ToRead /\ UNCHANGED cut
            \/ down /\ GetHandleError /\ n <= ToRead /\ n < Want /\ cut' = TRUE
         /\ bStreamEOS' = (bStreamEOS \/ n < Want)
         /\ mContentLength' = LengthAtEnd(n, n < Want)
         /\ IF n > 0
            THEN /\ nodes' = [nodes EXCEPT ![mEndNode] = Node(mOffsetEnd, n, pos)]
                 /\ mOffsetEnd' = mOffsetEnd + n
                 /\ mEndNode' = Following(mEndNode)
            ELSE UNCHANGED <<nodes, mOffsetEnd, mEndNode>>
         /\ pos' = pos + n
    /\ at' = "loop"
    /\ UNCHANGED <<mStartNode, mOffsetStart, mPlayNode, request, bSeekable,
                   mProtocolError, bStopThread, server, down>>

\* Read is terminated, and what it has read is lost.
ReadNothing ==
    /\ at = "read"
    /\ GetStopRetrying
    /\ at' = "loop"
    /\ \E n \in 0..Want : pos' = pos + n /\ pos' <= Ends
    /\ UNCHANGED <<ring, mPlayNode, mContentLength, request, bStreamEOS, bSeekable,
                   mProtocolError, bStopThread, server, down, cut>>

\* url_read has failed for READ_TIME_OUT: Read seeks to where it is.  (What it has
\* of the block by then is told apart from the rest only if they do not join.)
ReadTimesOut ==
    /\ at = "read"
    /\ ~GetStopRetrying
    /\ down
    /\ ~GetHandleError
    /\ at' = "reseek"
    /\ UNCHANGED <<ring, mPlayNode, mContentLength, request, bStreamEOS, bSeekable,
                   mProtocolError, bStopThread, connection>>

\* The seek of Read, again and again: until it succeeds, is refused or is told to stop.
\* A server without ranges answers with 0, which is none of these.
EndReseek ==
    /\ at = "reseek"
    /\ \/ at' = "read" /\ (Moves(mOffsetEnd) \/ (bServes /\ Refuses(mOffsetEnd)))
       \/ at' = "loop" /\ GetStopRetrying /\ UNCHANGED pos
    /\ UNCHANGED <<ring, mPlayNode, mContentLength, request, bStreamEOS, bSeekable,
                   mProtocolError, bStopThread, server, down, cut>>

CacheThread ==
    \/ Open
    \/ GetContentLength
    \/ ProbeSeek
    \/ Rewind
    \/ StopThread
    \/ StartReset
    \/ EndReset
    \/ Fill
    \/ ReadBlock
    \/ ReadNothing
    \/ ReadTimesOut
    \/ EndReseek

\* The network, or the connection, breaks down and comes back.
Network ==
    /\ \/ ~down /\ down' = TRUE /\ "network" \in Faults /\ at \in {"seek", "read", "reseek"}
       \/ down /\ down' = FALSE
    /\ UNCHANGED <<ring, mPlayNode, mContentLength, request, bStreamEOS, bSeekable,
                   mProtocolError, bStopThread, at, pos, server, cut>>

-----------------------------------------------------------------------------
(* AvailableAt *)

Outside(offset) == offset < mOffsetStart \/ offset > mOffsetEnd

\* The locked part: find the node of offset, or ask for a reset.
Locate(offset, n, result) ==
    \/ /\ Outside(offset)
       /\ IF bSeekable
          THEN /\ result = "Insufficient"
               /\ bReset' = TRUE
               /\ mResetTargetOffset' = offset
          ELSE result = "Unseekable" /\ UNCHANGED request
       /\ UNCHANGED mPlayNode
    \/ /\ ~Outside(offset)
       /\ \/ mOffsetStart = mOffsetEnd
          \/ ~\E i \in Nodes : (Filled(i) \/ i = mPlayNode) /\ Holds(i, offset)
       /\ result = "Insufficient"
       /\ UNCHANGED <<mPlayNode, request>>
    \/ /\ ~Outside(offset)
       /\ mOffsetStart # mOffsetEnd
       /\ IF Holds(mPlayNode, offset) THEN UNCHANGED mPlayNode
          ELSE \E i \in Nodes : Filled(i) /\ Holds(i, offset) /\ mPlayNode' = i
       /\ result = IF offset + n <= mOffsetEnd THEN "Ok" ELSE "Insufficient"
       /\ UNCHANGED request
=============================================================================
