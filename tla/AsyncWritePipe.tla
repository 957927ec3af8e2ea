---------------------------- MODULE AsyncWritePipe -----------------------------
(***************************************************************************)
(* content_pipe/async_write_pipe/AsyncWritePipe.cpp: Write copies its data *)
(* to a ring buffer and SetPosition only moves a position of its own; both *)
(* put an entry in dataInfoQueue (an OmxFifo), and a thread applies the    *)
(* entries to the real file later.  Close joins the thread.                *)
(*                                                                         *)
(* One client thread (a muxer) and the writer thread.  A critical section  *)
(* is one action, but for the one of Write that sleeps while it waits for  *)
(* room: the client holds the lock as long as cpc is "full".  The thread   *)
(* writes to the file outside the lock: it names the bytes in one action   *)
(* and they are read in the next.                                          *)
(***************************************************************************)
EXTENDS SharedFdPipe, SequencesExt

CONSTANTS
    Sizes,          \* nSize of the Write calls
    Seeks,          \* nOffset and eOrigin of the SetPosition calls
    BufferLen,      \* ASYNC_WRITE_BUFFER_LEN
    Mega,           \* the unit in which the buffer is reallocated (1024 * 1024)
    QueueSize,      \* DATA_INFO_QUEUE_SIZE
    MaxCalls,       \* bound: the calls of Write and SetPosition
    bWithinLimits   \* the client stays within the pipe's limits: a Write that
                    \* needs more than the free room comes only when the buffer
                    \* holds no data, and Close when the queue has room or data

Origins == {"Begin", "Cur", "End"}
CP_OriginMax == "Max"

ASSUME PipeAssumption ==
    /\ Sizes \subseteq Nat \ {0}
    /\ Seeks \subseteq [nOffset : Int, eOrigin : Origins]
    /\ BufferLen \in Nat \ {0} /\ Mega \in Nat \ {0} /\ QueueSize \in Nat \ {0}
    /\ MaxCalls \in Nat
    /\ bWithinLimits \in BOOLEAN

VARIABLES
    file,                   \* the SharedFdPipe behind fileHandle
    nUriLen, nFakePos, noSpace,
    bStopWriteThread,
    buffer, nBufferLen,     \* pAsyncWriteBuffer and its length
    nDataStartPos, nFreeSpaceStartPos, nDataLen,
    dataInfoQueue,
    cpc, cInfo,             \* the client, and the entry it is about to add
    wpc, wInfo, wLength,    \* the thread, its entry and nLengthToConsume
    wFreed,                 \* the buffer was freed since the thread named bytes
    calls

ring == <<buffer, nBufferLen, nDataStartPos, nFreeSpaceStartPos, nDataLen>>
positions == <<nUriLen, nFakePos>>
client == <<cpc, cInfo, calls>>
writer == <<wpc, wInfo, wLength>>
vars == <<file, positions, noSpace, bStopWriteThread, ring, dataInfoQueue,
          client, writer, wFreed>>

DataInfo == [nOffset : Int, eOrigin : Origins \cup {CP_OriginMax}, nLen : Int]

\* The DATA_INFO of a SetPosition, of a Write, and the one that ends the thread.
SeekInfo(s) == [nOffset |-> s.nOffset, eOrigin |-> s.eOrigin, nLen |-> 0]
WriteInfo(n) == [nOffset |-> -1, eOrigin |-> CP_OriginMax, nLen |-> n]
StopInfo == WriteInfo(-1)

IsSeek(info) == info.nOffset >= 0 /\ info.eOrigin # CP_OriginMax

\* The bytes of the k-th call, which writes n of them.
Block(k, n) == [i \in 1..n |-> <<k, i>>]
Garbage == <<0, 1>>     \* what is read from memory that was freed

Init ==
    /\ file = EmptyFile
    /\ nUriLen = 0 /\ nFakePos = 0 /\ noSpace = FALSE
    /\ bStopWriteThread = FALSE
    /\ nBufferLen = BufferLen
    /\ buffer = [k \in 0..BufferLen - 1 |-> Zero]
    /\ nDataStartPos = 0 /\ nFreeSpaceStartPos = 0 /\ nDataLen = 0
    /\ dataInfoQueue = <<>>
    /\ cpc = "idle" /\ cInfo = StopInfo
    /\ wpc = "loop" /\ wInfo = StopInfo /\ wLength = 0
    /\ wFreed = FALSE
    /\ calls = 0

-----------------------------------------------------------------------------
(* The client: Write, SetPosition, Close *)

\* Mutation: only the end of the data goes back to the start of the buffer.
DataStartKept(start, used) == start

\* An empty ring is rewound.
DataStart(start, used) == IF used = 0 THEN 0 ELSE start

\* Copy a block behind the data in a ring, in two parts if it wraps around.
Fill(data, buf, len, start, free, used) ==
    LET n == Len(data)
        begin == IF used = 0 THEN 0 ELSE free
        Off(k) == (k - begin + len) % len
    IN  /\ buffer' = [k \in 0..len - 1 |-> IF Off(k) < n THEN data[Off(k) + 1]
                                                         ELSE buf[k]]
        /\ nBufferLen' = len
        /\ nDataStartPos' = DataStart(start, used)
        /\ nFreeSpaceStartPos' = (begin + n) % len
        /\ nDataLen' = used + n

\* Write up to the copy.  Without room the client keeps the lock and sleeps.
Write(n) ==
    /\ cpc = "idle"
    /\ calls < MaxCalls
    /\ calls' = calls + 1
    /\ cInfo' = WriteInfo(n)
    /\ IF n > nBufferLen - nDataLen
       THEN /\ bWithinLimits => nDataLen = 0
            /\ cpc' = "full"
            /\ UNCHANGED ring
       ELSE /\ cpc' = "add"
            /\ Fill(Block(calls + 1, n), buffer, nBufferLen, nDataStartPos,
                    nFreeSpaceStartPos, nDataLen)
    /\ UNCHANGED <<file, positions, noSpace, bStopWriteThread, dataInfoQueue,
                   writer, wFreed>>

\* dataInfoQueue->Size() is 0 at last: a new buffer takes the place of the old.
Reallocate ==
    LET newLength == (cInfo.nLen \div Mega) * Mega + Mega
    IN  /\ cpc = "full"
        /\ dataInfoQueue = <<>>
        /\ Fill(Block(calls, cInfo.nLen), [k \in 0..newLength - 1 |-> Zero],
                newLength, 0, 0, 0)
        /\ cpc' = "add"
        /\ wFreed' = (wFreed \/ wpc = "write")
        /\ UNCHANGED <<file, positions, noSpace, bStopWriteThread, dataInfoQueue,
                       cInfo, calls, writer>>

\* FSL_MALLOC fails: KD_ENOMEM.
ReallocateFails ==
    /\ cpc = "full"
    /\ dataInfoQueue = <<>>
    /\ cpc' = "idle"
    /\ UNCHANGED <<file, positions, noSpace, bStopWriteThread, ring, dataInfoQueue,
                   cInfo, calls, writer, wFreed>>

\* Mutation: the extended file's position is moved to its end.
MovePositionAlways(target) ==
    /\ nUriLen' = IF target > nUriLen THEN target ELSE nUriLen
    /\ nFakePos' = target

\* SetPosition either extends the file or moves the position.
MovePosition(target) ==
    IF target > nUriLen THEN nUriLen' = target /\ UNCHANGED nFakePos
                        ELSE nFakePos' = target /\ UNCHANGED nUriLen

FakeTarget(s) ==
    CASE s.eOrigin = "Begin" -> s.nOffset
      [] s.eOrigin = "Cur" -> nFakePos + s.nOffset
      [] s.eOrigin = "End" -> nUriLen + s.nOffset

\* KD_ENOSPC and KD_EINVAL return before anything changes.
SetPosition(s) ==
    /\ cpc = "idle"
    /\ calls < MaxCalls
    /\ calls' = calls + 1
    /\ IF \/ FakeTarget(s) > nUriLen /\ noSpace
          \/ FakeTarget(s) < 0 /\ s.eOrigin = "End"
       THEN UNCHANGED <<positions, cpc, cInfo>>
       ELSE /\ MovePosition(FakeTarget(s))
            /\ cpc' = "add"
            /\ cInfo' = SeekInfo(s)
    /\ UNCHANGED <<file, noSpace, bStopWriteThread, ring, dataInfoQueue,
                   writer, wFreed>>

\* dataInfoQueue->Add, which waits while the queue is full, and what a Write
\* does after it.
AddInfo ==
    /\ cpc = "add"
    /\ Len(dataInfoQueue) < QueueSize
    /\ dataInfoQueue' = Append(dataInfoQueue, cInfo)
    /\ cpc' = IF cInfo = StopInfo THEN "join" ELSE "idle"
    /\ IF cInfo.nLen > 0
       THEN /\ nFakePos' = nFakePos + cInfo.nLen
            /\ nUriLen' = IF nFakePos' > nUriLen THEN nFakePos' ELSE nUriLen
       ELSE UNCHANGED positions
    /\ UNCHANGED <<file, noSpace, bStopWriteThread, ring, cInfo, calls, writer,
                   wFreed>>

\* Mutation: the thread is not woken up.
CloseUnannounced ==
    /\ cpc = "idle"
    /\ bStopWriteThread' = TRUE
    /\ cpc' = "join"
    /\ UNCHANGED <<file, positions, noSpace, ring, dataInfoQueue, cInfo, calls,
                   writer, wFreed>>

\* Close up to the Add of the entry that wakes the thread.
Close ==
    /\ cpc = "idle"
    /\ bWithinLimits => \/ Len(dataInfoQueue) < QueueSize
                        \/ \E k \in DOMAIN dataInfoQueue : dataInfoQueue[k].nLen > 0
    /\ bStopWriteThread' = TRUE
    /\ cInfo' = StopInfo
    /\ cpc' = "add"
    /\ UNCHANGED <<file, positions, noSpace, ring, dataInfoQueue, calls,
                   writer, wFreed>>

\* fsl_osal_thread_destroy returns.
Closed ==
    /\ cpc = "join"
    /\ wpc = "exit"
    /\ cpc' = "closed"
    /\ UNCHANGED <<file, positions, noSpace, bStopWriteThread, ring, dataInfoQueue,
                   cInfo, calls, writer, wFreed>>

-----------------------------------------------------------------------------
(* The thread: AsyncWriteThreadFunc *)

Unlocked == cpc # "full"

\* Mutation: the thread leaves as soon as it is stopped.
KeepsRunningUntilStopped == ~bStopWriteThread

KeepsRunning == ~bStopWriteThread \/ nDataLen > 0

Loop ==
    /\ wpc = "loop"
    /\ wpc' = IF KeepsRunning THEN "get" ELSE "exit"
    /\ UNCHANGED <<file, positions, noSpace, bStopWriteThread, ring, dataInfoQueue,
                   client, wInfo, wLength, wFreed>>

\* dataInfoQueue->Get, and what kind of entry it is.
GetInfo ==
    /\ wpc = "get"
    /\ dataInfoQueue # <<>>
    /\ wInfo' = Head(dataInfoQueue)
    /\ dataInfoQueue' = Tail(dataInfoQueue)
    /\ wpc' = IF IsSeek(wInfo') THEN "seek"
              ELSE IF wInfo'.nLen <= 0 THEN "loop" ELSE "check"
    /\ UNCHANGED <<file, positions, noSpace, bStopWriteThread, ring, client,
                   wLength, wFreed>>

Seek ==
    /\ wpc = "seek"
    /\ file' = SeekTo(file, wInfo.nOffset, wInfo.eOrigin)
    /\ noSpace' = (noSpace \/ SeekLacksSpace(file, wInfo.nOffset, wInfo.eOrigin))
    /\ wpc' = "loop"
    /\ UNCHANGED <<positions, bStopWriteThread, ring, dataInfoQueue, client,
                   wInfo, wLength, wFreed>>

\* An entry longer than the data in the buffer is dropped.
CheckLength ==
    /\ wpc = "check"
    /\ Unlocked
    /\ wpc' = IF wInfo.nLen > nDataLen THEN "loop" ELSE "chunk"
    /\ UNCHANGED <<file, positions, noSpace, bStopWriteThread, ring, dataInfoQueue,
                   client, wInfo, wLength, wFreed>>

\* Mutation: the chunk is not split where the buffer ends.
ChunkUnsplit == wInfo.nLen

ChunkLength == IF wInfo.nLen > nBufferLen - nDataStartPos
               THEN nBufferLen - nDataStartPos ELSE wInfo.nLen

\* Compute nLengthToConsume, unlock and call Write.
StartChunk ==
    /\ wpc = "chunk"
    /\ Unlocked
    /\ wLength' = ChunkLength
    /\ wpc' = "write"
    /\ wFreed' = FALSE
    /\ UNCHANGED <<file, positions, noSpace, bStopWriteThread, ring, dataInfoQueue,
                   client, wInfo>>

\* pContentPipeImpl->Write returns; its result is only logged.  The bytes are
\* those in the buffer now, so that whatever was copied over them is seen.
WriteChunk ==
    /\ wpc = "write"
    /\ file' = WriteTo(file, [i \in 1..wLength |->
                                IF wFreed THEN Garbage
                                ELSE buffer[nDataStartPos + i - 1]])
    /\ wpc' = "consume"
    /\ UNCHANGED <<positions, noSpace, bStopWriteThread, ring, dataInfoQueue,
                   client, wInfo, wLength, wFreed>>

\* Mutation: the start of the data is not wrapped around.
AdvanceUnwrapped(n) == nDataStartPos' = nDataStartPos + n

Advance(n) == nDataStartPos' = (nDataStartPos + n) % nBufferLen

ConsumeChunk ==
    /\ wpc = "consume"
    /\ Unlocked
    /\ Advance(wLength)
    /\ nDataLen' = nDataLen - wLength
    /\ wInfo' = WriteInfo(wInfo.nLen - wLength)
    /\ wpc' = IF wInfo'.nLen > 0 THEN "chunk" ELSE "loop"
    /\ UNCHANGED <<file, positions, noSpace, bStopWriteThread, buffer, nBufferLen,
                   nFreeSpaceStartPos, dataInfoQueue, client, wLength, wFreed>>

-----------------------------------------------------------------------------
ClientStep == Reallocate \/ ReallocateFails \/ AddInfo \/ Closed

WriterStep ==
    \/ Loop
    \/ GetInfo
    \/ Seek
    \/ CheckLength
    \/ StartChunk
    \/ WriteChunk
    \/ ConsumeChunk

Next ==
    \/ \E n \in Sizes : Write(n)
    \/ \E s \in Seeks : SetPosition(s)
    \/ Close
    \/ ClientStep
    \/ WriterStep
    \/ cpc = "closed" /\ UNCHANGED vars

Spec == Init /\ [][Next]_vars

\* Both threads go on when they can; no one has to call Write or Close.
FairSpec == Spec /\ WF_vars(ClientStep) /\ WF_vars(WriterStep)

-----------------------------------------------------------------------------
(* Properties *)

TypeOK ==
    /\ file.nPos \in Int /\ file.nLen \in Int
    /\ nUriLen \in Nat /\ nFakePos \in Int
    /\ noSpace \in BOOLEAN /\ bStopWriteThread \in BOOLEAN
    /\ nBufferLen \in Nat \ {0}
    /\ DOMAIN buffer = 0..nBufferLen - 1
    /\ nDataStartPos \in 0..nBufferLen - 1
    /\ nFreeSpaceStartPos \in 0..nBufferLen - 1
    /\ nDataLen \in 0..nBufferLen
    /\ dataInfoQueue \in Seq(DataInfo) /\ Len(dataInfoQueue) <= QueueSize
    /\ cpc \in {"idle", "full", "add", "join", "closed"}
    /\ cInfo \in DataInfo
    /\ wpc \in {"loop", "get", "seek", "check", "chunk", "write", "consume", "exit"}
    /\ wInfo \in DataInfo
    /\ wLength \in Nat
    /\ wFreed \in BOOLEAN
    /\ calls \in 0..MaxCalls

\* While the thread writes to the file without the lock, the bytes it reads are
\* in the buffer it was given, belong to the data of its entry, and are out of
\* reach of the Write calls that copy to the same buffer.
ReadsLiveData ==
    wpc \in {"write", "consume"} =>
        /\ ~wFreed
        /\ wLength > 0
        /\ wLength <= wInfo.nLen
        /\ wInfo.nLen <= nDataLen
        /\ nDataStartPos + wLength <= nBufferLen

\* What the thread still has to apply: the rest of its entry, the queue, and
\* the entry the client is about to add.
Unapplied ==
    (IF wpc = "seek" \/ wpc \in {"check", "chunk", "write"} THEN <<wInfo>>
     ELSE IF wpc = "consume" THEN <<WriteInfo(wInfo.nLen - wLength)>>
     ELSE <<>>)
    \o dataInfoQueue
    \o (IF cpc = "add" THEN <<cInfo>> ELSE <<>>)

\* The files an entry makes of the file and ring position it is applied to; a
\* set of one, which TLC computes once however often it is used.
Applied(states, info) ==
    IF IsSeek(info)
    THEN {[file |-> SeekTo(s.file, info.nOffset, info.eOrigin), at |-> s.at] :
            s \in states}
    ELSE IF info.nLen <= 0 THEN states
    ELSE {[file |-> WriteTo(s.file,
                      [i \in 1..info.nLen |-> buffer[(s.at + i - 1) % nBufferLen]]),
           at |-> (s.at + info.nLen) % nBufferLen] : s \in states}

\* The file as it will be when the thread has caught up.
FileToBe ==
    LET start == IF wpc = "consume" THEN (nDataStartPos + wLength) % nBufferLen
                 ELSE nDataStartPos
        after[k \in 0..Len(Unapplied)] ==
            IF k = 0 THEN {[file |-> file, at |-> start]}
            ELSE Applied(after[k - 1], Unapplied[k])
    IN  (CHOOSE s \in after[Len(Unapplied)] : TRUE).file

\* To its caller the pipe is a file on which each call takes effect at once:
\* nothing the thread does later changes what the file will be.
RecordedTo == INSTANCE RecordedFile WITH
    file <- FileToBe,
    Blocks <- {Block(k, n) : k \in 1..MaxCalls, n \in Sizes}

ImplementsFile == RecordedTo!Spec

\* GetPosition, and the length SetPosition compares with, are those of the file
\* to be, although they are computed without asking the file.
PositionTrue ==
    cpc = "idle" /\ FileToBe.written =>
        nFakePos = FileToBe.nPos /\ nUriLen = FileToBe.nLen

\* When Close returns, all the data is in the file.  Only the extension by a
\* SetPosition that was not followed by a Write may be missing.
ClosedComplete ==
    cpc = "closed" /\ FileToBe.written =>
        /\ IsPrefix(file.bytes, FileToBe.bytes)
        /\ \A k \in Len(file.bytes) + 1..Len(FileToBe.bytes) : FileToBe.bytes[k] = Zero

\* Write, SetPosition and Close return.
CallsReturn == cpc \in {"full", "add", "join"} ~> cpc \in {"idle", "closed"}
=============================================================================
