------------------------- MODULE AsyncWritePipe_proofs -------------------------
(***************************************************************************)
(* As long as its client stays within the limits of the pipe, and for every *)
(* size of the buffer, of the blocks and of the device:                     *)
(*  - the writer thread only reads bytes that are there for it to read;     *)
(*  - the pipe implements RecordedFile: the thread never changes what the   *)
(*    file will be, only how much of it has been written (Landing makes the *)
(*    recursion of FileToBe a chain of files, and AppendWay, TailWay and    *)
(*    SplitWay say what adding, dropping and half writing an entry do to    *)
(*    that chain);                                                          *)
(*  - the positions the client is told are those of the file, if it only    *)
(*    seeks forward;                                                        *)
(*  - after Close the file lacks no data.                                   *)
(***************************************************************************)
EXTENDS AsyncWritePipe, NatSetInduction, SequenceTheorems, TLAPS

\* Arithmetic of ring positions.
LEMMA ModRange ==
    ASSUME NEW m \in Nat \ {0}, NEW x \in Nat
    PROVE  x % m \in 0..m - 1
OBVIOUS

\* The new buffer is longer than the block it is made for.
LEMMA NewLength ==
    ASSUME NEW n \in Nat, NEW m \in Nat \ {0}
    PROVE  /\ (n \div m) * m + m \in Nat
           /\ n < (n \div m) * m + m
<1>1. n = (m * (n \div m)) + (n % m) /\ n \div m \in Nat /\ n % m \in 0..m - 1
  OBVIOUS
<1>2. (n \div m) * m = m * (n \div m) /\ m * (n \div m) \in Nat
  BY <1>1
<1> QED BY <1>1, <1>2

-----------------------------------------------------------------------------
(* The file keeps its type *)

LEMMA FileTypes ==
    ASSUME NEW f, f.nPos \in Int, f.nLen \in Int, NEW data, Len(data) \in Nat,
           NEW info \in DataInfo, IsSeek(info)
    PROVE  /\ WriteTo(f, data).nPos \in Int /\ WriteTo(f, data).nLen \in Int
           /\ SeekTo(f, info.nOffset, info.eOrigin).nPos \in Int
           /\ SeekTo(f, info.nOffset, info.eOrigin).nLen \in Int
<1>1. \A at, n \in Int : ActualWritten(at, n) \in Int
  BY SpaceAssumption DEF ActualWritten
<1>2. WriteTo(f, data).nPos \in Int /\ WriteTo(f, data).nLen \in Int
  <2> DEFINE n == ActualWritten(f.nPos, Len(data))
  <2>0. Len(data) \in Int
    OBVIOUS
  <2>1. n \in Int
    BY <1>1, <2>0
  <2>2. /\ WriteTo(f, data).nPos = f.nPos + n
        /\ WriteTo(f, data).nLen = IF f.nPos + n > f.nLen THEN f.nPos + n ELSE f.nLen
    BY DEF WriteTo
  <2> QED BY <2>1, <2>2
<1>3. info.nOffset \in Int /\ info.eOrigin \in {"Begin", "Cur", "End"}
  BY DEF DataInfo, Origins, IsSeek
<1>4. Target(f, info.nOffset, info.eOrigin) \in Int
  BY <1>3 DEF Target
<1>5. /\ SeekTo(f, info.nOffset, info.eOrigin).nPos \in Int
      /\ SeekTo(f, info.nOffset, info.eOrigin).nLen \in Int
  <2> DEFINE target == Target(f, info.nOffset, info.eOrigin)
             n == ActualWritten(f.nLen, target - f.nLen)
  <2>0. target \in Int /\ target - f.nLen \in Int
    BY <1>4
  <2>1. n \in Int
    BY <1>1, <2>0
  <2>2. SeekTo(f, info.nOffset, info.eOrigin).nPos \in {f.nPos, target}
    BY DEF SeekTo
  <2>3. SeekTo(f, info.nOffset, info.eOrigin).nLen \in {f.nLen, f.nLen + n}
    BY DEF SeekTo
  <2> QED BY <2>0, <2>1, <2>2, <2>3
<1> QED BY <1>2, <1>5

-----------------------------------------------------------------------------
(* The inductive invariant *)

\* What the thread has checked of its entry, and that a client that waits for
\* room left no data behind: a new buffer cannot be put under the thread's feet.
Handed ==
    /\ wpc \in {"check", "chunk", "write", "consume"} => wInfo.nLen > 0
    /\ wpc \in {"chunk", "write", "consume"} => wInfo.nLen <= nDataLen
    /\ cpc = "full" => cInfo.nLen \in Sizes /\ nDataLen = 0
    /\ wpc = "seek" => IsSeek(wInfo)

IInv == TypeOK /\ ReadsLiveData /\ Handed

LEMMA InfoTypes ==
    ASSUME NEW n \in Int, NEW s \in Seeks
    PROVE  /\ SeekInfo(s) \in DataInfo /\ WriteInfo(n) \in DataInfo
           /\ StopInfo \in DataInfo
           /\ WriteInfo(n).nLen = n
BY PipeAssumption DEF SeekInfo, WriteInfo, StopInfo, DataInfo, CP_OriginMax

LEMMA InitInv == Init => IInv
<1> SUFFICES ASSUME Init PROVE IInv
  OBVIOUS
<1>1. StopInfo \in DataInfo
  BY DEF WriteInfo, StopInfo, DataInfo, CP_OriginMax
<1>2. TypeOK
  <2>1. file.nPos \in Int /\ file.nLen \in Int
    BY DEF Init, EmptyFile
  <2>2. dataInfoQueue \in Seq(DataInfo) /\ Len(dataInfoQueue) <= QueueSize
    BY PipeAssumption DEF Init
  <2>3. nBufferLen \in Nat \ {0} /\ DOMAIN buffer = 0..nBufferLen - 1
    BY PipeAssumption DEF Init
  <2>4. /\ nDataStartPos \in 0..nBufferLen - 1 /\ nFreeSpaceStartPos \in 0..nBufferLen - 1
        /\ nDataLen \in 0..nBufferLen
    BY PipeAssumption DEF Init
  <2>5. calls \in 0..MaxCalls /\ wLength \in Nat
    BY PipeAssumption DEF Init
  <2>6. /\ nUriLen \in Nat /\ nFakePos \in Int
        /\ noSpace \in BOOLEAN /\ bStopWriteThread \in BOOLEAN /\ wFreed \in BOOLEAN
    <3>1. nUriLen \in Nat /\ nFakePos \in Int
      BY DEF Init
    <3>2. noSpace \in BOOLEAN /\ bStopWriteThread \in BOOLEAN /\ wFreed \in BOOLEAN
      BY Zenon DEF Init
    <3> QED BY <3>1, <3>2
  <2>7. /\ cpc = "idle" /\ wpc = "loop" /\ cInfo \in DataInfo /\ wInfo \in DataInfo
    BY <1>1 DEF Init
  <2> QED BY <2>1, <2>2, <2>3, <2>4, <2>5, <2>6, <2>7 DEF TypeOK
<1>3. ReadsLiveData /\ Handed
  BY DEF Init, ReadsLiveData, Handed
<1> QED BY <1>2, <1>3 DEF IInv

\* Fill keeps the ring's type, leaves the data where it is and adds to it.
LEMMA FillTypes ==
    ASSUME NEW data, NEW buf, NEW len \in Nat \ {0}, NEW start \in 0..len - 1,
           NEW free \in 0..len - 1, NEW used \in 0..len,
           Len(data) \in Nat, Len(data) <= len - used,
           Fill(data, buf, len, start, free, used)
    PROVE  /\ nBufferLen' = len
           /\ DOMAIN buffer' = 0..len - 1
           /\ nDataStartPos' \in 0..len - 1
           /\ nFreeSpaceStartPos' \in 0..len - 1
           /\ nDataLen' \in 0..len /\ nDataLen' = used + Len(data)
           /\ used > 0 => nDataStartPos' = start
<1>1. /\ nBufferLen' = len /\ DOMAIN buffer' = 0..len - 1
      /\ nDataLen' = used + Len(data)
      /\ nDataStartPos' = IF used = 0 THEN 0 ELSE start
      /\ nFreeSpaceStartPos' = ((IF used = 0 THEN 0 ELSE free) + Len(data)) % len
  BY DEF Fill, DataStart
<1>2. (IF used = 0 THEN 0 ELSE free) + Len(data) \in Nat
  OBVIOUS
<1>3. nFreeSpaceStartPos' \in 0..len - 1
  BY <1>1, <1>2, ModRange
<1> QED BY <1>1, <1>3

LEMMA BlockLength ==
    ASSUME NEW k, NEW n \in Nat
    PROVE  Len(Block(k, n)) = n
BY DEF Block

\* One step of a client within the limits.
LEMMA ClientInv ==
    ASSUME IInv, bWithinLimits,
           \/ \E n \in Sizes : Write(n)
           \/ \E s \in Seeks : SetPosition(s)
           \/ Close
           \/ ClientStep
    PROVE  IInv'
<1> USE DEF IInv
<1>1. ASSUME NEW n \in Sizes, Write(n) PROVE IInv'
  <2>1. n \in Nat \ {0} /\ WriteInfo(n) \in DataInfo /\ WriteInfo(n).nLen = n
    BY PipeAssumption, <1>1 DEF WriteInfo, DataInfo, CP_OriginMax
  <2>2. /\ cInfo' = WriteInfo(n) /\ calls' \in 0..MaxCalls
        /\ UNCHANGED <<file, positions, noSpace, bStopWriteThread, dataInfoQueue,
                       writer, wFreed>>
    BY <1>1, PipeAssumption DEF Write, TypeOK
  <2>3. CASE n > nBufferLen - nDataLen
    <3>1. UNCHANGED ring /\ cpc' = "full" /\ nDataLen = 0
      BY <1>1, <2>3 DEF Write
    <3>2. TypeOK'
      BY <2>1, <2>2, <3>1 DEF TypeOK, positions, writer, ring
    <3>3. ReadsLiveData' /\ Handed'
      BY <2>1, <2>2, <3>1 DEF ReadsLiveData, Handed, positions, writer, ring
    <3> QED BY <3>2, <3>3
  <2>4. CASE ~(n > nBufferLen - nDataLen)
    <3>1. /\ cpc' = "add"
          /\ Fill(Block(calls + 1, n), buffer, nBufferLen, nDataStartPos,
                  nFreeSpaceStartPos, nDataLen)
      BY <1>1, <2>4 DEF Write
    <3>2. Len(Block(calls + 1, n)) = n
      BY <2>1, BlockLength
    <3>3. /\ nBufferLen' = nBufferLen
          /\ DOMAIN buffer' = 0..nBufferLen - 1
          /\ nDataStartPos' \in 0..nBufferLen - 1
          /\ nFreeSpaceStartPos' \in 0..nBufferLen - 1
          /\ nDataLen' \in 0..nBufferLen /\ nDataLen' = nDataLen + n
          /\ nDataLen > 0 => nDataStartPos' = nDataStartPos
      <4>1. /\ nBufferLen \in Nat \ {0} /\ nDataStartPos \in 0..nBufferLen - 1
            /\ nFreeSpaceStartPos \in 0..nBufferLen - 1 /\ nDataLen \in 0..nBufferLen
        BY DEF TypeOK
      <4>2. /\ Len(Block(calls + 1, n)) \in Nat
            /\ Len(Block(calls + 1, n)) <= nBufferLen - nDataLen
        BY <2>1, <2>4, <3>2, <4>1
      <4> QED BY <3>1, <3>2, <4>1, <4>2, FillTypes
    <3>4. TypeOK'
      BY <2>1, <2>2, <3>1, <3>3 DEF TypeOK, positions, writer
    <3>5. /\ wpc' = wpc /\ wInfo' = wInfo /\ wLength' = wLength /\ wFreed' = wFreed
          /\ wInfo.nLen \in Int /\ nDataLen \in Nat /\ cpc' # "full"
      BY <2>2, <3>1 DEF writer, TypeOK, DataInfo
    <3>6. /\ wpc \in {"chunk", "write", "consume"} => wInfo.nLen <= nDataLen'
          /\ wpc \in {"check", "chunk", "write", "consume"} => wInfo.nLen > 0
      BY <2>1, <3>3, <3>5 DEF Handed
    <3>7. Handed'
      BY <3>5, <3>6 DEF Handed
    <3>8. ASSUME wpc \in {"write", "consume"}
          PROVE  /\ nDataStartPos' = nDataStartPos /\ nBufferLen' = nBufferLen
                 /\ wInfo.nLen <= nDataLen'
      BY <3>3, <3>5, <3>6, <3>8 DEF Handed
    <3>9. ReadsLiveData'
      BY <3>5, <3>8 DEF ReadsLiveData
    <3> QED BY <3>4, <3>7, <3>9
  <2> QED BY <2>3, <2>4
<1>2. ASSUME Reallocate PROVE IInv'
  <2> DEFINE newLength == (cInfo.nLen \div Mega) * Mega + Mega
  <2>1. cInfo.nLen \in Nat \ {0} /\ nDataLen = 0 /\ cpc = "full"
    BY <1>2, PipeAssumption DEF Reallocate, Handed
  <2>2. newLength \in Nat \ {0} /\ cInfo.nLen < newLength
    <3>1. Mega \in Nat \ {0}
      BY PipeAssumption
    <3>2. newLength \in Nat /\ cInfo.nLen < newLength
      BY <2>1, <3>1, NewLength
    <3> HIDE DEF newLength
    <3> QED BY <2>1, <3>2
  <2>3. wpc \notin {"chunk", "write", "consume"}
    BY <2>1 DEF Handed, TypeOK, DataInfo
  <2>4. Len(Block(calls, cInfo.nLen)) = cInfo.nLen
    BY <2>1, BlockLength
  <2>5. /\ Fill(Block(calls, cInfo.nLen), [k \in 0..newLength - 1 |-> Zero],
                newLength, 0, 0, 0)
        /\ cpc' = "add" /\ wFreed' = (wFreed \/ wpc = "write")
        /\ UNCHANGED <<file, positions, noSpace, bStopWriteThread, dataInfoQueue,
                       cInfo, calls, writer>>
    BY <1>2 DEF Reallocate
  <2>6. /\ nBufferLen' = newLength
        /\ DOMAIN buffer' = 0..newLength - 1
        /\ nDataStartPos' \in 0..newLength - 1
        /\ nFreeSpaceStartPos' \in 0..newLength - 1
        /\ nDataLen' \in 0..newLength
    <3>1. 0 \in 0..newLength - 1 /\ 0 \in 0..newLength
      BY <2>2
    <3>2. Len(Block(calls, cInfo.nLen)) \in Nat
          /\ Len(Block(calls, cInfo.nLen)) <= newLength - 0
      BY <2>1, <2>2, <2>4
    <3> HIDE DEF newLength
    <3> QED BY <2>2, <2>5, <3>1, <3>2, FillTypes
  <2>7. TypeOK'
    <3> HIDE DEF newLength
    <3> QED BY <2>2, <2>5, <2>6 DEF TypeOK, positions, writer
  <2>8. ReadsLiveData' /\ Handed'
    <3> HIDE DEF newLength
    <3> QED BY <2>3, <2>5 DEF ReadsLiveData, Handed, writer
  <2> QED BY <2>7, <2>8
<1>3. ASSUME ReallocateFails PROVE IInv'
  BY <1>3 DEF ReallocateFails, TypeOK, ReadsLiveData, Handed, positions, writer, ring
<1>4. ASSUME NEW s \in Seeks, SetPosition(s) PROVE IInv'
  <2>1. SeekInfo(s) \in DataInfo
    BY InfoTypes
  <2>2. FakeTarget(s) \in Int
    <3>1. s.nOffset \in Int /\ s.eOrigin \in {"Begin", "Cur", "End"}
      BY PipeAssumption DEF Origins
    <3>2. nFakePos \in Int /\ nUriLen \in Int
      BY DEF TypeOK
    <3> QED BY <3>1, <3>2 DEF FakeTarget
  <2>3. nUriLen' \in Nat /\ nFakePos' \in Int
    BY <1>4, <2>2 DEF SetPosition, MovePosition, positions, TypeOK
  <2>4. /\ cpc' \in {"idle", "add"} /\ cInfo' \in DataInfo /\ calls' \in 0..MaxCalls
        /\ UNCHANGED <<file, noSpace, bStopWriteThread, ring, dataInfoQueue,
                       writer, wFreed>>
    BY <1>4, <2>1, PipeAssumption DEF SetPosition, TypeOK
  <2>5. TypeOK'
    BY <2>3, <2>4 DEF TypeOK, ring, writer
  <2>6. ReadsLiveData' /\ Handed'
    BY <2>4 DEF ReadsLiveData, Handed, ring, writer
  <2> QED BY <2>5, <2>6
<1>5. ASSUME AddInfo PROVE IInv'
  <2>1. /\ dataInfoQueue' \in Seq(DataInfo) /\ Len(dataInfoQueue') <= QueueSize
    BY <1>5, PipeAssumption DEF AddInfo, TypeOK
  <2>2. nUriLen' \in Nat /\ nFakePos' \in Int
    <3>1. cInfo.nLen \in Int
      BY DEF TypeOK, DataInfo
    <3> QED BY <1>5, <3>1 DEF AddInfo, TypeOK, positions
  <2>3. /\ cpc' \in {"join", "idle"}
        /\ UNCHANGED <<file, noSpace, bStopWriteThread, ring, cInfo, calls, writer,
                       wFreed>>
    BY <1>5 DEF AddInfo
  <2>4. TypeOK'
    BY <2>1, <2>2, <2>3 DEF TypeOK, ring, writer
  <2>5. ReadsLiveData' /\ Handed'
    BY <2>3 DEF ReadsLiveData, Handed, ring, writer
  <2> QED BY <2>4, <2>5
<1>6. ASSUME Close PROVE IInv'
  <2>1. StopInfo \in DataInfo
    BY DEF WriteInfo, StopInfo, DataInfo, CP_OriginMax
  <2> QED BY <1>6, <2>1 DEF Close, TypeOK, ReadsLiveData, Handed, positions, ring, writer
<1>7. ASSUME Closed PROVE IInv'
  BY <1>7 DEF Closed, TypeOK, ReadsLiveData, Handed, positions, ring, writer
<1> QED BY <1>1, <1>2, <1>3, <1>4, <1>5, <1>6, <1>7 DEF ClientStep

\* One step of the thread.
LEMMA WriterInv ==
    ASSUME IInv, WriterStep
    PROVE  IInv'
<1> USE DEF IInv
<1>0. wInfo.nLen \in Int
  BY DEF TypeOK, DataInfo
<1>1. ASSUME Loop PROVE IInv'
  BY <1>1 DEF Loop, TypeOK, ReadsLiveData, Handed, positions, ring, client
<1>2. ASSUME GetInfo PROVE IInv'
  <2>1. /\ Head(dataInfoQueue) \in DataInfo /\ Tail(dataInfoQueue) \in Seq(DataInfo)
        /\ Len(Tail(dataInfoQueue)) <= QueueSize
    BY <1>2, PipeAssumption DEF GetInfo, TypeOK
  <2>2. /\ wInfo' \in DataInfo /\ wInfo'.nLen \in Int
        /\ dataInfoQueue' \in Seq(DataInfo) /\ Len(dataInfoQueue') <= QueueSize
    BY <1>2, <2>1 DEF GetInfo, DataInfo
  <2>3. /\ \/ wpc' = "seek" /\ IsSeek(wInfo')
           \/ wpc' = "check" /\ wInfo'.nLen > 0
           \/ wpc' = "loop"
        /\ UNCHANGED <<file, positions, noSpace, bStopWriteThread, ring, client,
                       wLength, wFreed>>
    BY <1>2, <2>2 DEF GetInfo
  <2>4. TypeOK'
    BY <2>2, <2>3 DEF TypeOK, positions, ring, client
  <2>5. ReadsLiveData' /\ Handed'
    BY <2>3 DEF ReadsLiveData, Handed, IsSeek, ring, client
  <2> QED BY <2>4, <2>5
<1>3. ASSUME Seek PROVE IInv'
  <2>1. file'.nPos \in Int /\ file'.nLen \in Int
    <3>1. /\ IsSeek(wInfo) /\ wInfo \in DataInfo /\ file.nPos \in Int /\ file.nLen \in Int
          /\ file' = SeekTo(file, wInfo.nOffset, wInfo.eOrigin)
      BY <1>3 DEF Seek, Handed, TypeOK
    <3>2. Len(<<>>) \in Nat
      OBVIOUS
    <3> QED BY <3>1, <3>2, FileTypes
  <2>2. noSpace' \in BOOLEAN
    BY <1>3 DEF Seek, TypeOK, SeekLacksSpace
  <2>3. /\ wpc' = "loop"
        /\ UNCHANGED <<positions, bStopWriteThread, ring, dataInfoQueue, client,
                       wInfo, wLength, wFreed>>
    BY <1>3 DEF Seek
  <2>4. TypeOK'
    BY <2>1, <2>2, <2>3 DEF TypeOK, positions, ring, client
  <2>5. ReadsLiveData' /\ Handed'
    BY <2>3 DEF ReadsLiveData, Handed, ring, client
  <2> QED BY <2>4, <2>5
<1>4. ASSUME CheckLength PROVE IInv'
  <2>1. /\ wpc' \in {"loop", "chunk"}
        /\ wpc' = "chunk" => wInfo.nLen <= nDataLen
    BY <1>0, <1>4 DEF CheckLength, TypeOK
  <2>2. TypeOK'
    BY <1>4, <2>1 DEF CheckLength, TypeOK, positions, ring, client
  <2>3. ReadsLiveData' /\ Handed'
    BY <1>4, <2>1 DEF CheckLength, ReadsLiveData, Handed, ring, client
  <2> QED BY <2>2, <2>3
<1>5. ASSUME StartChunk PROVE IInv'
  <2>1. /\ wpc = "chunk" /\ wpc' = "write" /\ wLength' = ChunkLength /\ wFreed' = FALSE
        /\ UNCHANGED <<file, positions, noSpace, bStopWriteThread, ring, dataInfoQueue,
                       client, wInfo>>
    BY <1>5 DEF StartChunk
  <2>2. wInfo.nLen > 0 /\ wInfo.nLen <= nDataLen
    BY <2>1 DEF Handed
  <2>3. /\ wLength' \in Nat /\ wLength' > 0 /\ wLength' <= wInfo.nLen
        /\ nDataStartPos + wLength' <= nBufferLen
    BY <1>0, <2>1, <2>2 DEF ChunkLength, TypeOK
  <2>4. TypeOK'
    BY <2>1, <2>3 DEF TypeOK, positions, ring, client
  <2>5. ReadsLiveData' /\ Handed'
    BY <2>1, <2>2, <2>3 DEF ReadsLiveData, Handed, ring, client
  <2> QED BY <2>4, <2>5
<1>6. ASSUME WriteChunk PROVE IInv'
  <2> DEFINE data == [i \in 1..wLength |->
                        IF wFreed THEN Garbage ELSE buffer[nDataStartPos + i - 1]]
  <2>1. file'.nPos \in Int /\ file'.nLen \in Int
    <3>1. Len(data) = wLength /\ wLength \in Nat
      BY DEF TypeOK
    <3>2. file' = WriteTo(file, data) /\ file.nPos \in Int /\ file.nLen \in Int
      BY <1>6 DEF WriteChunk, TypeOK
    <3>3. SeekInfo([nOffset |-> 0, eOrigin |-> "Cur"]) \in DataInfo
          /\ IsSeek(SeekInfo([nOffset |-> 0, eOrigin |-> "Cur"]))
      BY DEF SeekInfo, DataInfo, Origins, IsSeek, CP_OriginMax
    <3> HIDE DEF data
    <3> QED BY <3>1, <3>2, <3>3, FileTypes
  <2>2. /\ wpc = "write" /\ wpc' = "consume"
        /\ UNCHANGED <<positions, noSpace, bStopWriteThread, ring, dataInfoQueue,
                       client, wInfo, wLength, wFreed>>
    BY <1>6 DEF WriteChunk
  <2>3. TypeOK'
    BY <2>1, <2>2 DEF TypeOK, positions, ring, client
  <2>4. ReadsLiveData' /\ Handed'
    BY <2>2 DEF ReadsLiveData, Handed, ring, client
  <2> QED BY <2>3, <2>4
<1>7. ASSUME ConsumeChunk PROVE IInv'
  <2>1. /\ wpc = "consume" /\ cpc # "full"
        /\ wInfo' = WriteInfo(wInfo.nLen - wLength)
        /\ nDataLen' = nDataLen - wLength
        /\ UNCHANGED <<file, positions, noSpace, bStopWriteThread, buffer, nBufferLen,
                       nFreeSpaceStartPos, dataInfoQueue, client, wLength, wFreed>>
    BY <1>7 DEF ConsumeChunk, Unlocked
  <2>2. /\ wLength > 0 /\ wLength <= wInfo.nLen /\ wInfo.nLen <= nDataLen
        /\ nDataStartPos + wLength <= nBufferLen
    BY <2>1 DEF ReadsLiveData
  <2>3. /\ wInfo'.nLen = wInfo.nLen - wLength /\ wInfo'.nLen \in Int
        /\ wInfo' \in DataInfo
    BY <1>0, <2>1 DEF TypeOK, WriteInfo, DataInfo, CP_OriginMax
  <2>4. nDataLen' \in 0..nBufferLen /\ wInfo'.nLen <= nDataLen'
    BY <1>0, <2>1, <2>2, <2>3 DEF TypeOK
  <2>5. nDataStartPos' \in 0..nBufferLen - 1
    <3>1. nDataStartPos + wLength \in Nat /\ nBufferLen \in Nat \ {0}
      BY DEF TypeOK
    <3> QED BY <1>7, <3>1, ModRange DEF ConsumeChunk, Advance
  <2>6. \/ wpc' = "chunk" /\ wInfo'.nLen > 0
        \/ wpc' = "loop"
    BY <1>7 DEF ConsumeChunk
  <2>7. TypeOK'
    BY <2>1, <2>3, <2>4, <2>5, <2>6 DEF TypeOK, positions, client
  <2>8. ReadsLiveData' /\ Handed'
    BY <2>1, <2>3, <2>4, <2>6 DEF ReadsLiveData, Handed, client
  <2> QED BY <2>7, <2>8
<1> QED BY <1>1, <1>2, <1>3, <1>4, <1>5, <1>6, <1>7 DEF WriterStep

LEMMA Inductive == bWithinLimits => (Spec => []IInv)
<1>1. ASSUME bWithinLimits PROVE IInv /\ [Next]_vars => IInv'
  <2> SUFFICES ASSUME IInv, [Next]_vars PROVE IInv'
    OBVIOUS
  <2>1. CASE UNCHANGED vars
    BY <2>1 DEF vars, positions, ring, client, writer, IInv, TypeOK, ReadsLiveData,
                Handed
  <2> QED BY <1>1, <2>1, ClientInv, WriterInv DEF Next
<1>2. bWithinLimits => [](bWithinLimits)
  <2>1. bWithinLimits => bWithinLimits'
    OBVIOUS
  <2> QED BY <2>1, PTL
<1> QED BY <1>1, <1>2, InitInv, PTL DEF Spec

-----------------------------------------------------------------------------
(* The theorems *)

\* The positions of the ring stay in the buffer and nDataLen between 0 and its
\* length, through wrap-arounds, rewinds and reallocations.
THEOREM PipeTypeOK == bWithinLimits => (Spec => []TypeOK)
<1>1. IInv => TypeOK
  BY DEF IInv
<1> QED BY <1>1, Inductive, PTL

\* AsyncWriteThreadFunc calls Write outside the lock, and still reads only live
\* data of its own entry: no Write and no reallocation overtakes it.
THEOREM PipeReadsLiveData == bWithinLimits => (Spec => []ReadsLiveData)
<1>1. IInv => ReadsLiveData
  BY DEF IInv
<1> QED BY <1>1, Inductive, PTL

\* A position that has wrapped around the ring once at most.
LEMMA ModOnce ==
    ASSUME NEW m \in Nat \ {0}, NEW x \in 0..2 * m - 1
    PROVE  x % m = IF x < m THEN x ELSE x - m
<1>1. CASE x < m
  BY <1>1
<1>2. CASE x >= m
  <2>1. x = m * 1 + (x - m) /\ x - m \in 0..m - 1
    BY <1>2
  <2>2. QED BY <2>1, <1>2
<1>3. QED BY <1>1, <1>2

-----------------------------------------------------------------------------
(* Files *)

Byte == Nat \X Nat

\* A file of which no write has been cut is a sequence of bytes with a position in it.
Sound(f) ==
    f.written =>
        /\ f.bytes \in Seq(Byte) /\ f.nLen = Len(f.bytes)
        /\ f.nPos \in 0..f.nLen

\* What fits on the device and what does not.
LEMMA Fits ==
    ASSUME NEW at \in Nat, NEW n \in Nat \ {0}
    PROVE  /\ ActualWritten(at, n) = n <=> at + n <= Space
           /\ ActualWritten(at, n) = n \/ ActualWritten(at, n) < n
BY SpaceAssumption DEF ActualWritten

\* Where n bytes are put, and what is kept.
LEMMA OverwriteBytes ==
    ASSUME NEW s \in Seq(Byte), NEW at \in 0..Len(s), NEW data \in Seq(Byte), data # <<>>
    PROVE  LET n == Len(data)
               t == Overwrite(s, at, data, n)
           IN  /\ t \in Seq(Byte)
               /\ Len(t) = IF at + n > Len(s) THEN at + n ELSE Len(s)
               /\ \A k \in 1..Len(t) : t[k] = IF at < k /\ k <= at + n THEN data[k - at]
                                              ELSE s[k]
<1> DEFINE n == Len(data)
           a == SubSeq(s, 1, at)
           b == SubSeq(data, 1, n)
           c == SubSeq(s, at + n + 1, Len(s))
<1>1. n \in Nat \ {0} /\ Len(s) \in Nat
  BY EmptySeq, LenProperties
<1>2. /\ a \in Seq(Byte) /\ Len(a) = at
      /\ \A k \in 1..at : a[k] = s[k]
  BY <1>1, SubSeqProperties, ElementOfSeq
<1>3. b = data
  BY SubSeqFull
<1>4. /\ c \in Seq(Byte)
      /\ Len(c) = IF at + n < Len(s) THEN Len(s) - at - n ELSE 0
      /\ \A k \in 1..Len(s) - at - n : c[k] = s[at + n + k]
  <2>1. \A i \in at + n + 1..Len(s) : s[i] \in Byte
    BY <1>1, ElementOfSeq
  <2>2. at + n + 1 \in Int
    BY <1>1
  <2>3. /\ c \in Seq(Byte)
        /\ Len(c) = IF at + n + 1 <= Len(s) THEN Len(s) - (at + n + 1) + 1 ELSE 0
        /\ \A k \in 1..Len(s) - (at + n + 1) + 1 : c[k] = s[at + n + 1 + k - 1]
    <3> HIDE DEF n
    <3>1. QED BY <1>1, <2>1, <2>2, SubSeqProperties
  <2> HIDE DEF n, c
  <2>4. \A k \in 1..Len(s) - at - n : at + n + 1 + k - 1 = at + n + k
    BY <1>1
  <2>5. QED BY <1>1, <2>3, <2>4
<1> HIDE DEF n, a, b, c
<1> DEFINE d == a \o b
<1>5. /\ d \in Seq(Byte) /\ Len(d) = at + n
      /\ \A k \in 1..at + n : d[k] = IF k <= at THEN a[k] ELSE data[k - at]
  <2>1. b \in Seq(Byte) /\ Len(b) = n
    BY <1>3 DEF n
  <2>2. /\ a \o b \in Seq(Byte) /\ Len(a \o b) = Len(a) + Len(b)
        /\ \A k \in 1..Len(a) + Len(b) : (a \o b)[k] = IF k <= Len(a) THEN a[k] ELSE b[k - Len(a)]
    BY <1>2, <2>1, ConcatProperties
  <2> HIDE DEF d
  <2>3. QED BY <1>1, <1>2, <1>3, <2>1, <2>2 DEF d
<1>7. Overwrite(s, at, data, n) = d \o c
  <2>1. ~(n <= 0)
    BY <1>1
  <2>2. QED BY <2>1, Zenon DEF Overwrite, a, b, c
<1> DEFINE t == d \o c
<1> HIDE DEF d
<1>6. /\ t \in Seq(Byte) /\ Len(t) = at + n + Len(c)
      /\ \A k \in 1..at + n + Len(c) : t[k] = IF k <= at + n THEN d[k] ELSE c[k - (at + n)]
  <2>1. /\ d \o c \in Seq(Byte) /\ Len(d \o c) = Len(d) + Len(c)
        /\ \A k \in 1..Len(d) + Len(c) : (d \o c)[k] = IF k <= Len(d) THEN d[k] ELSE c[k - Len(d)]
    BY <1>4, <1>5, ConcatProperties
  <2> HIDE DEF t
  <2>2. QED BY <1>5, <2>1 DEF t
<1> HIDE DEF t
<1>8. Len(t) = IF at + n > Len(s) THEN at + n ELSE Len(s)
  <2>1. Len(t) = at + n + Len(c) /\ Len(c) = IF at + n < Len(s) THEN Len(s) - at - n ELSE 0
    BY <1>4, <1>6
  <2>2. at \in Nat /\ at + n \in Nat
    BY <1>1
  <2>3. Len(c) \in Nat
    BY <1>4, LenProperties
  <2>4. \A l, k, m, total \in Nat :
            total = k + m /\ m = (IF k < l THEN l - k ELSE 0) => total = IF k > l THEN k ELSE l
    OBVIOUS
  <2>5. Len(t) \in Nat
    BY <1>6, LenProperties
  <2>6. Len(c) = (IF at + n < Len(s) THEN Len(s) - (at + n) ELSE 0)
    BY <1>1, <2>1, <2>2
  <2>7. Len(t) = (at + n) + Len(c)
    BY <2>1
  <2>9. CASE at + n > Len(s)
    <3>1. Len(c) = 0
      BY <1>1, <2>2, <2>6, <2>9
    <3>2. Len(t) = at + n
      BY <2>2, <2>7, <3>1
    <3>3. QED BY <3>2, <2>9
  <2>10. CASE ~(at + n > Len(s))
    <3>1. Len(t) = Len(s)
      <4>1. CASE at + n < Len(s)
        <5>1. Len(c) = Len(s) - (at + n)
          BY <2>6, <4>1
        <5>2. \A l, k, m \in Nat : m = l - k => k + m = l
          OBVIOUS
        <5>3. (at + n) + Len(c) = Len(s)
          BY <1>1, <2>2, <2>3, <5>1, <5>2
        <5>4. QED BY <5>3, <2>7
      <4>2. CASE at + n = Len(s)
        <5>1. Len(c) = 0
          BY <1>1, <2>6, <4>2
        <5>2. QED BY <1>1, <5>1, <2>7, <4>2
      <4>3. QED BY <1>1, <2>2, <2>10, <4>1, <4>2
    <3>3. QED BY <3>1, <2>10
  <2>8. QED BY <2>9, <2>10
<1>9. ASSUME NEW k \in 1..Len(t)
      PROVE  t[k] = IF at < k /\ k <= at + n THEN data[k - at] ELSE s[k]
  <2>1. CASE k <= at
    BY <1>1, <1>2, <1>5, <1>6, <1>8, <2>1
  <2>2. CASE at < k /\ k <= at + n
    BY <1>1, <1>5, <1>6, <1>8, <2>2
  <2>3. CASE at + n < k
    <3>1. k - (at + n) \in 1..Len(s) - at - n /\ at + n + (k - (at + n)) = k
      BY <1>1, <1>8, <2>3
    <3>2. t[k] = c[k - (at + n)]
      BY <1>1, <1>6, <1>8, <2>3
    <3>3. QED BY <1>1, <1>4, <2>3, <3>1, <3>2
  <2>4. QED BY <1>1, <2>1, <2>2, <2>3
<1>10. QED BY <1>6, <1>7, <1>8, <1>9 DEF n, t

\* A file that is cut stays cut.
LEMMA StaysCut ==
    ASSUME NEW f, ~f.written, NEW data, NEW o, NEW origin
    PROVE  ~WriteTo(f, data).written /\ ~SeekTo(f, o, origin).written
<1>1. ~WriteTo(f, data).written
  BY DEF WriteTo
<1>2. ~SeekTo(f, o, origin).written
  BY DEF SeekTo
<1>3. QED BY <1>1, <1>2

\* A write that is not cut.
LEMMA WriteSound ==
    ASSUME NEW f, Sound(f), f.written, NEW data \in Seq(Byte), data # <<>>
    PROVE  LET g == WriteTo(f, data)
               n == Len(data)
           IN  /\ Sound(g)
               /\ g.written <=> (f.nPos + n <= Space)
               /\ g.written => /\ g.nPos = f.nPos + n
                               /\ g.nLen = IF f.nPos + n > f.nLen THEN f.nPos + n ELSE f.nLen
                               /\ g.bytes = Overwrite(f.bytes, f.nPos, data, n)
<1> DEFINE n == Len(data)
           m == ActualWritten(f.nPos, n)
           g == WriteTo(f, data)
<1>1. n \in Nat \ {0} /\ f.nPos \in Nat /\ f.nLen \in Nat
  BY EmptySeq, LenProperties DEF Sound
<1>2. /\ g.bytes = Overwrite(f.bytes, f.nPos, data, m)
      /\ g.nPos = f.nPos + m
      /\ g.nLen = IF f.nPos + m > f.nLen THEN f.nPos + m ELSE f.nLen
      /\ g.written <=> m = n
  BY DEF WriteTo
<1>3. g.written <=> (f.nPos + n <= Space) /\ (g.written => m = n)
  <2>1. m = n <=> f.nPos + n <= Space
    BY <1>1, Fits
  <2>2. g.written <=> m = n
    BY <1>2
  <2> HIDE DEF n, m, g
  <2>3. QED BY <2>1, <2>2
<1>4. ASSUME g.written
      PROVE  /\ g.nPos = f.nPos + n
             /\ g.nLen = IF f.nPos + n > f.nLen THEN f.nPos + n ELSE f.nLen
             /\ g.bytes = Overwrite(f.bytes, f.nPos, data, n)
  <2> HIDE DEF g, m, n
  <2>1. QED BY <1>2, <1>3, <1>4
<1>5. Sound(g)
  <2>1. SUFFICES ASSUME g.written PROVE /\ g.bytes \in Seq(Byte) /\ g.nLen = Len(g.bytes)
                                        /\ g.nPos \in 0..g.nLen
    BY DEF Sound
  <2>2. f.bytes \in Seq(Byte) /\ f.nLen = Len(f.bytes) /\ f.nPos \in 0..Len(f.bytes)
    BY DEF Sound
  <2>3. LET t == Overwrite(f.bytes, f.nPos, data, n)
        IN  t \in Seq(Byte) /\ Len(t) = IF f.nPos + n > f.nLen THEN f.nPos + n ELSE f.nLen
    BY <2>2, OverwriteBytes
  <2> HIDE DEF g, m, n
  <2>4. QED BY <1>1, <1>4, <2>1, <2>2, <2>3
<1>6. QED BY <1>3, <1>4, <1>5

\* A seek that is not cut keeps the bytes and appends zeros.
LEMMA SeekSound ==
    ASSUME NEW f, Sound(f), f.written, NEW o \in Int, NEW origin \in Origins
    PROVE  LET g == SeekTo(f, o, origin)
               target == Target(f, o, origin)
           IN  /\ Sound(g)
               /\ target \in Int
               /\ g.written =>
                    /\ g.nLen >= f.nLen
                    /\ \A k \in 1..f.nLen : g.bytes[k] = f.bytes[k]
                    /\ \A k \in f.nLen + 1..g.nLen : g.bytes[k] = Zero
                    /\ IF target < 0 THEN g.nPos = f.nPos /\ g.nLen = f.nLen
                       ELSE IF target <= f.nLen THEN g.nPos = target /\ g.nLen = f.nLen
                       ELSE g.nPos = f.nPos /\ g.nLen = target
<1> DEFINE target == Target(f, o, origin)
           need == target - f.nLen
           n == ActualWritten(f.nLen, need)
           zeros == [k \in 1..need |-> Zero]
           g == SeekTo(f, o, origin)
<1>1. f.nPos \in Nat /\ f.nLen \in Nat /\ f.bytes \in Seq(Byte) /\ f.nLen = Len(f.bytes)
      /\ f.nPos <= f.nLen
  BY LenProperties DEF Sound
<1>2. target \in Int
  BY <1>1 DEF Target, Origins
<1>3. CASE target < 0
  <2>1. g = f
    BY <1>3 DEF SeekTo
  <2>2. QED BY <1>1, <1>2, <1>3, <2>1
<1>4. CASE target >= 0 /\ target <= f.nLen
  <2>1. ~(target < 0) /\ need <= 0
    BY <1>1, <1>2, <1>4
  <2>2. g = [bytes |-> f.bytes, nPos |-> target, nLen |-> f.nLen, written |-> f.written]
    BY <2>1, Zenon DEF SeekTo
  <2>3. g.bytes = f.bytes /\ g.nPos = target /\ g.nLen = f.nLen
    BY <2>2
  <2> HIDE DEF g, target
  <2>4. target \in 0..f.nLen
    BY <1>1, <1>2, <1>4
  <2>5. Sound(g)
    BY <1>1, <2>3, <2>4 DEF Sound
  <2>6. ~(target < 0) /\ target <= f.nLen
    BY <1>1, <2>4
  <2>7. /\ g.nLen >= f.nLen
        /\ \A k \in 1..f.nLen : g.bytes[k] = f.bytes[k]
        /\ \A k \in f.nLen + 1..g.nLen : g.bytes[k] = Zero
    BY <1>1, <2>3
  <2>8. QED BY <1>2, <2>3, <2>5, <2>6, <2>7 DEF g, target
<1>5. CASE target > f.nLen
  <2>1. ~(target < 0) /\ ~(need <= 0) /\ need \in Nat \ {0} /\ f.nLen + need = target
    BY <1>1, <1>2, <1>5
  <2>2. g = [bytes |-> Overwrite(f.bytes, f.nLen, zeros, n), nPos |-> f.nPos,
             nLen |-> f.nLen + n, written |-> f.written /\ n = need]
    BY <2>1, Zenon DEF SeekTo
  <2>3. /\ g.bytes = Overwrite(f.bytes, f.nLen, zeros, n) /\ g.nPos = f.nPos
        /\ g.nLen = f.nLen + n /\ (g.written <=> n = need)
    <3> HIDE DEF g, zeros, n, need
    <3>1. g.written = (f.written /\ n = need)
      BY <2>2
    <3>2. QED BY <2>2, <3>1
  <2>4. SUFFICES ASSUME g.written
                 PROVE  /\ g.bytes \in Seq(Byte) /\ g.nLen = Len(g.bytes) /\ g.nPos = f.nPos
                        /\ g.nLen = target
                        /\ \A k \in 1..f.nLen : g.bytes[k] = f.bytes[k]
                        /\ \A k \in f.nLen + 1..g.nLen : g.bytes[k] = Zero
    <3> HIDE DEF g, target
    <3>1. Sound(g)
      <4>1. f.nPos \in 0..target
        BY <1>1, <1>2, <1>5
      <4>2. QED BY <2>4, <4>1 DEF Sound
    <3>2. ~(target < 0) /\ ~(target <= f.nLen) /\ target >= f.nLen
      BY <1>1, <1>2, <1>5
    <3>3. QED BY <1>2, <2>4, <3>1, <3>2 DEF g, target
  <2>5. zeros \in Seq(Byte) /\ Len(zeros) = need /\ zeros # <<>>
    <3> HIDE DEF need
    <3>1. QED BY <2>1 DEF Byte, Zero
  <2>6. \A k \in 1..need : zeros[k] = Zero
    OBVIOUS
  <2>7. g.bytes = Overwrite(f.bytes, f.nLen, zeros, need) /\ g.nLen = target
    BY <2>1, <2>3, <2>4
  <2> HIDE DEF g, target, need, zeros, n
  <2>8. /\ g.bytes \in Seq(Byte)
        /\ Len(g.bytes) = IF f.nLen + need > f.nLen THEN f.nLen + need ELSE f.nLen
        /\ \A k \in 1..Len(g.bytes) :
              g.bytes[k] = IF f.nLen < k /\ k <= f.nLen + need THEN zeros[k - f.nLen]
                           ELSE f.bytes[k]
    <3>1. f.nLen \in 0..Len(f.bytes)
      BY <1>1
    <3>2. LET t == Overwrite(f.bytes, f.nLen, zeros, Len(zeros))
          IN  /\ t \in Seq(Byte)
              /\ Len(t) = IF f.nLen + Len(zeros) > Len(f.bytes) THEN f.nLen + Len(zeros)
                          ELSE Len(f.bytes)
              /\ \A k \in 1..Len(t) :
                    t[k] = IF f.nLen < k /\ k <= f.nLen + Len(zeros) THEN zeros[k - f.nLen]
                           ELSE f.bytes[k]
      BY <1>1, <2>5, <3>1, OverwriteBytes
    <3>3. QED BY <1>1, <2>5, <2>7, <3>2
  <2>9. Len(g.bytes) = target
    BY <1>1, <2>1, <2>8
  <2>10. \A k \in 1..f.nLen : g.bytes[k] = f.bytes[k]
    BY <1>1, <1>2, <1>5, <2>8, <2>9
  <2>11. ASSUME NEW k \in f.nLen + 1..g.nLen PROVE g.bytes[k] = Zero
    <3>1. k - f.nLen \in 1..need /\ k \in 1..Len(g.bytes) /\ f.nLen < k /\ k <= f.nLen + need
      BY <1>1, <1>2, <2>1, <2>7, <2>9
    <3>2. g.bytes[k] = zeros[k - f.nLen]
      BY <2>8, <3>1
    <3>3. QED BY <2>6, <3>1, <3>2
  <2>12. QED BY <2>3, <2>7, <2>8, <2>9, <2>10, <2>11
<1>6. QED BY <1>1, <1>2, <1>3, <1>4, <1>5

\* Overwriting in two parts.
LEMMA OverwriteTwice ==
    ASSUME NEW s \in Seq(Byte), NEW p \in 0..Len(s), NEW a \in Seq(Byte), NEW b \in Seq(Byte),
           a # <<>>, b # <<>>
    PROVE  Overwrite(Overwrite(s, p, a, Len(a)), p + Len(a), b, Len(b))
              = Overwrite(s, p, a \o b, Len(a) + Len(b))
<1> DEFINE m == Len(a)
           n == Len(b)
           data == a \o b
           g == Overwrite(s, p, a, m)
           h == Overwrite(g, p + m, b, n)
           w == Overwrite(s, p, data, m + n)
           l == Len(s)
<1>1. m \in Nat \ {0} /\ n \in Nat \ {0} /\ l \in Nat /\ p \in Nat /\ p <= l
  BY EmptySeq, LenProperties
<1>2. /\ data \in Seq(Byte) /\ Len(data) = m + n
      /\ \A k \in 1..m + n : data[k] = IF k <= m THEN a[k] ELSE b[k - m]
  BY ConcatProperties
<1>3. data # <<>>
  <2> HIDE DEF m, n, data
  <2>1. QED BY <1>1, <1>2, EmptySeq
<1>4. /\ w \in Seq(Byte)
      /\ Len(w) = IF p + (m + n) > l THEN p + (m + n) ELSE l
      /\ \A k \in 1..Len(w) : w[k] = IF p < k /\ k <= p + (m + n) THEN data[k - p] ELSE s[k]
  <2> HIDE DEF data, m, n
  <2>1. LET t == Overwrite(s, p, data, Len(data))
        IN  /\ t \in Seq(Byte)
            /\ Len(t) = IF p + Len(data) > Len(s) THEN p + Len(data) ELSE Len(s)
            /\ \A k \in 1..Len(t) : t[k] = IF p < k /\ k <= p + Len(data) THEN data[k - p]
                                           ELSE s[k]
    BY <1>2, <1>3, OverwriteBytes
  <2>2. Len(data) = m + n
    BY <1>2
  <2>3. QED BY <2>1, <2>2
<1>5. /\ g \in Seq(Byte)
      /\ Len(g) = IF p + m > l THEN p + m ELSE l
      /\ \A k \in 1..Len(g) : g[k] = IF p < k /\ k <= p + m THEN a[k - p] ELSE s[k]
  BY OverwriteBytes
<1> HIDE DEF m, n, data, g, w, l
<1>6. p + m \in 0..Len(g)
  <2>1. CASE p + m > l
    BY <1>1, <1>5, <2>1
  <2>2. CASE ~(p + m > l)
    BY <1>1, <1>5, <2>2
  <2>3. QED BY <2>1, <2>2
<1>7. /\ h \in Seq(Byte)
      /\ Len(h) = IF p + m + n > Len(g) THEN p + m + n ELSE Len(g)
      /\ \A k \in 1..Len(h) : h[k] = IF p + m < k /\ k <= p + m + n THEN b[k - (p + m)] ELSE g[k]
  BY <1>5, <1>6, OverwriteBytes DEF n
<1> HIDE DEF h
<1>8. Len(h) = Len(w)
  <2> DEFINE lg == Len(g)
  <2>1. lg = IF p + m > l THEN p + m ELSE l
    BY <1>5
  <2>2. Len(h) = IF p + m + n > lg THEN p + m + n ELSE lg
    BY <1>7
  <2>3. Len(w) = IF p + (m + n) > l THEN p + (m + n) ELSE l
    BY <1>4
  <2> HIDE DEF lg
  <2>4. QED BY <1>1, <2>1, <2>2, <2>3
<1>9. ASSUME NEW k \in 1..Len(h) PROVE h[k] = w[k]
  <2>0. /\ k \in Nat /\ k >= 1 /\ k \in 1..Len(w)
        /\ h[k] = IF p + m < k /\ k <= p + m + n THEN b[k - (p + m)] ELSE g[k]
        /\ w[k] = IF p < k /\ k <= p + (m + n) THEN data[k - p] ELSE s[k]
    BY <1>4, <1>7, <1>8
  <2>1. CASE p + m < k /\ k <= p + m + n
    <3>1. /\ k - p \in 1..m + n /\ ~(k - p <= m) /\ (k - p) - m = k - (p + m)
          /\ p < k /\ k <= p + (m + n)
      BY <1>1, <2>0, <2>1
    <3>2. QED BY <1>2, <2>0, <2>1, <3>1
  <2>2. CASE p < k /\ k <= p + m
    <3>1. /\ k - p \in 1..m + n /\ k - p <= m
          /\ ~(p + m < k) /\ k <= p + (m + n)
      <4>1. k \in Nat
        OBVIOUS
      <4>2. \A i, j, x, y \in Nat : j < i /\ i <= j + x =>
               /\ i - j \in 1..x + y /\ i - j <= x /\ ~(j + x < i) /\ i <= j + (x + y)
        OBVIOUS
      <4>3. QED BY <1>1, <2>2, <4>1, <4>2
    <3>2. k \in 1..Len(g)
      BY <1>1, <1>6, <2>0, <2>2
    <3>3. g[k] = a[k - p]
      BY <1>5, <2>2, <3>2
    <3>4. QED BY <1>2, <2>0, <2>2, <3>1, <3>3
  <2>3. CASE k <= p \/ k > p + m + n
    <3>1. ~(p + m < k /\ k <= p + m + n) /\ ~(p < k /\ k <= p + (m + n)) /\ ~(p < k /\ k <= p + m)
      BY <1>1, <2>0, <2>3
    <3>2. k \in 1..Len(g)
      <4>1. CASE k <= p
        BY <1>1, <1>6, <2>0, <4>1
      <4>2. CASE k > p + m + n
        BY <1>1, <1>6, <1>7, <2>0, <4>2
      <4>3. QED BY <2>3, <4>1, <4>2
    <3>3. g[k] = s[k]
      BY <1>5, <3>1, <3>2
    <3>4. QED BY <2>0, <3>1, <3>3
  <2>4. QED BY <1>1, <2>0, <2>1, <2>2, <2>3
<1>10. h = w
  BY <1>4, <1>7, <1>8, <1>9, SeqEqual
<1>11. QED BY <1>10 DEF h, w, g, m, n, data

\* One write in two chunks.
LEMMA WriteInChunks ==
    ASSUME NEW f, Sound(f), NEW a \in Seq(Byte), NEW b \in Seq(Byte), NEW data \in Seq(Byte),
           a # <<>>, b # <<>>, data = a \o b
    PROVE  \/ WriteTo(WriteTo(f, a), b) = WriteTo(f, data)
           \/ ~WriteTo(WriteTo(f, a), b).written /\ ~WriteTo(f, data).written
<1> DEFINE g == WriteTo(f, a)
           h == WriteTo(g, b)
           w == WriteTo(f, data)
           m == Len(a)
           n == Len(b)
<1>1. /\ m \in Nat \ {0} /\ n \in Nat \ {0} /\ Len(data) = m + n /\ data # <<>>
      /\ \A k \in 1..m + n : data[k] = IF k <= m THEN a[k] ELSE b[k - m]
  <2>1. m \in Nat \ {0} /\ n \in Nat \ {0}
    BY EmptySeq, LenProperties
  <2>2. Len(data) = m + n /\ \A k \in 1..m + n : data[k] = IF k <= m THEN a[k] ELSE b[k - m]
    BY ConcatProperties
  <2>3. data # <<>>
    <3> HIDE DEF m, n
    <3>1. QED BY <2>1, <2>2, EmptySeq
  <2>4. QED BY <2>1, <2>2, <2>3
<1>2. CASE ~f.written
  BY <1>2, StaysCut
<1>3. CASE f.written
  <2>1. /\ f.nPos \in Nat /\ f.nLen \in Nat /\ f.bytes \in Seq(Byte) /\ f.nLen = Len(f.bytes)
        /\ f.nPos <= f.nLen
    BY <1>3, LenProperties DEF Sound
  <2>2. /\ Sound(g)
        /\ g.written <=> (f.nPos + m <= Space)
        /\ g.written => /\ g.nPos = f.nPos + m
                        /\ g.nLen = IF f.nPos + m > f.nLen THEN f.nPos + m ELSE f.nLen
                        /\ g.bytes = Overwrite(f.bytes, f.nPos, a, m)
    BY <1>3, WriteSound
  <2>3. /\ Sound(w)
        /\ w.written <=> (f.nPos + (m + n) <= Space)
        /\ w.written => /\ w.nPos = f.nPos + (m + n)
                        /\ w.nLen = IF f.nPos + (m + n) > f.nLen THEN f.nPos + (m + n) ELSE f.nLen
                        /\ w.bytes = Overwrite(f.bytes, f.nPos, data, m + n)
    <3>1. Len(data) = m + n
      BY <1>1
    <3> HIDE DEF m, n
    <3>2. LET t == WriteTo(f, data)
              l == Len(data)
          IN  /\ Sound(t)
              /\ t.written <=> (f.nPos + l <= Space)
              /\ t.written => /\ t.nPos = f.nPos + l
                              /\ t.nLen = IF f.nPos + l > f.nLen THEN f.nPos + l ELSE f.nLen
                              /\ t.bytes = Overwrite(f.bytes, f.nPos, data, l)
      BY <1>1, <1>3, WriteSound
    <3>3. QED BY <3>1, <3>2
  <2>4. ASSUME g.written
        PROVE  /\ Sound(h)
               /\ h.written <=> (g.nPos + n <= Space)
               /\ h.written => /\ h.nPos = g.nPos + n
                               /\ h.nLen = IF g.nPos + n > g.nLen THEN g.nPos + n ELSE g.nLen
                               /\ h.bytes = Overwrite(g.bytes, g.nPos, b, n)
    BY <2>2, <2>4, WriteSound
  <2>5. w = [bytes |-> w.bytes, nPos |-> w.nPos, nLen |-> w.nLen, written |-> w.written]
        /\ h = [bytes |-> h.bytes, nPos |-> h.nPos, nLen |-> h.nLen, written |-> h.written]
    BY DEF WriteTo
  <2>6. ~g.written => ~h.written
    BY StaysCut
  <2> HIDE DEF g, h, w, m, n
  <2>sums. /\ f.nPos \in Nat /\ m \in Nat /\ n \in Nat
           /\ f.nPos + (m + n) = (f.nPos + m) + n /\ Space \in Nat
    BY <1>1, <2>1, SpaceAssumption
  <2>fits. /\ w.written <=> ((f.nPos + m) + n <= Space)
           /\ g.written => (h.written <=> (f.nPos + m) + n <= Space)
           /\ h.written => g.written
           /\ w.written => g.written
    <3>1. w.written <=> ((f.nPos + m) + n <= Space)
      BY <2>3, <2>sums
    <3>2. g.written => (h.written <=> (f.nPos + m) + n <= Space)
      BY <2>2, <2>4
    <3>3. h.written => g.written
      BY <2>6
    <3>4. (f.nPos + m) + n <= Space => f.nPos + m <= Space
      BY <2>sums
    <3>5. w.written => g.written
      BY <2>2, <3>1, <3>4
    <3>6. QED BY <3>1, <3>2, <3>3, <3>5
  <2>7. CASE ~w.written
    <3>1. ~h.written
      BY <2>7, <2>fits
    <3>2. QED BY <2>7, <3>1 DEF g, h, w
  <2>8. CASE w.written
    <3>1. g.written
      BY <2>8, <2>fits
    <3>2. h.written
      BY <2>8, <2>fits, <3>1
    <3>3. h.nPos = w.nPos
      <4>1. h.nPos = (f.nPos + m) + n
        BY <2>2, <2>4, <3>1, <3>2
      <4>2. w.nPos = (f.nPos + m) + n
        BY <2>3, <2>8, <2>sums
      <4>3. QED BY <4>1, <4>2
    <3>4. h.nLen = w.nLen
      <4> DEFINE mid == f.nPos + m
                 end == f.nPos + m + n
      <4>1. f.nLen \in Nat /\ mid \in Nat /\ end \in Nat /\ mid <= end
        BY <2>1, <2>sums, SMTT(30)
      <4>2. g.nLen = IF mid > f.nLen THEN mid ELSE f.nLen
        BY <2>2, <3>1
      <4>3. h.nLen = IF end > g.nLen THEN end ELSE g.nLen
        BY <2>2, <2>4, <3>1, <3>2
      <4>4. w.nLen = IF end > f.nLen THEN end ELSE f.nLen
        BY <2>3, <2>8, <2>sums
      <4> HIDE DEF mid, end
      <4>5. QED BY <4>1, <4>2, <4>3, <4>4
    <3>5. h.bytes = w.bytes
      <4>1. f.nPos \in 0..Len(f.bytes)
        BY <2>1
      <4>2. h.bytes = Overwrite(Overwrite(f.bytes, f.nPos, a, m), f.nPos + m, b, n)
        BY <2>2, <2>4, <3>1, <3>2
      <4>3. w.bytes = Overwrite(f.bytes, f.nPos, a \o b, m + n)
        BY <2>3, <2>8
      <4>4. QED BY <2>1, <4>1, <4>2, <4>3, OverwriteTwice DEF m, n
    <3>6. h = w
      BY <2>5, <2>8, <3>2, <3>3, <3>4, <3>5
    <3>7. QED BY <3>6 DEF g, h, w
  <2>9. QED BY <2>7, <2>8
<1>4. QED BY <1>2, <1>3

-----------------------------------------------------------------------------
(* The files that a queue of entries makes of a file.  The bytes of the      *)
(* entries lie one after the other on a tape: e tells where those of each    *)
(* begin, and g which file the entries up to it make.                        *)

Size(info) == IF IsSeek(info) \/ info.nLen <= 0 THEN 0 ELSE info.nLen

Taken(tape, at, n) == [i \in 1..n |-> tape[at + i]]

Effect(f, info, tape, at) ==
    IF IsSeek(info) THEN SeekTo(f, info.nOffset, info.eOrigin)
    ELSE IF info.nLen <= 0 THEN f
    ELSE WriteTo(f, Taken(tape, at, info.nLen))

\* The entries of U have n bytes.
Offsets(e, U, n) ==
    /\ e \in [0..Len(U) -> 0..n]
    /\ e[0] = 0 /\ e[Len(U)] = n
    /\ \A k \in 1..Len(U) : e[k] = e[k - 1] + Size(U[k])

Files(g, e, U, f, tape) ==
    /\ g[0] = f
    /\ \A k \in 1..Len(U) : g[k] = Effect(g[k - 1], U[k], tape, e[k - 1])

LEMMA SizeType ==
    ASSUME NEW info \in DataInfo
    PROVE  Size(info) \in Nat /\ info.nLen \in Int
BY DEF Size, DataInfo

LEMMA FilesExist ==
    ASSUME NEW U, Len(U) \in Nat, NEW e, NEW f, NEW tape
    PROVE  \E g : Files(g, e, U, f, tape)
<1> DEFINE Upto(g, n) == /\ g[0] = f
                         /\ \A k \in 1..n : g[k] = Effect(g[k - 1], U[k], tape, e[k - 1])
           S == {n \in Nat : \E g : Upto(g, n)}
<1>1. 0 \in S
  <2>1. Upto([k \in 0..0 |-> f], 0)
    OBVIOUS
  <2>2. QED BY <2>1
<1>2. ASSUME NEW n \in Nat, n \in S PROVE n + 1 \in S
  <2>1. PICK g : Upto(g, n)
    BY <1>2
  <2> DEFINE h == [k \in 0..(n + 1) |-> IF k = n + 1 THEN Effect(g[n], U[n + 1], tape, e[n])
                                                     ELSE g[k]]
  <2>2. h[0] = f
    BY <2>1
  <2>3. ASSUME NEW k \in 1..(n + 1) PROVE h[k] = Effect(h[k - 1], U[k], tape, e[k - 1])
    <3>1. h[k - 1] = g[k - 1]
      OBVIOUS
    <3>2. CASE k = n + 1
      <4>1. h[k] = Effect(g[n], U[n + 1], tape, e[n]) /\ k - 1 = n
        BY <3>2
      <4>2. QED BY <3>1, <3>2, <4>1
    <3>3. CASE k # n + 1
      <4>1. h[k] = g[k] /\ k \in 1..n
        BY <3>3
      <4>2. QED BY <2>1, <3>1, <4>1
    <3>4. QED BY <3>2, <3>3
  <2> HIDE DEF h
  <2>4. Upto(h, n + 1)
    BY <2>2, <2>3
  <2>5. QED BY <2>4
<1> HIDE DEF S
<1>3. S = Nat
  <2>1. S \in SUBSET Nat
    BY DEF S
  <2>2. QED BY <1>1, <1>2, <2>1, SetInduction
<1>4. \E g : Upto(g, Len(U))
  BY <1>3 DEF S
<1>5. QED BY <1>4 DEF Files

\* Once cut, cut.
LEMMA CutForGood ==
    ASSUME NEW U, Len(U) \in Nat, NEW e, NEW f, NEW tape, NEW g, Files(g, e, U, f, tape),
           NEW m \in 0..Len(U), ~g[m].written
    PROVE  ~g[Len(U)].written
<1> DEFINE S == {k \in 0..Len(U) : k >= m => ~g[k].written}
<1>1. 0 \in S
  OBVIOUS
<1>2. ASSUME NEW k \in 0..Len(U), k + 1 \in 0..Len(U), k \in S PROVE k + 1 \in S
  <2>1. SUFFICES ASSUME k + 1 >= m PROVE ~g[k + 1].written
    BY <1>2
  <2>2. CASE k + 1 = m
    BY <2>2
  <2>3. CASE k >= m
    <3>1. ~g[k].written
      BY <1>2, <2>3
    <3>2. g[k + 1] = Effect(g[k], U[k + 1], tape, e[k])
      BY <1>2 DEF Files
    <3>3. QED BY <3>1, <3>2, StaysCut DEF Effect
  <2>4. QED BY <2>1, <2>2, <2>3
<1> DEFINE n == Len(U)
<1>3. 0..n \subseteq S
  <2>1. n \in Nat
    OBVIOUS
  <2> HIDE DEF S, n
  <2>2. 0 \in S /\ \A k \in 0..n : k + 1 \in 0..n /\ k \in S => k + 1 \in S
    BY <1>1, <1>2 DEF n
  <2>3. QED BY <2>1, <2>2, UpToInduction
<1>4. Len(U) \in S
  BY <1>3
<1>5. QED BY <1>4 DEF S

HasBytes(tape, n) == \A j \in 1..n : tape[j] \in Byte

\* The bytes that an entry takes are on the tape.
LEMMA TakenBytes ==
    ASSUME NEW U \in Seq(DataInfo), NEW n \in Nat, NEW e, Offsets(e, U, n), NEW k \in 1..Len(U),
           NEW tape, HasBytes(tape, n)
    PROVE  /\ e[k - 1] \in 0..n /\ e[k - 1] + Size(U[k]) \in 0..n
           /\ Taken(tape, e[k - 1], Size(U[k])) \in Seq(Byte)
           /\ Len(Taken(tape, e[k - 1], Size(U[k]))) = Size(U[k])
<1>1. Len(U) \in Nat /\ U[k] \in DataInfo
  BY LenProperties, ElementOfSeq
<1>2. Size(U[k]) \in Nat
  BY <1>1, SizeType
<1>3. e[k - 1] \in 0..n /\ e[k] \in 0..n /\ e[k] = e[k - 1] + Size(U[k])
  BY <1>1 DEF Offsets
<1> DEFINE m == Size(U[k])
           at == e[k - 1]
<1>4. at \in 0..n /\ m \in Nat /\ at + m \in 0..n
  BY <1>2, <1>3
<1> HIDE DEF m, at
<1>5. \A i \in 1..m : tape[at + i] \in Byte
  BY <1>4 DEF HasBytes
<1>6. Taken(tape, at, m) \in Seq(Byte) /\ Len(Taken(tape, at, m)) = m
  BY <1>4, <1>5 DEF Taken
<1>7. QED BY <1>4, <1>6 DEF m, at

\* Every file on the way is sound.
LEMMA SoundFiles ==
    ASSUME NEW U \in Seq(DataInfo), NEW n \in Nat, NEW e, Offsets(e, U, n), NEW f, Sound(f),
           NEW tape, HasBytes(tape, n), NEW g, Files(g, e, U, f, tape)
    PROVE  \A k \in 0..Len(U) : Sound(g[k])
<1> DEFINE S == {k \in 0..Len(U) : Sound(g[k])}
<1>0. Len(U) \in Nat
  BY LenProperties
<1>1. 0 \in S
  BY <1>0 DEF Files
<1>2. ASSUME NEW k \in 0..Len(U), k + 1 \in 0..Len(U), k \in S PROVE k + 1 \in S
  <2> DEFINE info == U[k + 1]
  <2>0. k + 1 \in 1..Len(U) /\ (k + 1) - 1 = k
    BY <1>0, <1>2
  <2>1. g[k + 1] = Effect(g[k], info, tape, e[k])
    BY <2>0 DEF Files
  <2>2. info \in DataInfo /\ Sound(g[k])
    BY <1>2, <2>0, ElementOfSeq
  <2>3. CASE ~g[k].written
    <3>1. ~g[k + 1].written
      BY <2>1, <2>3, StaysCut DEF Effect
    <3>2. QED BY <1>2, <3>1 DEF Sound
  <2>4. CASE g[k].written /\ IsSeek(info)
    <3>1. info.nOffset \in Int /\ info.eOrigin \in Origins
      BY <2>2, <2>4 DEF DataInfo, IsSeek
    <3>2. Sound(SeekTo(g[k], info.nOffset, info.eOrigin))
      BY <2>2, <2>4, <3>1, SeekSound
    <3>3. QED BY <1>2, <2>1, <2>4, <3>2 DEF Effect
  <2>5. CASE g[k].written /\ ~IsSeek(info) /\ info.nLen <= 0
    BY <1>2, <2>1, <2>2, <2>5 DEF Effect
  <2>6. CASE g[k].written /\ ~IsSeek(info) /\ ~(info.nLen <= 0)
    <3> DEFINE data == Taken(tape, e[k], info.nLen)
    <3>1. Size(info) = info.nLen /\ info.nLen \in Nat \ {0}
      BY <2>2, <2>6, SizeType DEF Size
    <3>2. data \in Seq(Byte) /\ Len(data) = info.nLen
      <4>1. /\ Taken(tape, e[(k + 1) - 1], Size(U[k + 1])) \in Seq(Byte)
            /\ Len(Taken(tape, e[(k + 1) - 1], Size(U[k + 1]))) = Size(U[k + 1])
        BY <2>0, TakenBytes
      <4>2. QED BY <2>0, <3>1, <4>1
    <3>3. data # <<>>
      <4> HIDE DEF data
      <4>1. QED BY <3>1, <3>2, EmptySeq
    <3>4. Sound(WriteTo(g[k], data))
      BY <2>2, <2>6, <3>2, <3>3, WriteSound
    <3>5. QED BY <1>2, <2>1, <2>6, <3>4 DEF Effect
  <2>7. QED BY <2>3, <2>4, <2>5, <2>6
<1> HIDE DEF S
<1>3. 0..Len(U) \subseteq S
  <2>1. Len(U) \in Int /\ \A k \in 0..Len(U) : k + 1 \in 0..Len(U) /\ k \in S => k + 1 \in S
    BY <1>0, <1>2
  <2>2. QED BY <1>1, <2>1, UpToInduction
<1>4. QED BY <1>3 DEF S

\* The same bytes, as far as they go.
Agree(tape, tape2, n) == \A j \in 1..n : tape2[j] = tape[j]

\* Only the bytes that the entries have matter.
LEMMA SameTape ==
    ASSUME NEW U \in Seq(DataInfo), NEW n \in Nat, NEW e, Offsets(e, U, n),
           NEW tape, NEW tape2, Agree(tape, tape2, n)
    PROVE  \A k \in 1..Len(U) : \A f :
              Effect(f, U[k], tape2, e[k - 1]) = Effect(f, U[k], tape, e[k - 1])
<1> SUFFICES ASSUME NEW k \in 1..Len(U), NEW f
             PROVE  Effect(f, U[k], tape2, e[k - 1]) = Effect(f, U[k], tape, e[k - 1])
  OBVIOUS
<1> DEFINE info == U[k]
           at == e[k - 1]
<1>1. info \in DataInfo /\ Len(U) \in Nat
  BY LenProperties, ElementOfSeq
<1>2. CASE IsSeek(info) \/ info.nLen <= 0
  BY <1>2 DEF Effect
<1>3. CASE ~(IsSeek(info) \/ info.nLen <= 0)
  <2>1. Size(info) = info.nLen /\ info.nLen \in Nat
    BY <1>1, <1>3, SizeType DEF Size
  <2>2. at \in 0..n /\ at + info.nLen \in 0..n
    <3>1. e[k] = e[k - 1] + Size(U[k]) /\ e[k] \in 0..n /\ e[k - 1] \in 0..n
      BY <1>1 DEF Offsets
    <3>2. QED BY <2>1, <3>1
  <2> HIDE DEF at, info
  <2>3. \A i \in 1..info.nLen : tape2[at + i] = tape[at + i]
    BY <2>1, <2>2 DEF Agree
  <2>4. Taken(tape2, at, info.nLen) = Taken(tape, at, info.nLen)
    BY <2>3 DEF Taken
  <2>5. Effect(f, info, tape2, at) = Effect(f, info, tape, at)
    BY <2>4 DEF Effect
  <2>6. QED BY <2>5 DEF info, at
<1>4. QED BY <1>2, <1>3

\* The client adds an entry, and its bytes to the tape.
LEMMA AppendWay ==
    ASSUME NEW U \in Seq(DataInfo), NEW info \in DataInfo, NEW n \in Nat,
           NEW e, Offsets(e, U, n), NEW f, NEW tape, NEW g, Files(g, e, U, f, tape),
           NEW tape2, Agree(tape, tape2, n)
    PROVE  \E e2, g2 : /\ Offsets(e2, Append(U, info), n + Size(info))
                       /\ Files(g2, e2, Append(U, info), f, tape2)
                       /\ g2[Len(Append(U, info))] = Effect(g[Len(U)], info, tape2, n)
<1> DEFINE V == Append(U, info)
           l == Len(U)
           e2 == [k \in 0..l + 1 |-> IF k = l + 1 THEN n + Size(info) ELSE e[k]]
           g2 == [k \in 0..l + 1 |-> IF k = l + 1 THEN Effect(g[l], info, tape2, n) ELSE g[k]]
<1>1. /\ l \in Nat /\ V \in Seq(DataInfo) /\ Len(V) = l + 1 /\ V[l + 1] = info
      /\ \A k \in 1..l : V[k] = U[k]
  BY LenProperties, AppendProperties
<1>2. Size(info) \in Nat
  BY SizeType
<1>3. /\ e \in [0..l -> 0..n] /\ e[0] = 0 /\ e[l] = n
      /\ \A k \in 1..l : e[k] = e[k - 1] + Size(U[k])
  BY DEF Offsets
<1>4. /\ g[0] = f
      /\ \A k \in 1..l : g[k] = Effect(g[k - 1], U[k], tape2, e[k - 1])
  <2>1. \A k \in 1..l : \A h : Effect(h, U[k], tape2, e[k - 1]) = Effect(h, U[k], tape, e[k - 1])
    BY SameTape
  <2>2. QED BY <2>1 DEF Files
<1> HIDE DEF V, l
<1>5. Offsets(e2, V, n + Size(info))
  <2>1. e2 \in [0..l + 1 -> 0..n + Size(info)]
    BY <1>1, <1>2, <1>3
  <2>2. e2[0] = 0 /\ e2[l + 1] = n + Size(info)
    BY <1>1, <1>3
  <2>3. ASSUME NEW k \in 1..l + 1 PROVE e2[k] = e2[k - 1] + Size(V[k])
    <3>1. CASE k = l + 1
      <4>1. e2[k] = n + Size(info) /\ e2[k - 1] = e[l] /\ V[k] = info
        BY <1>1, <3>1
      <4>2. QED BY <1>3, <4>1
    <3>2. CASE k \in 1..l
      <4>1. e2[k] = e[k] /\ e2[k - 1] = e[k - 1] /\ V[k] = U[k]
        BY <1>1, <3>2
      <4>2. QED BY <1>3, <3>2, <4>1
    <3>3. QED BY <1>1, <3>1, <3>2
  <2> HIDE DEF e2
  <2>4. QED BY <1>1, <2>1, <2>2, <2>3 DEF Offsets
<1>6. Files(g2, e2, V, f, tape2)
  <2>1. g2[0] = f
    BY <1>1, <1>4
  <2>2. ASSUME NEW k \in 1..l + 1 PROVE g2[k] = Effect(g2[k - 1], V[k], tape2, e2[k - 1])
    <3>1. CASE k = l + 1
      <4>1. /\ g2[k] = Effect(g[l], info, tape2, n) /\ g2[k - 1] = g[l] /\ V[k] = info
            /\ e2[k - 1] = n
        BY <1>1, <1>3, <3>1
      <4>2. QED BY <4>1
    <3>2. CASE k \in 1..l
      <4>1. g2[k] = g[k] /\ g2[k - 1] = g[k - 1] /\ V[k] = U[k] /\ e2[k - 1] = e[k - 1]
        BY <1>1, <3>2
      <4>2. QED BY <1>4, <3>2, <4>1
    <3>3. QED BY <1>1, <3>1, <3>2
  <2> HIDE DEF e2, g2
  <2>3. QED BY <1>1, <2>1, <2>2 DEF Files
<1>7. g2[Len(V)] = Effect(g[l], info, tape2, n)
  BY <1>1
<1> HIDE DEF e2, g2
<1>8. QED BY <1>5, <1>6, <1>7 DEF V, l

\* The thread is done with an entry that takes no bytes.
LEMMA TailWay ==
    ASSUME NEW U \in Seq(DataInfo), U # <<>>, Size(U[1]) = 0, NEW n \in Nat,
           NEW e, Offsets(e, U, n), NEW f, NEW tape, NEW g, Files(g, e, U, f, tape)
    PROVE  \E e2, g2 : /\ Offsets(e2, Tail(U), n)
                       /\ Files(g2, e2, Tail(U), Effect(f, U[1], tape, 0), tape)
                       /\ g2[Len(Tail(U))] = g[Len(U)]
<1> DEFINE V == Tail(U)
           l == Len(U) - 1
           e2 == [k \in 0..l |-> e[k + 1]]
           g2 == [k \in 0..l |-> g[k + 1]]
<1>1. /\ l \in Nat /\ Len(U) = l + 1 /\ V \in Seq(DataInfo) /\ Len(V) = l
      /\ \A k \in 1..l : V[k] = U[k + 1]
  BY EmptySeq, LenProperties, HeadTailProperties
<1>2. /\ e \in [0..l + 1 -> 0..n] /\ e[0] = 0 /\ e[l + 1] = n
      /\ \A k \in 1..l + 1 : e[k] = e[k - 1] + Size(U[k])
  BY <1>1 DEF Offsets
<1>3. /\ g[0] = f
      /\ \A k \in 1..l + 1 : g[k] = Effect(g[k - 1], U[k], tape, e[k - 1])
  BY <1>1 DEF Files
<1> HIDE DEF V, l
<1>4. e[1] = 0 /\ g[1] = Effect(f, U[1], tape, 0)
  <2>1. 1 \in 1..l + 1 /\ 1 - 1 = 0
    BY <1>1
  <2>2. e[1] = e[0] + Size(U[1]) /\ g[1] = Effect(g[0], U[1], tape, e[0])
    BY <1>2, <1>3, <2>1
  <2>3. QED BY <1>2, <1>3, <2>2
<1>5. Offsets(e2, V, n)
  <2>1. e2 \in [0..l -> 0..n] /\ e2[0] = 0 /\ e2[l] = n
    <3>1. \A k \in 0..l : k + 1 \in 0..l + 1
      BY <1>1
    <3>2. e2 \in [0..l -> 0..n]
      BY <1>2, <3>1
    <3>3. e2[0] = e[0 + 1] /\ e2[l] = e[l + 1]
      BY <1>1
    <3>4. QED BY <1>2, <1>4, <3>2, <3>3
  <2>2. ASSUME NEW k \in 1..l PROVE e2[k] = e2[k - 1] + Size(V[k])
    <3>1. e2[k] = e[k + 1] /\ e2[k - 1] = e[k] /\ V[k] = U[k + 1] /\ k + 1 \in 1..l + 1
          /\ (k + 1) - 1 = k
      BY <1>1
    <3>2. e[k + 1] = e[(k + 1) - 1] + Size(U[k + 1])
      BY <1>2, <3>1
    <3>3. QED BY <3>1, <3>2
  <2> HIDE DEF e2
  <2>3. QED BY <1>1, <2>1, <2>2 DEF Offsets
<1>6. Files(g2, e2, V, Effect(f, U[1], tape, 0), tape)
  <2>1. g2[0] = Effect(f, U[1], tape, 0)
    BY <1>1, <1>4
  <2>2. ASSUME NEW k \in 1..l PROVE g2[k] = Effect(g2[k - 1], V[k], tape, e2[k - 1])
    <3>1. /\ e2[k - 1] = e[k] /\ g2[k] = g[k + 1] /\ g2[k - 1] = g[k] /\ V[k] = U[k + 1]
          /\ k + 1 \in 1..l + 1 /\ (k + 1) - 1 = k
      BY <1>1
    <3>2. g[k + 1] = Effect(g[(k + 1) - 1], U[k + 1], tape, e[(k + 1) - 1])
      BY <1>3, <3>1
    <3>3. QED BY <3>1, <3>2
  <2> HIDE DEF e2, g2
  <2>3. QED BY <1>1, <2>1, <2>2 DEF Files
<1>7. g2[Len(V)] = g[Len(U)]
  BY <1>1
<1> HIDE DEF e2, g2
<1>8. QED BY <1>5, <1>6, <1>7 DEF V

\* Each entry begins where the first ends, or behind that.
LEMMA OffsetsGrow ==
    ASSUME NEW U \in Seq(DataInfo), U # <<>>, NEW n \in Nat, NEW e, Offsets(e, U, n)
    PROVE  /\ e[1] = Size(U[1])
           /\ \A k \in 1..Len(U) : e[k] \in e[1]..n
<1> DEFINE S == {k \in 0..Len(U) : k >= 1 => e[k] >= e[1]}
<1>0. Len(U) \in Nat \ {0}
  BY EmptySeq
<1>1. /\ e \in [0..Len(U) -> 0..n] /\ e[0] = 0
      /\ \A k \in 1..Len(U) : e[k] = e[k - 1] + Size(U[k])
  BY DEF Offsets
<1>2. e[1] = Size(U[1]) /\ e[1] \in 0..n
  <2>1. 1 \in 1..Len(U) /\ 1 - 1 = 0
    BY <1>0
  <2>2. e[1] = e[0] + Size(U[1])
    BY <1>1, <2>1
  <2>3. Size(U[1]) \in Nat
    BY <2>1, ElementOfSeq, SizeType
  <2>4. QED BY <1>0, <1>1, <2>2, <2>3
<1>3. ASSUME NEW k \in 0..Len(U), k + 1 \in 0..Len(U), k \in S PROVE k + 1 \in S
  <2>1. k + 1 \in 1..Len(U) /\ (k + 1) - 1 = k
    BY <1>0, <1>3
  <2>2. e[k + 1] = e[k] + Size(U[k + 1])
    BY <1>1, <2>1
  <2>3. Size(U[k + 1]) \in Nat /\ e[k] \in Nat
    BY <1>1, <2>1, ElementOfSeq, SizeType
  <2>4. CASE k = 0
    BY <1>2, <1>3, <2>4
  <2>5. CASE k >= 1
    <3>1. e[k] >= e[1]
      BY <1>3, <2>5
    <3>2. e[k + 1] >= e[1]
      BY <1>2, <2>2, <2>3, <3>1
    <3>3. QED BY <1>3, <3>2
  <2>6. QED BY <1>0, <2>4, <2>5
<1>4. 0 \in S
  BY <1>0
<1> HIDE DEF S
<1>5. 0..Len(U) \subseteq S
  <2>1. Len(U) \in Int /\ \A k \in 0..Len(U) : k + 1 \in 0..Len(U) /\ k \in S => k + 1 \in S
    BY <1>0, <1>3
  <2>2. QED BY <1>4, <2>1, UpToInduction
<1>6. ASSUME NEW k \in 1..Len(U) PROVE e[k] \in e[1]..n
  <2>1. k \in S /\ e[k] \in 0..n
    BY <1>0, <1>1, <1>5
  <2>2. e[k] >= e[1]
    BY <2>1 DEF S
  <2>3. QED BY <1>2, <2>1, <2>2
<1>7. QED BY <1>2, <1>6

\* Two queues that may differ in the first entry only.
SameBehind(U, V) == \A k \in 2..Len(U) : V[k] = U[k]

\* The thread has written the first w bytes of the first entry.
LEMMA SplitOffsets ==
    ASSUME NEW U \in Seq(DataInfo), U # <<>>, ~IsSeek(U[1]), NEW w \in 1..U[1].nLen,
           NEW V \in Seq(DataInfo), Len(V) = Len(U), V[1] = WriteInfo(U[1].nLen - w),
           SameBehind(U, V),
           NEW n \in Nat, NEW e, Offsets(e, U, n)
    PROVE  /\ w <= n
           /\ Offsets([k \in 0..Len(U) |-> IF k = 0 THEN 0 ELSE e[k] - w], V, n - w)
<1> DEFINE l == Len(U)
           e2 == [k \in 0..l |-> IF k = 0 THEN 0 ELSE e[k] - w]
<1>1. l \in Nat \ {0} /\ U[1] \in DataInfo /\ U[1].nLen \in Int /\ w \in Nat /\ w >= 1 /\ w <= U[1].nLen
  <2>1. l \in Nat \ {0}
    BY EmptySeq
  <2>2. 1 \in 1..l
    BY <2>1
  <2>3. U[1] \in DataInfo /\ U[1].nLen \in Int
    BY <2>2, ElementOfSeq, SizeType
  <2>4. QED BY <2>1, <2>3
<1>2. Size(U[1]) = U[1].nLen /\ Size(V[1]) = U[1].nLen - w
  BY <1>1 DEF Size, WriteInfo, IsSeek
<1>3. e[1] = U[1].nLen /\ \A k \in 1..l : e[k] \in e[1]..n
  BY <1>2, OffsetsGrow
<1>4. e[l] = n /\ \A k \in 1..l : e[k] = e[k - 1] + Size(U[k])
  BY DEF Offsets
<1>5. w <= n
  BY <1>1, <1>3, <1>4
<1> HIDE DEF l
<1>6. e2 \in [0..l -> 0..n - w]
  <2>1. ASSUME NEW k \in 0..l, k # 0 PROVE e[k] - w \in 0..n - w
    <3>1. k \in 1..l
      BY <1>1, <2>1
    <3>2. e[k] \in U[1].nLen..n
      BY <1>3, <3>1
    <3>3. QED BY <1>1, <3>2
  <2>2. 0 \in 0..n - w
    BY <1>1, <1>5
  <2>3. QED BY <2>1, <2>2
<1>7. e2[0] = 0 /\ e2[l] = n - w
  BY <1>1, <1>4
<1>8. ASSUME NEW k \in 1..l PROVE e2[k] = e2[k - 1] + Size(V[k])
  <2>1. CASE k = 1
    <3>1. e2[k] = U[1].nLen - w /\ e2[k - 1] = 0 /\ Size(V[k]) = U[1].nLen - w
      BY <1>1, <1>2, <1>3, <2>1
    <3>2. QED BY <1>1, <3>1
  <2>2. CASE k # 1
    <3>1. /\ k \in 2..l /\ k - 1 \in 1..l
      BY <1>1, <2>2
    <3>2. e2[k] = e[k] - w /\ e2[k - 1] = e[k - 1] - w /\ V[k] = U[k]
      BY <1>1, <3>1 DEF l, SameBehind
    <3>3. /\ e[k] \in U[1].nLen..n /\ e[k - 1] \in U[1].nLen..n
      BY <1>3, <3>1
    <3>4. e[k] = e[k - 1] + Size(U[k]) /\ Size(U[k]) \in Nat
      <4>1. U[k] \in DataInfo
        BY ElementOfSeq DEF l
      <4>2. QED BY <1>4, <4>1, SizeType
    <3> DEFINE x == e[k]
               y == e[k - 1]
               z == Size(U[k])
    <3>5. x \in Int /\ y \in Int /\ z \in Int /\ x = y + z
      BY <1>1, <3>3, <3>4
    <3> HIDE DEF x, y, z
    <3>6. x - w = (y - w) + z
      BY <1>1, <3>5
    <3>7. QED BY <3>2, <3>6 DEF x, y, z
  <2>3. QED BY <2>1, <2>2
<1> HIDE DEF e2
<1>9. Offsets(e2, V, n - w)
  BY <1>6, <1>7, <1>8 DEF Offsets, l
<1>10. QED BY <1>5, <1>9 DEF e2, l

\* The tape, of n bytes, after its first w bytes.
Shifted(tape, tape2, w, n) == \A j \in 1..n - w : tape2[j] = tape[j + w]

\* The first entry is written in two parts.
LEMMA SplitFirst ==
    ASSUME NEW f, Sound(f), NEW m \in Nat, NEW w \in 1..m, NEW n \in Nat, m <= n,
           NEW tape, HasBytes(tape, n), NEW tape2, Shifted(tape, tape2, w, n),
           NEW first, ~IsSeek(first), first.nLen = m
    PROVE  LET a == Effect(WriteTo(f, Taken(tape, 0, w)), WriteInfo(m - w), tape2, 0)
               b == Effect(f, first, tape, 0)
           IN  a = b \/ (~a.written /\ ~b.written)
<1> DEFINE half == WriteTo(f, Taken(tape, 0, w))
           a == Effect(half, WriteInfo(m - w), tape2, 0)
           b == Effect(f, first, tape, 0)
<1>1. m \in Nat /\ w \in Nat /\ w >= 1 /\ w <= m
  OBVIOUS
<1>2. b = WriteTo(f, Taken(tape, 0, m))
  BY <1>1 DEF Effect
<1>3. ~IsSeek(WriteInfo(m - w)) /\ WriteInfo(m - w).nLen = m - w
  BY DEF WriteInfo, IsSeek
<1>4. \A k \in 1..n : tape[k] \in Byte
  BY DEF HasBytes
<1>5. CASE w = m
  <2>1. a = half
    BY <1>1, <1>3, <1>5 DEF Effect
  <2>2. QED BY <1>2, <1>5, <2>1
<1>6. CASE w # m
  <2> DEFINE x == Taken(tape, 0, w)
             y == Taken(tape2, 0, m - w)
             data == Taken(tape, 0, m)
  <2>1. m - w \in Nat \ {0} /\ ~(m - w <= 0)
    BY <1>1, <1>6
  <2>2. a = WriteTo(half, y)
    BY <1>3, <2>1 DEF Effect
  <2>3. x \in Seq(Byte) /\ Len(x) = w /\ x # <<>> /\ \A k \in 1..w : x[k] = tape[k]
    <3>1. \A k \in 1..w : tape[0 + k] \in Byte /\ 0 + k = k
      BY <1>1, <1>4
    <3>2. x \in Seq(Byte) /\ Len(x) = w /\ \A k \in 1..w : x[k] = tape[k]
      BY <1>1, <3>1 DEF Taken
    <3> HIDE DEF x
    <3>3. QED BY <1>1, <3>2, EmptySeq
  <2>4. y \in Seq(Byte) /\ Len(y) = m - w /\ y # <<>> /\ \A k \in 1..m - w : y[k] = tape[k + w]
    <3>1. \A k \in 1..m - w : tape2[0 + k] = tape[k + w] /\ tape[k + w] \in Byte
      BY <1>1, <1>4 DEF Shifted
    <3>2. y \in Seq(Byte) /\ Len(y) = m - w /\ \A k \in 1..m - w : y[k] = tape[k + w]
      BY <2>1, <3>1 DEF Taken
    <3> HIDE DEF y
    <3>3. QED BY <2>1, <3>2, EmptySeq
  <2>5. data \in Seq(Byte) /\ Len(data) = m /\ \A k \in 1..m : data[k] = tape[k]
    <3>1. \A k \in 1..m : tape[0 + k] \in Byte /\ 0 + k = k
      BY <1>1, <1>4
    <3>2. QED BY <1>1, <3>1 DEF Taken
  <2> HIDE DEF x, y, data
  <2>6. data = x \o y
    <3>1. /\ x \o y \in Seq(Byte) /\ Len(x \o y) = Len(x) + Len(y)
          /\ \A k \in 1..Len(x) + Len(y) : (x \o y)[k] = IF k <= Len(x) THEN x[k] ELSE y[k - Len(x)]
      <4>1. x \in Seq(Byte) /\ y \in Seq(Byte)
        BY <2>3, <2>4
      <4>2. QED BY <4>1, ConcatProperties
    <3>2. Len(x) + Len(y) = m
      BY <1>1, <2>3, <2>4
    <3>3. ASSUME NEW k \in 1..m PROVE (x \o y)[k] = data[k]
      <4>1. CASE k <= w
        <5>1. k \in 1..w /\ k \in 1..Len(x) + Len(y) /\ k <= Len(x)
          BY <1>1, <2>3, <3>2, <4>1
        <5>2. (x \o y)[k] = x[k]
          BY <3>1, <5>1
        <5>3. QED BY <2>3, <2>5, <5>1, <5>2
      <4>2. CASE ~(k <= w)
        <5>1. k - w \in 1..m - w /\ (k - w) + w = k
          BY <1>1, <4>2
        <5>2. (x \o y)[k] = y[k - w]
          BY <2>3, <3>1, <3>2, <4>2
        <5>3. QED BY <2>4, <2>5, <5>1, <5>2
      <4>3. QED BY <4>1, <4>2
    <3>4. QED BY <2>5, <3>1, <3>2, <3>3, SeqEqual
  <2>7. \/ WriteTo(WriteTo(f, x), y) = WriteTo(f, data)
        \/ ~WriteTo(WriteTo(f, x), y).written /\ ~WriteTo(f, data).written
    BY <2>3, <2>4, <2>5, <2>6, WriteInChunks
  <2>8. QED BY <1>2, <2>2, <2>7 DEF x, data
<1>7. QED BY <1>5, <1>6

\* V is what the queue U becomes when w bytes of its first entry are written.
IsSplit(U, V, w) ==
    /\ U \in Seq(DataInfo) /\ U # <<>> /\ ~IsSeek(U[1])
    /\ w \in 1..U[1].nLen
    /\ V \in Seq(DataInfo) /\ Len(V) = Len(U) /\ V[1] = WriteInfo(U[1].nLen - w)
    /\ SameBehind(U, V)

LEMMA SplitWay ==
    ASSUME NEW U, NEW V, NEW w, IsSplit(U, V, w),
           NEW n \in Nat, NEW e, Offsets(e, U, n), NEW f, Sound(f), NEW tape, HasBytes(tape, n),
           NEW g, Files(g, e, U, f, tape), NEW tape2, Shifted(tape, tape2, w, n)
    PROVE  \E e2, g2 : /\ Offsets(e2, V, n - w)
                       /\ Files(g2, e2, V, WriteTo(f, Taken(tape, 0, w)), tape2)
                       /\ \/ g2[Len(V)] = g[Len(U)]
                          \/ ~g2[Len(V)].written /\ ~g[Len(U)].written
<1>0. /\ U \in Seq(DataInfo) /\ U # <<>> /\ ~IsSeek(U[1])
      /\ w \in 1..U[1].nLen
      /\ V \in Seq(DataInfo) /\ Len(V) = Len(U) /\ V[1] = WriteInfo(U[1].nLen - w)
      /\ SameBehind(U, V)
  BY DEF IsSplit
<1> USE <1>0
<1> DEFINE l == Len(U)
           e2 == [k \in 0..l |-> IF k = 0 THEN 0 ELSE e[k] - w]
           half == WriteTo(f, Taken(tape, 0, w))
<1>1. w <= n /\ Offsets(e2, V, n - w)
  BY SplitOffsets
<1>2. l \in Nat \ {0} /\ U[1] \in DataInfo /\ U[1].nLen \in Nat /\ Size(U[1]) = U[1].nLen
  <2>1. l \in Nat \ {0}
    BY EmptySeq
  <2>2. 1 \in 1..l
    BY <2>1
  <2>3. U[1] \in DataInfo /\ U[1].nLen \in Int
    BY <2>2, ElementOfSeq, SizeType
  <2>4. QED BY <2>1, <2>3 DEF Size
<1>3. e[1] = U[1].nLen /\ \A k \in 1..l : e[k] \in e[1]..n
  BY <1>2, OffsetsGrow
<1>4. U[1].nLen <= n
  <2>1. e[1] \in e[1]..n
    BY <1>2, <1>3
  <2>2. QED BY <1>2, <1>3, <2>1
<1>5. PICK g2 : Files(g2, e2, V, half, tape2)
  <2>1. Len(V) \in Nat
    BY <1>2
  <2>2. QED BY <2>1, FilesExist
<1> HIDE DEF l
<1>6. g2[1] = Effect(half, WriteInfo(U[1].nLen - w), tape2, 0)
  <2>1. 1 \in 1..Len(V) /\ 1 - 1 = 0 /\ e2[0] = 0
    BY <1>2 DEF l
  <2>2. g2[1] = Effect(g2[1 - 1], V[1], tape2, e2[1 - 1]) /\ g2[0] = half
    BY <1>5, <2>1 DEF Files
  <2> HIDE DEF e2, half
  <2>3. QED BY <2>1, <2>2
<1>7. g[1] = Effect(f, U[1], tape, 0)
  <2>1. 1 \in 1..Len(U) /\ 1 - 1 = 0
    BY <1>2 DEF l
  <2>2. g[1] = Effect(g[1 - 1], U[1], tape, e[1 - 1]) /\ g[0] = f /\ e[0] = 0
    BY <2>1 DEF Files, Offsets
  <2>3. QED BY <2>1, <2>2
<1>8. g2[1] = g[1] \/ (~g2[1].written /\ ~g[1].written)
  <2>1. w \in 1..U[1].nLen /\ U[1].nLen \in Nat /\ U[1].nLen = U[1].nLen
    BY <1>2
  <2>2. LET a == Effect(WriteTo(f, Taken(tape, 0, w)), WriteInfo(U[1].nLen - w), tape2, 0)
            b == Effect(f, U[1], tape, 0)
        IN  a = b \/ (~a.written /\ ~b.written)
    <3> DEFINE first == U[1]
               m == first.nLen
    <3>1. /\ m \in Nat /\ w \in 1..m /\ m <= n /\ ~IsSeek(first) /\ first.nLen = m
          /\ Shifted(tape, tape2, w, n) /\ HasBytes(tape, n) /\ Sound(f) /\ n \in Nat
      BY <1>4, <2>1
    <3> HIDE DEF half, e2, first, m
    <3>2. LET a == Effect(WriteTo(f, Taken(tape, 0, w)), WriteInfo(m - w), tape2, 0)
              b == Effect(f, first, tape, 0)
          IN  a = b \/ (~a.written /\ ~b.written)
      BY <3>1, SplitFirst
    <3>3. QED BY <3>2 DEF first, m
  <2>3. QED BY <1>6, <1>7, <2>2 DEF half
<1>9. CASE ~g2[1].written /\ ~g[1].written
  <2>1. Len(U) \in Nat /\ Len(V) \in Nat /\ 1 \in 0..Len(U) /\ 1 \in 0..Len(V)
    BY <1>2 DEF l
  <2>2. ~g2[Len(V)].written
    BY <1>5, <1>9, <2>1, CutForGood
  <2>3. ~g[Len(U)].written
    BY <1>9, <2>1, CutForGood
  <2> HIDE DEF e2, half
  <2>4. QED BY <1>1, <1>5, <2>2, <2>3 DEF half
<1>10. CASE g2[1] = g[1]
  <2> DEFINE S == {k \in 0..l : k >= 1 => g2[k] = g[k]}
  <2>1. 0 \in S
    BY <1>2
  <2>2. ASSUME NEW k \in 0..l, k + 1 \in 0..l, k \in S PROVE k + 1 \in S
    <3>1. CASE k = 0
      BY <1>10, <2>2, <3>1
    <3>2. CASE k >= 1
      <4> DEFINE info == U[k + 1]
      <4>1. /\ k \in 1..l /\ k + 1 \in 2..l /\ k + 1 \in 1..Len(U) /\ k + 1 \in 1..Len(V)
            /\ (k + 1) - 1 = k
        BY <1>2, <2>2, <3>2 DEF l
      <4>2. g[k + 1] = Effect(g[k], info, tape, e[k])
        BY <4>1 DEF Files
      <4>3. g2[k + 1] = Effect(g2[k], info, tape2, e[k] - w)
        <5>1. g2[k + 1] = Effect(g2[k], V[k + 1], tape2, e2[k])
          BY <1>5, <4>1 DEF Files
        <5>2. e2[k] = e[k] - w /\ V[k + 1] = U[k + 1]
          BY <4>1 DEF l, SameBehind
        <5> HIDE DEF e2
        <5>3. QED BY <5>1, <5>2
      <4>4. g2[k] = g[k]
        BY <2>2, <3>2
      <4>5. info \in DataInfo
        BY <4>1, ElementOfSeq
      <4>6. CASE IsSeek(info) \/ info.nLen <= 0
        <5>1. g2[k + 1] = g[k + 1]
          BY <4>2, <4>3, <4>4, <4>6 DEF Effect
        <5>2. QED BY <2>2, <5>1
      <4>7. CASE ~(IsSeek(info) \/ info.nLen <= 0)
        <5> DEFINE at == e[k]
                   m == info.nLen
        <5>1. m \in Nat /\ Size(info) = m
          BY <4>5, <4>7, SizeType DEF Size
        <5>2. at \in U[1].nLen..n /\ at + m \in U[1].nLen..n
          <6>1. e[k + 1] = e[k] + Size(info)
            BY <4>1 DEF Offsets
          <6>2. e[k] \in e[1]..n /\ e[k + 1] \in e[1]..n
            BY <1>3, <4>1 DEF l
          <6>3. QED BY <1>3, <5>1, <6>1, <6>2
        <5> HIDE DEF at, m
        <5>3. ASSUME NEW i \in 1..m PROVE tape2[(at - w) + i] = tape[at + i]
          <6>1. (at - w) + i \in 1..n - w /\ ((at - w) + i) + w = at + i
            BY <1>1, <1>2, <5>1, <5>2
          <6>2. QED BY <6>1 DEF Shifted
        <5>4. Taken(tape2, at - w, m) = Taken(tape, at, m)
          BY <5>3 DEF Taken
        <5>5. g2[k + 1] = g[k + 1]
          BY <4>2, <4>3, <4>4, <4>7, <5>4 DEF Effect, at, m
        <5>6. QED BY <2>2, <5>5
      <4>8. QED BY <4>6, <4>7
    <3>3. QED BY <2>2, <3>1, <3>2
  <2> HIDE DEF S
  <2>3. 0..l \subseteq S
    <3>1. l \in Int /\ \A k \in 0..l : k + 1 \in 0..l /\ k \in S => k + 1 \in S
      BY <1>2, <2>2
    <3>2. QED BY <2>1, <3>1, UpToInduction
  <2>4. g2[l] = g[l]
    <3>1. l \in S
      BY <1>2, <2>3
    <3>2. QED BY <1>2, <3>1 DEF S
  <2> HIDE DEF e2, half
  <2>5. QED BY <1>1, <1>5, <2>4 DEF l, half
<1>11. QED BY <1>8, <1>9, <1>10

\* What a file becomes when it is only extended: it keeps its bytes and gets zeros.
Extends(f, h) ==
    /\ f.nLen <= h.nLen
    /\ \A j \in 1..f.nLen : h.bytes[j] = f.bytes[j]
    /\ \A j \in f.nLen + 1..h.nLen : h.bytes[j] = Zero

LEMMA ExtendsTwice ==
    ASSUME NEW a, NEW b, NEW c, a.nLen \in Nat, b.nLen \in Nat, c.nLen \in Nat,
           Extends(a, b), Extends(b, c)
    PROVE  Extends(a, c)
<1>1. a.nLen <= b.nLen /\ b.nLen <= c.nLen
  BY DEF Extends
<1>2. ASSUME NEW j \in 1..a.nLen PROVE c.bytes[j] = a.bytes[j]
  <2>1. j \in 1..b.nLen
    BY <1>1
  <2>2. QED BY <2>1 DEF Extends
<1>3. ASSUME NEW j \in a.nLen + 1..c.nLen PROVE c.bytes[j] = Zero
  <2>1. CASE j <= b.nLen
    <3>1. j \in 1..b.nLen /\ j \in a.nLen + 1..b.nLen
      BY <1>1, <2>1
    <3>2. QED BY <3>1 DEF Extends
  <2>2. CASE ~(j <= b.nLen)
    <3>1. j \in b.nLen + 1..c.nLen
      BY <1>1, <2>2
    <3>2. QED BY <3>1 DEF Extends
  <2>3. QED BY <2>1, <2>2
<1>4. QED BY <1>1, <1>2, <1>3 DEF Extends

\* Entries that have no bytes can only extend the file.
LEMMA NothingLeft ==
    ASSUME NEW U \in Seq(DataInfo), NEW e, Offsets(e, U, 0), NEW f, Sound(f),
           NEW tape, NEW g, Files(g, e, U, f, tape), g[Len(U)].written
    PROVE  f.written /\ Extends(f, g[Len(U)])
<1> DEFINE S == {k \in 0..Len(U) : g[k].written => f.written /\ Extends(f, g[k])}
<1>0. Len(U) \in Nat /\ g[0] = f
  BY LenProperties DEF Files
<1>1. 0 \in S
  BY <1>0 DEF Extends, Sound
<1>2. \A k \in 0..Len(U) : Sound(g[k])
  <2>1. HasBytes(tape, 0)
    BY DEF HasBytes
  <2>2. QED BY <2>1, SoundFiles
<1>3. ASSUME NEW k \in 0..Len(U), k + 1 \in 0..Len(U), k \in S PROVE k + 1 \in S
  <2> DEFINE info == U[k + 1]
  <2>0. k + 1 \in 1..Len(U) /\ (k + 1) - 1 = k
    BY <1>0, <1>3
  <2>1. g[k + 1] = Effect(g[k], info, tape, e[k])
    BY <2>0 DEF Files
  <2>2. info \in DataInfo
    BY <2>0, ElementOfSeq
  <2>3. Size(info) = 0
    <3>1. e[k + 1] = e[k] + Size(info) /\ e[k] \in 0..0 /\ e[k + 1] \in 0..0
      BY <1>3, <2>0 DEF Offsets
    <3>2. Size(info) \in Nat
      BY <2>2, SizeType
    <3>3. QED BY <3>1, <3>2
  <2>4. SUFFICES ASSUME g[k + 1].written PROVE f.written /\ Extends(f, g[k + 1])
    BY <1>3
  <2>5. CASE ~g[k].written
    <3>1. ~g[k + 1].written
      BY <2>1, <2>5, StaysCut DEF Effect
    <3>2. QED BY <2>4, <3>1
  <2>6. CASE g[k].written /\ IsSeek(info)
    <3>1. info.nOffset \in Int /\ info.eOrigin \in Origins
      BY <2>2, <2>6 DEF DataInfo, IsSeek
    <3>2. g[k + 1] = SeekTo(g[k], info.nOffset, info.eOrigin)
      BY <2>1, <2>6 DEF Effect
    <3>3. Sound(g[k]) /\ Sound(g[k + 1]) /\ f.written /\ Extends(f, g[k])
      BY <1>2, <1>3, <2>6
    <3>4. Extends(g[k], g[k + 1])
      BY <2>4, <2>6, <3>1, <3>2, <3>3, SeekSound DEF Extends
    <3>5. f.nLen \in Nat /\ g[k].nLen \in Nat /\ g[k + 1].nLen \in Nat
      <4>1. Sound(f)
        OBVIOUS
      <4>2. QED BY <2>4, <2>6, <3>3, <4>1, LenProperties DEF Sound
    <3>6. QED BY <3>3, <3>4, <3>5, ExtendsTwice
  <2>7. CASE g[k].written /\ ~IsSeek(info)
    <3>1. info.nLen <= 0
      BY <2>2, <2>3, <2>7 DEF Size, DataInfo
    <3>2. g[k + 1] = g[k]
      BY <2>1, <2>7, <3>1 DEF Effect
    <3>3. QED BY <1>3, <2>7, <3>2
  <2>8. QED BY <2>5, <2>6, <2>7
<1> HIDE DEF S
<1>4. 0..Len(U) \subseteq S
  <2>1. Len(U) \in Int /\ \A k \in 0..Len(U) : k + 1 \in 0..Len(U) /\ k \in S => k + 1 \in S
    BY <1>0, <1>3
  <2>2. QED BY <1>1, <2>1, UpToInduction
<1>5. Len(U) \in S
  BY <1>0, <1>4
<1>6. QED BY <1>5 DEF S

-----------------------------------------------------------------------------
(* The ring *)

LEMMA ModAdd ==
    ASSUME NEW m \in Nat \ {0}, NEW x \in Nat, NEW y \in Nat, x + y <= 2 * m - 1
    PROVE  ((x % m) + y) % m = (x + y) % m
<1>1. x % m = IF x < m THEN x ELSE x - m
  <2>1. x \in 0..2 * m - 1
    OBVIOUS
  <2>2. QED BY ONLY <2>1, m \in Nat \ {0}, ModOnce
<1>2. (x + y) % m = IF x + y < m THEN x + y ELSE x + y - m
  <2> DEFINE z == x + y
  <2>1. z \in 0..2 * m - 1
    OBVIOUS
  <2> HIDE DEF z
  <2>2. z % m = IF z < m THEN z ELSE z - m
    BY <2>1, ModOnce
  <2>3. QED BY <2>2 DEF z
<1> DEFINE z == (x % m) + y
<1>3. z = IF x < m THEN x + y ELSE x + y - m
  BY <1>1
<1> HIDE DEF z
<1>4. z \in 0..2 * m - 1
  BY <1>3
<1>5. z % m = IF z < m THEN z ELSE z - m
  BY <1>4, ModOnce
<1>6. z % m = (x + y) % m
  BY <1>2, <1>3, <1>5
<1>7. QED BY <1>6 DEF z

\* The position x after p.
IsAt(k, p, x, len) == k = (p + x) % len

\* Where a position of the ring is, counted from the end of the data in it.
LEMMA Distance ==
    ASSUME NEW len \in Nat \ {0}, NEW p \in 0..len - 1, NEW used \in 0..len, NEW x \in 0..len - 1,
           NEW k, IsAt(k, p, x, len), NEW b, IsAt(b, p, used, len)
    PROVE  /\ k \in 0..len - 1
           /\ (k - b + len) % len = IF x >= used THEN x - used ELSE x - used + len
<1> DEFINE z == k - b + len
<1> USE DEF IsAt
<1>1. k = IF p + x < len THEN p + x ELSE p + x - len
  <2> DEFINE s == p + x
  <2>1. s \in 0..2 * len - 1
    OBVIOUS
  <2> HIDE DEF s
  <2>2. s % len = IF s < len THEN s ELSE s - len
    BY <2>1, ModOnce
  <2>3. QED BY <2>2 DEF s
<1>2. b = IF p + used < len THEN p + used ELSE p + used - len
  <2> DEFINE s == p + used
  <2>1. s \in 0..2 * len - 1
    OBVIOUS
  <2> HIDE DEF s
  <2>2. s % len = IF s < len THEN s ELSE s - len
    BY <2>1, ModOnce
  <2>3. QED BY <2>2 DEF s
<1>3. k \in 0..len - 1 /\ b \in 0..len - 1
  BY <1>1, <1>2
<1>4. z \in 0..2 * len - 1
  BY <1>3
<1>5. z % len = IF z < len THEN z ELSE z - len
  <2> HIDE DEF z
  <2>1. QED BY <1>4, ModOnce
<1>6. z % len = IF x >= used THEN x - used ELSE x - used + len
  BY <1>1, <1>2, <1>5
<1>7. QED BY <1>3, <1>6 DEF z

\* A ring in which a block was put behind the data, which begins at p.
Filled(data, buf, len, p, used) ==
    /\ p \in 0..len - 1
    /\ nDataStartPos' = p
    /\ nFreeSpaceStartPos' = (p + (used + Len(data))) % len
    /\ \A x \in 0..len - 1 :
          buffer'[(p + x) % len] = IF used <= x /\ x < used + Len(data)
                                   THEN data[x - used + 1]
                                   ELSE buf[(p + x) % len]

\* Fill leaves the data alone and puts the block behind it.
LEMMA FillRing ==
    ASSUME NEW data, NEW buf, NEW len \in Nat \ {0}, NEW start \in 0..len - 1,
           NEW free \in 0..len - 1, NEW used \in 0..len,
           Len(data) \in Nat, Len(data) <= len - used,
           used > 0 => IsAt(free, start, used, len),
           Fill(data, buf, len, start, free, used)
    PROVE  Filled(data, buf, len, DataStart(start, used), used)
<1> DEFINE p == DataStart(start, used)
           n == Len(data)
           begin == IF used = 0 THEN 0 ELSE free
           Off(k) == (k - begin + len) % len
<1>1. p \in 0..len - 1
  BY DEF DataStart
<1>2. begin = (p + used) % len
  <2>1. CASE used = 0
    <3>1. p = 0 /\ begin = 0 /\ p + used = 0
      BY <2>1 DEF DataStart
    <3>2. 0 % len = 0
      BY ModOnce
    <3>3. QED BY <3>1, <3>2
  <2>2. CASE used # 0
    <3>1. p = start /\ begin = free
      BY <2>2 DEF DataStart
    <3>2. QED BY <2>2, <3>1 DEF IsAt
  <2>3. QED BY <2>1, <2>2
<1>3. /\ buffer' = [k \in 0..len - 1 |-> IF Off(k) < n THEN data[Off(k) + 1] ELSE buf[k]]
      /\ nDataStartPos' = p
      /\ nFreeSpaceStartPos' = (begin + n) % len
  BY DEF Fill
<1> HIDE DEF p, begin
<1>4. nFreeSpaceStartPos' = (p + (used + n)) % len
  <2>1. n \in Nat /\ n <= len - used
    OBVIOUS
  <2> HIDE DEF n
  <2>2. p + used \in Nat /\ (p + used) + n <= 2 * len - 1 /\ p + (used + n) = (p + used) + n
    BY <1>1, <2>1
  <2>3. (((p + used) % len) + n) % len = ((p + used) + n) % len
    BY <2>1, <2>2, ModAdd
  <2>4. QED BY <1>2, <1>3, <2>2, <2>3
<1>5. ASSUME NEW x \in 0..len - 1
      PROVE  buffer'[(p + x) % len] = IF used <= x /\ x < used + n THEN data[x - used + 1]
                                      ELSE buf[(p + x) % len]
  <2> DEFINE k == (p + x) % len
             off == Off(k)
  <2>1. /\ k \in 0..len - 1
        /\ (k - begin + len) % len = IF x >= used THEN x - used ELSE x - used + len
    <3>1. k = (p + x) % len
      OBVIOUS
    <3> HIDE DEF k
    <3>2. IsAt(k, p, x, len) /\ IsAt(begin, p, used, len)
      BY <1>2, <3>1 DEF IsAt
    <3>3. QED BY <1>1, <3>2, Distance
  <2>2. off = IF x >= used THEN x - used ELSE x - used + len
    <3> HIDE DEF k
    <3>1. QED BY <2>1
  <2>3. buffer'[k] = IF off < n THEN data[off + 1] ELSE buf[k]
    <3> HIDE DEF k
    <3>1. QED BY <1>3, <2>1
  <2>4. n \in Nat /\ n <= len - used
    OBVIOUS
  <2> HIDE DEF off, k, n
  <2>5. CASE used <= x /\ x < used + n
    <3>1. off = x - used /\ off < n
      BY <2>2, <2>4, <2>5
    <3>2. QED BY <2>3, <2>5, <3>1 DEF k
  <2>6. CASE x < used
    <3>1. ~(off < n) /\ ~(used <= x /\ x < used + n)
      BY <2>2, <2>4, <2>6
    <3>2. QED BY <2>3, <3>1 DEF k
  <2>7. CASE x >= used + n
    <3>1. ~(off < n) /\ ~(used <= x /\ x < used + n)
      BY <2>2, <2>4, <2>7
    <3>2. QED BY <2>3, <3>1 DEF k
  <2>8. QED BY <2>4, <2>5, <2>6, <2>7
<1>6. QED BY <1>1, <1>3, <1>4, <1>5 DEF p, Filled

-----------------------------------------------------------------------------
(* What the thread has to apply, and the bytes it has for it *)

\* The bytes of the buffer that are in the file already.
Eaten == IF wpc = "consume" THEN wLength ELSE 0

\* The bytes of the buffer that are not, and what they are.
Stored == nDataLen - Eaten
Tape == [j \in 1..Stored |-> buffer[(nDataStartPos + Eaten + j - 1) % nBufferLen]]

Doing == IF wpc = "seek" \/ wpc \in {"check", "chunk", "write"} THEN <<wInfo>>
         ELSE IF wpc = "consume" THEN <<WriteInfo(wInfo.nLen - wLength)>>
         ELSE <<>>
Adding == IF cpc = "add" THEN <<cInfo>> ELSE <<>>

LEMMA StoredType ==
    IInv => /\ Eaten \in Nat /\ Stored \in Nat /\ Eaten + Stored = nDataLen
            /\ nDataLen \in 0..nBufferLen /\ nBufferLen \in Nat \ {0}
            /\ nDataStartPos \in 0..nBufferLen - 1
<1> SUFFICES ASSUME IInv PROVE /\ Eaten \in Nat /\ Stored \in Nat /\ Eaten + Stored = nDataLen
                               /\ nDataLen \in 0..nBufferLen /\ nBufferLen \in Nat \ {0}
                               /\ nDataStartPos \in 0..nBufferLen - 1
  OBVIOUS
<1>1. /\ nDataLen \in 0..nBufferLen /\ nBufferLen \in Nat \ {0} /\ wLength \in Nat
      /\ nDataStartPos \in 0..nBufferLen - 1 /\ wInfo.nLen \in Int
  BY DEF IInv, TypeOK, DataInfo
<1>2. CASE wpc = "consume"
  <2>1. wLength <= wInfo.nLen /\ wInfo.nLen <= nDataLen
    BY <1>2 DEF IInv, ReadsLiveData
  <2>2. QED BY <1>1, <1>2, <2>1 DEF Eaten, Stored
<1>3. CASE wpc # "consume"
  BY <1>1, <1>3 DEF Eaten, Stored
<1>4. QED BY <1>2, <1>3

LEMMA UnappliedType == IInv => /\ Unapplied = (Doing \o dataInfoQueue) \o Adding
                               /\ Unapplied \in Seq(DataInfo)
                               /\ Doing \in Seq(DataInfo) /\ Adding \in Seq(DataInfo)
                               /\ dataInfoQueue \in Seq(DataInfo)
<1> SUFFICES ASSUME IInv PROVE /\ Unapplied = (Doing \o dataInfoQueue) \o Adding
                               /\ Unapplied \in Seq(DataInfo)
                               /\ Doing \in Seq(DataInfo) /\ Adding \in Seq(DataInfo)
                               /\ dataInfoQueue \in Seq(DataInfo)
  OBVIOUS
<1>1. Unapplied = (Doing \o dataInfoQueue) \o Adding
  BY Zenon DEF Unapplied, Doing, Adding
<1>2. /\ dataInfoQueue \in Seq(DataInfo) /\ wInfo \in DataInfo /\ cInfo \in DataInfo
      /\ wInfo.nLen - wLength \in Int
  BY DEF IInv, TypeOK, DataInfo
<1>3. WriteInfo(wInfo.nLen - wLength) \in DataInfo
  BY <1>2 DEF WriteInfo, DataInfo, CP_OriginMax
<1>4. Doing \in Seq(DataInfo) /\ Adding \in Seq(DataInfo)
  BY <1>2, <1>3 DEF Doing, Adding
<1>5. QED BY <1>1, <1>2, <1>4, ConcatProperties

\* What is unapplied in the next state.
LEMMA UnappliedNext ==
    ASSUME IInv'
    PROVE  /\ Unapplied' = (Doing' \o dataInfoQueue') \o Adding'
           /\ Unapplied' \in Seq(DataInfo)
<1>1. (IInv => /\ Unapplied = (Doing \o dataInfoQueue) \o Adding
               /\ Unapplied \in Seq(DataInfo)
               /\ Doing \in Seq(DataInfo) /\ Adding \in Seq(DataInfo)
               /\ dataInfoQueue \in Seq(DataInfo))'
  BY UnappliedType, PTL
<1>2. QED BY <1>1

\* A queue that begins with an entry.
LEMMA FirstOf ==
    ASSUME NEW x \in DataInfo, NEW s \in Seq(DataInfo), NEW t \in Seq(DataInfo)
    PROVE  LET U == (<<x>> \o s) \o t
           IN  /\ U \in Seq(DataInfo) /\ U # <<>> /\ U[1] = x /\ Tail(U) = s \o t
               /\ Len(U) = 1 + Len(s \o t)
               /\ \A k \in 2..Len(U) : U[k] = (s \o t)[k - 1]
<1> DEFINE r == s \o t
           U == <<x>> \o r
<1>1. (<<x>> \o s) \o t = U
  BY ConcatAssociative
<1>2. r \in Seq(DataInfo) /\ Len(r) \in Nat
  BY ConcatProperties, LenProperties
<1> HIDE DEF r
<1>3. <<x>> \in Seq(DataInfo) /\ Len(<<x>>) = 1 /\ <<x>>[1] = x
  OBVIOUS
<1>4. /\ U \in Seq(DataInfo) /\ Len(U) = 1 + Len(r)
      /\ \A k \in 1..1 + Len(r) : U[k] = IF k <= 1 THEN <<x>>[k] ELSE r[k - 1]
  <2>1. /\ <<x>> \o r \in Seq(DataInfo) /\ Len(<<x>> \o r) = Len(<<x>>) + Len(r)
        /\ \A k \in 1..Len(<<x>>) + Len(r) :
              (<<x>> \o r)[k] = IF k <= Len(<<x>>) THEN <<x>>[k] ELSE r[k - Len(<<x>>)]
    BY <1>2, <1>3, ConcatProperties
  <2>2. QED BY <1>3, <2>1
<1> HIDE DEF U
<1>5. U # <<>> /\ U[1] = x
  <2>1. 1 \in 1..1 + Len(r)
    BY <1>2
  <2>2. U[1] = <<x>>[1]
    BY <1>4, <2>1
  <2>3. QED BY <1>2, <1>3, <1>4, <2>2, EmptySeq
<1>6. \A k \in 2..Len(U) : U[k] = r[k - 1]
  BY <1>2, <1>4
<1>7. Tail(U) = r
  <2>1. Tail(U) \in Seq(DataInfo) /\ Len(Tail(U)) = Len(r)
    BY <1>2, <1>4, <1>5, HeadTailProperties
  <2>2. ASSUME NEW k \in 1..Len(r) PROVE Tail(U)[k] = r[k]
    <3>1. Tail(U)[k] = U[k + 1]
      BY <1>2, <1>4, <1>5, <2>1, HeadTailProperties
    <3>2. k + 1 \in 2..Len(U) /\ (k + 1) - 1 = k
      BY <1>2, <1>4
    <3>3. QED BY <1>6, <3>1, <3>2
  <2>3. QED BY <1>2, <2>1, <2>2, SeqEqual
<1>8. QED BY <1>1, <1>4, <1>5, <1>6, <1>7 DEF r

LEMMA EmptyEnds ==
    ASSUME NEW s \in Seq(DataInfo)
    PROVE  s \o <<>> = s /\ <<>> \o s = s
BY ConcatEmptySeq

LEMMA OneMore ==
    ASSUME NEW s \in Seq(DataInfo), NEW x \in DataInfo
    PROVE  s \o <<x>> = Append(s, x)
BY AppendIsConcat

-----------------------------------------------------------------------------
(* The recursion of FileToBe makes the same files *)

\* What FileToBe is, for whatever offsets and files describe what is unapplied.
FileFollows ==
    \A e, g : Offsets(e, Unapplied, Stored) /\ Files(g, e, Unapplied, file, Tape)
                => FileToBe = g[Len(Unapplied)]

LEMMA Landing == IInv => FileFollows
<1> SUFFICES ASSUME IInv, NEW e, NEW g, Offsets(e, Unapplied, Stored),
                    Files(g, e, Unapplied, file, Tape)
             PROVE  FileToBe = g[Len(Unapplied)]
  BY DEF FileFollows
<1> DEFINE U == Unapplied
           n == Len(U)
           start == IF wpc = "consume" THEN (nDataStartPos + wLength) % nBufferLen
                    ELSE nDataStartPos
           Next0(h) == [k \in 0..n |-> IF k = 0 THEN {[file |-> file, at |-> start]}
                                       ELSE Applied(h[k - 1], U[k])]
           after == CHOOSE h : h = Next0(h)
           at(k) == (start + e[k]) % nBufferLen
           way == [k \in 0..n |-> {[file |-> g[k], at |-> at(k)]}]
<1>1. FileToBe = (CHOOSE s \in after[n] : TRUE).file
  BY Zenon DEF FileToBe
<1>2. /\ Eaten \in Nat /\ Stored \in Nat /\ Eaten + Stored = nDataLen
      /\ nDataLen \in 0..nBufferLen /\ nBufferLen \in Nat \ {0}
      /\ nDataStartPos \in 0..nBufferLen - 1
  BY StoredType
<1>3. U \in Seq(DataInfo) /\ n \in Nat
  BY UnappliedType, LenProperties
<1>4. start = (nDataStartPos + Eaten) % nBufferLen
  <2>1. CASE wpc = "consume"
    BY <2>1 DEF Eaten
  <2>2. CASE wpc # "consume"
    <3>1. start = nDataStartPos /\ Eaten = 0
      BY <2>2 DEF Eaten
    <3>2. nDataStartPos \in 0..2 * nBufferLen - 1
      BY <1>2
    <3>3. nDataStartPos % nBufferLen = nDataStartPos
      BY <1>2, <3>2, ModOnce
    <3>4. QED BY <1>2, <3>1, <3>3
  <2>3. QED BY <2>1, <2>2
<1>5. start \in 0..nBufferLen - 1
  <2>1. nDataStartPos + Eaten \in Nat
    BY <1>2
  <2>2. QED BY <1>2, <1>4, <2>1, ModRange
<1>6. /\ e \in [0..n -> 0..Stored] /\ e[0] = 0
      /\ \A k \in 1..n : e[k] = e[k - 1] + Size(U[k])
  BY DEF Offsets
<1>7. /\ g[0] = file
      /\ \A k \in 1..n : g[k] = Effect(g[k - 1], U[k], Tape, e[k - 1])
  BY DEF Files
<1> HIDE DEF start, U, n
<1>8. at(0) = start
  <2>1. start \in 0..2 * nBufferLen - 1
    BY <1>2, <1>5
  <2>2. start % nBufferLen = start
    BY <1>2, <1>5, <2>1, ModOnce
  <2>3. QED BY <1>5, <1>6, <2>2
<1>9. ASSUME NEW k \in 1..n
      PROVE  Applied({[file |-> g[k - 1], at |-> at(k - 1)]}, U[k])
                = {[file |-> g[k], at |-> at(k)]}
  <2> DEFINE info == U[k]
             a == e[k - 1]
             m == info.nLen
             was == [file |-> g[k - 1], at |-> at(k - 1)]
  <2>1. info \in DataInfo
    BY <1>3, ElementOfSeq DEF n
  <2>2. a \in 0..Stored /\ e[k] = a + Size(info) /\ e[k] \in 0..Stored
    BY <1>3, <1>6
  <2>3. g[k] = Effect(g[k - 1], info, Tape, a)
    BY <1>7
  <2>4. CASE IsSeek(info)
    <3>1. Size(info) = 0 /\ e[k] = a
      BY <1>2, <2>2, <2>4 DEF Size
    <3>2. g[k] = SeekTo(g[k - 1], info.nOffset, info.eOrigin)
      BY <2>3, <2>4 DEF Effect
    <3>3. Applied({was}, info) = {[file |-> SeekTo(was.file, info.nOffset, info.eOrigin), at |-> was.at]}
      BY <2>4 DEF Applied
    <3>4. QED BY <3>1, <3>2, <3>3
  <2>5. CASE ~IsSeek(info) /\ m <= 0
    <3>1. Size(info) = 0 /\ e[k] = a
      BY <1>2, <2>2, <2>5 DEF Size
    <3>2. g[k] = g[k - 1]
      BY <2>3, <2>5 DEF Effect
    <3>3. Applied({was}, info) = {was}
      BY <2>5 DEF Applied
    <3>4. QED BY <3>1, <3>2, <3>3
  <2>6. CASE ~IsSeek(info) /\ ~(m <= 0)
    <3>1. Size(info) = m /\ m \in Nat \ {0}
      BY <2>1, <2>6, SizeType DEF Size
    <3>2. a + m \in 0..Stored /\ a \in Nat
      BY <1>2, <2>2, <3>1
    <3>3. g[k] = WriteTo(g[k - 1], Taken(Tape, a, m))
      BY <2>3, <2>6 DEF Effect
    <3> HIDE DEF a, m, info
    <3>4. at(k - 1) = (start + a) % nBufferLen
      BY DEF a
    <3>5. (at(k - 1) + m) % nBufferLen = at(k)
      <4>1. start + a \in Nat /\ (start + a) + m <= 2 * nBufferLen - 1
        BY <1>2, <1>5, <3>1, <3>2
      <4>2. (((start + a) % nBufferLen) + m) % nBufferLen = ((start + a) + m) % nBufferLen
        BY <1>2, <3>1, <4>1, ModAdd
      <4>3. e[k] = a + m
        BY <2>2, <3>1 DEF a, info, m
      <4>4. (start + a) + m = start + e[k]
        BY <1>5, <3>1, <3>2, <4>3
      <4>5. QED BY <3>4, <4>2, <4>4
    <3>6. ASSUME NEW i \in 1..m
          PROVE  buffer[(at(k - 1) + i - 1) % nBufferLen] = Tape[a + i]
      <4> DEFINE pos == nDataStartPos + Eaten
      <4>1. a + i \in 1..Stored
        BY <1>2, <3>1, <3>2
      <4>2. Tape[a + i] = buffer[(nDataStartPos + Eaten + (a + i) - 1) % nBufferLen]
        BY <4>1 DEF Tape
      <4>3. /\ pos \in Nat /\ pos + a \in Nat /\ start + a \in Nat /\ i - 1 \in Nat
            /\ pos + a <= 2 * nBufferLen - 1
            /\ (start + a) + (i - 1) <= 2 * nBufferLen - 1
            /\ pos + (a + (i - 1)) <= 2 * nBufferLen - 1
            /\ a + (i - 1) \in Nat
            /\ start + (a + (i - 1)) = (start + a) + (i - 1)
            /\ nDataStartPos + Eaten + (a + i) - 1 = pos + (a + (i - 1))
        BY <1>2, <1>5, <3>1, <3>2
      <4>4. (at(k - 1) + (i - 1)) % nBufferLen = ((start + a) + (i - 1)) % nBufferLen
        <5>1. (((start + a) % nBufferLen) + (i - 1)) % nBufferLen
                = ((start + a) + (i - 1)) % nBufferLen
          BY <1>2, <4>3, ModAdd
        <5>2. QED BY <3>4, <5>1
      <4>5. (start + (a + (i - 1))) % nBufferLen = (pos + (a + (i - 1))) % nBufferLen
        <5>1. ((pos % nBufferLen) + (a + (i - 1))) % nBufferLen
                = (pos + (a + (i - 1))) % nBufferLen
          BY <1>2, <4>3, ModAdd
        <5>2. QED BY <1>4, <5>1
      <4>6. at(k - 1) + i - 1 = at(k - 1) + (i - 1)
        <5>1. at(k - 1) \in 0..nBufferLen - 1
          BY <1>2, <3>4, <4>3, ModRange
        <5> HIDE DEF at
        <5>2. QED BY <1>2, <3>1, <5>1
      <4> HIDE DEF at
      <4>7. QED BY <4>2, <4>3, <4>4, <4>5, <4>6
    <3>7. [i \in 1..m |-> buffer[(was.at + i - 1) % nBufferLen]] = Taken(Tape, a, m)
      BY <3>6 DEF Taken
    <3>8. Applied({was}, info) =
            {[file |-> WriteTo(was.file, [i \in 1..m |-> buffer[(was.at + i - 1) % nBufferLen]]),
              at |-> (was.at + m) % nBufferLen]}
      BY <2>6 DEF Applied, m, info
    <3>9. QED BY <3>3, <3>5, <3>7, <3>8 DEF info
  <2>7. QED BY <2>4, <2>5, <2>6
<1>10. way = Next0(way)
  <2>1. ASSUME NEW k \in 0..n
        PROVE  way[k] = IF k = 0 THEN {[file |-> file, at |-> start]} ELSE Applied(way[k - 1], U[k])
    <3>1. CASE k = 0
      BY <1>7, <1>8, <3>1
    <3>2. CASE k # 0
      <4>1. k \in 1..n /\ k - 1 \in 0..n
        BY <1>3, <3>2
      <4>2. way[k] = {[file |-> g[k], at |-> at(k)]} /\ way[k - 1] = {[file |-> g[k - 1], at |-> at(k - 1)]}
        BY <4>1
      <4> HIDE DEF way, at
      <4>3. QED BY <1>9, <3>2, <4>1, <4>2
    <3>3. QED BY <3>1, <3>2
  <2>2. way = [k \in 0..n |-> way[k]]
    OBVIOUS
  <2> HIDE DEF way, at
  <2>3. QED BY <2>1, <2>2
<1>11. after = Next0(after)
  <2> HIDE DEF way, Next0
  <2>1. QED BY <1>10
<1>12. after[n] = way[n]
  <2> DEFINE S == {k \in 0..n : after[k] = way[k]}
  <2> HIDE DEF after, at, way
  <2>0. /\ \A k \in 0..n : after[k] = IF k = 0 THEN {[file |-> file, at |-> start]} ELSE Applied(after[k - 1], U[k])
        /\ \A k \in 0..n : way[k] = IF k = 0 THEN {[file |-> file, at |-> start]} ELSE Applied(way[k - 1], U[k])
    <3>1. \A h : h = Next0(h) => \A k \in 0..n : h[k] = IF k = 0 THEN {[file |-> file, at |-> start]}
                                                        ELSE Applied(h[k - 1], U[k])
      OBVIOUS
    <3> HIDE DEF Next0
    <3>2. QED BY <1>10, <1>11, <3>1
  <2>1. 0 \in S
    <3>1. 0 \in 0..n
      BY <1>3
    <3>2. after[0] = {[file |-> file, at |-> start]} /\ way[0] = {[file |-> file, at |-> start]}
      BY <2>0, <3>1
    <3>3. QED BY <3>1, <3>2
  <2>2. ASSUME NEW k \in 0..n, k + 1 \in 0..n, k \in S PROVE k + 1 \in S
    <3>1. k + 1 # 0 /\ (k + 1) - 1 = k
      BY <1>3
    <3>2. QED BY <2>0, <2>2, <3>1
  <2> HIDE DEF S
  <2>3. 0..n \subseteq S
    <3>1. n \in Int /\ \A k \in 0..n : k + 1 \in 0..n /\ k \in S => k + 1 \in S
      BY <1>3, <2>2
    <3>2. QED BY <2>1, <3>1, UpToInduction
  <2>4. n \in S
    BY <1>3, <2>3
  <2>5. QED BY <2>4 DEF S
<1>13. way[n] = {[file |-> g[n], at |-> at(n)]}
  BY <1>3
<1> HIDE DEF after, way, at
<1> DEFINE last == CHOOSE s \in after[n] : TRUE
<1>14. FileToBe = last.file /\ last = [file |-> g[n], at |-> at(n)]
  BY <1>1, <1>12, <1>13
<1> HIDE DEF last
<1>15. FileToBe = g[n]
  BY <1>14
<1>16. QED BY <1>15 DEF n, U

-----------------------------------------------------------------------------
(* The invariant behind the refinement *)

\* The entries that are unapplied have as many bytes as the buffer holds.
Accounted == \E e : Offsets(e, Unapplied, Stored)

\* The entries whose kind is known.
Shaped ==
    /\ wpc \in {"check", "chunk", "write", "consume"} => ~IsSeek(wInfo)
    /\ cpc = "full" => calls > 0 /\ cInfo = WriteInfo(cInfo.nLen)

\* The free room begins where the data ends.
RingTrue ==
    /\ buffer \in [0..nBufferLen - 1 -> Byte]
    /\ nDataLen > 0 => nFreeSpaceStartPos = (nDataStartPos + nDataLen) % nBufferLen

\* The thread leaves when it is told to and has nothing left to write.
Stopped ==
    /\ wpc = "exit" => bStopWriteThread /\ nDataLen = 0
    /\ bStopWriteThread => (cpc = "add" /\ cInfo = StopInfo) \/ cpc \in {"join", "closed"}
    /\ cpc = "closed" => wpc = "exit"

FileInv == IInv /\ Accounted /\ Shaped /\ RingTrue /\ Sound(file) /\ Stopped

LEMMA TapeBytes ==
    ASSUME IInv, RingTrue
    PROVE  HasBytes(Tape, Stored)
<1> SUFFICES ASSUME NEW j \in 1..Stored PROVE Tape[j] \in Byte
  BY DEF HasBytes
<1>1. /\ Eaten \in Nat /\ Stored \in Nat /\ nBufferLen \in Nat \ {0}
      /\ nDataStartPos \in 0..nBufferLen - 1
  BY StoredType
<1>2. nDataStartPos + Eaten + j - 1 \in Nat
  BY <1>1
<1>3. (nDataStartPos + Eaten + j - 1) % nBufferLen \in 0..nBufferLen - 1
  BY <1>1, <1>2, ModRange
<1>4. QED BY <1>3 DEF Tape, RingTrue

\* What the offsets and the files of the present state are.
LEMMA Present ==
    ASSUME IInv, Accounted
    PROVE  \E e, g : /\ Offsets(e, Unapplied, Stored)
                     /\ Files(g, e, Unapplied, file, Tape)
                     /\ FileToBe = g[Len(Unapplied)]
<1>1. PICK e : Offsets(e, Unapplied, Stored)
  BY DEF Accounted
<1>2. Len(Unapplied) \in Nat
  BY UnappliedType, LenProperties
<1>3. PICK g : Files(g, e, Unapplied, file, Tape)
  BY <1>2, FilesExist
<1>4. FileToBe = g[Len(Unapplied)]
  BY <1>1, <1>3, Landing DEF FileFollows
<1>5. QED BY <1>1, <1>3, <1>4

\* Offsets and files of the next state give the file that is to be in it.
LEMMA Later ==
    ASSUME IInv', NEW e, NEW g, Offsets(e, Unapplied', Stored'),
           Files(g, e, Unapplied', file', Tape')
    PROVE  Accounted' /\ FileToBe' = g[Len(Unapplied')]
<1>1. (IInv => FileFollows)'
  BY Landing, PTL
<1>2. FileToBe' = g[Len(Unapplied')]
  BY <1>1 DEF FileFollows
<1>3. Accounted'
  BY DEF Accounted
<1>4. QED BY <1>2, <1>3

LEMMA SameWay ==
    ASSUME IInv, IInv', Accounted, Unapplied' = Unapplied, Stored' = Stored, Tape' = Tape,
           file' = file
    PROVE  Accounted' /\ FileToBe' = FileToBe
<1>1. PICK e, g : /\ Offsets(e, Unapplied, Stored)
                  /\ Files(g, e, Unapplied, file, Tape)
                  /\ FileToBe = g[Len(Unapplied)]
  BY Present
<1>2. Offsets(e, Unapplied', Stored') /\ Files(g, e, Unapplied', file', Tape')
  BY <1>1
<1>3. Accounted' /\ FileToBe' = g[Len(Unapplied')]
  BY <1>2, Later
<1>4. QED BY <1>1, <1>3

LEMMA AppendStep ==
    ASSUME IInv, IInv', Accounted, NEW info \in DataInfo, Unapplied' = Append(Unapplied, info),
           Stored' = Stored + Size(info), Agree(Tape, Tape', Stored), file' = file
    PROVE  Accounted' /\ FileToBe' = Effect(FileToBe, info, Tape', Stored)
<1>1. PICK e, g : /\ Offsets(e, Unapplied, Stored)
                  /\ Files(g, e, Unapplied, file, Tape)
                  /\ FileToBe = g[Len(Unapplied)]
  BY Present
<1>2. Unapplied \in Seq(DataInfo) /\ Stored \in Nat
  BY UnappliedType, StoredType
<1>3. PICK e2, g2 : /\ Offsets(e2, Append(Unapplied, info), Stored + Size(info))
                    /\ Files(g2, e2, Append(Unapplied, info), file, Tape')
                    /\ g2[Len(Append(Unapplied, info))] = Effect(g[Len(Unapplied)], info, Tape', Stored)
  BY <1>1, <1>2, AppendWay
<1>4. Offsets(e2, Unapplied', Stored') /\ Files(g2, e2, Unapplied', file', Tape')
  BY <1>3
<1>5. Accounted' /\ FileToBe' = g2[Len(Unapplied')]
  BY <1>4, Later
<1>6. QED BY <1>1, <1>3, <1>5

LEMMA TailStep ==
    ASSUME IInv, IInv', Accounted, Unapplied # <<>>, Size(Unapplied[1]) = 0,
           Unapplied' = Tail(Unapplied), Stored' = Stored, Tape' = Tape,
           file' = Effect(file, Unapplied[1], Tape, 0)
    PROVE  Accounted' /\ FileToBe' = FileToBe
<1>1. PICK e, g : /\ Offsets(e, Unapplied, Stored)
                  /\ Files(g, e, Unapplied, file, Tape)
                  /\ FileToBe = g[Len(Unapplied)]
  BY Present
<1>2. Unapplied \in Seq(DataInfo) /\ Stored \in Nat
  BY UnappliedType, StoredType
<1>3. PICK e2, g2 : /\ Offsets(e2, Tail(Unapplied), Stored)
                    /\ Files(g2, e2, Tail(Unapplied), Effect(file, Unapplied[1], Tape, 0), Tape)
                    /\ g2[Len(Tail(Unapplied))] = g[Len(Unapplied)]
  BY <1>1, <1>2, TailWay
<1>4. Offsets(e2, Unapplied', Stored') /\ Files(g2, e2, Unapplied', file', Tape')
  BY <1>3
<1>5. Accounted' /\ FileToBe' = g2[Len(Unapplied')]
  BY <1>4, Later
<1>6. QED BY <1>1, <1>3, <1>5

\* The file to be is the same, or a write to it has been cut.
Kept == FileToBe' = FileToBe \/ (~FileToBe'.written /\ ~FileToBe.written)

LEMMA SplitStep ==
    ASSUME IInv, IInv', Accounted, RingTrue, Sound(file), Unapplied # <<>>, ~IsSeek(Unapplied[1]),
           NEW w \in 1..Unapplied[1].nLen,
           Len(Unapplied') = Len(Unapplied), Unapplied'[1] = WriteInfo(Unapplied[1].nLen - w),
           SameBehind(Unapplied, Unapplied'),
           Stored' = Stored - w, Shifted(Tape, Tape', w, Stored),
           file' = WriteTo(file, Taken(Tape, 0, w))
    PROVE  Accounted' /\ Kept
<1>1. PICK e, g : /\ Offsets(e, Unapplied, Stored)
                  /\ Files(g, e, Unapplied, file, Tape)
                  /\ FileToBe = g[Len(Unapplied)]
  BY Present
<1>2. Unapplied \in Seq(DataInfo) /\ Stored \in Nat /\ HasBytes(Tape, Stored)
  BY UnappliedType, StoredType, TapeBytes
<1>3. Unapplied' \in Seq(DataInfo)
  BY UnappliedNext
<1>4. PICK e2, g2 : /\ Offsets(e2, Unapplied', Stored - w)
                    /\ Files(g2, e2, Unapplied', WriteTo(file, Taken(Tape, 0, w)), Tape')
                    /\ \/ g2[Len(Unapplied')] = g[Len(Unapplied)]
                       \/ ~g2[Len(Unapplied')].written /\ ~g[Len(Unapplied)].written
  <2>1. ASSUME NEW V, V = Unapplied', NEW tape2, tape2 = Tape', NEW U, U = Unapplied
        PROVE  \E e2, g2 : /\ Offsets(e2, V, Stored - w)
                           /\ Files(g2, e2, V, WriteTo(file, Taken(Tape, 0, w)), tape2)
                           /\ \/ g2[Len(V)] = g[Len(U)]
                              \/ ~g2[Len(V)].written /\ ~g[Len(U)].written
    <3>1. /\ U \in Seq(DataInfo) /\ U # <<>> /\ ~IsSeek(U[1]) /\ w \in 1..U[1].nLen
          /\ V \in Seq(DataInfo) /\ Len(V) = Len(U) /\ V[1] = WriteInfo(U[1].nLen - w)
          /\ Offsets(e, U, Stored) /\ Files(g, e, U, file, Tape)
          /\ Shifted(Tape, tape2, w, Stored)
      BY <1>1, <1>2, <1>3, <2>1
    <3>2. SameBehind(U, V)
      BY <2>1
    <3>3. IsSplit(U, V, w)
      BY <3>1, <3>2 DEF IsSplit
    <3>4. QED BY <1>2, <3>1, <3>3, SplitWay
  <2>2. QED BY <2>1
<1>5. Offsets(e2, Unapplied', Stored') /\ Files(g2, e2, Unapplied', file', Tape')
  BY <1>4
<1>6. Accounted' /\ FileToBe' = g2[Len(Unapplied')]
  BY <1>5, Later
<1>7. QED BY <1>1, <1>4, <1>6 DEF Kept

\* Fill keeps the tape and adds the block to it.
LEMMA FilledTape ==
    ASSUME IInv, IInv', Eaten' = Eaten, NEW data, NEW buf, NEW len \in Nat \ {0},
           NEW start \in 0..len - 1, NEW free \in 0..len - 1,
           Len(data) \in Nat, Len(data) <= len - nDataLen,
           nDataLen > 0 => /\ free = (start + nDataLen) % len
                           /\ buf = buffer /\ len = nBufferLen /\ start = nDataStartPos,
           Fill(data, buf, len, start, free, nDataLen)
    PROVE  /\ Stored' = Stored + Len(data)
           /\ Agree(Tape, Tape', Stored)
           /\ \A i \in 1..Len(data) : Tape'[Stored + i] = data[i]
           /\ nDataLen' = nDataLen + Len(data) /\ nBufferLen' = len
           /\ nFreeSpaceStartPos' = (nDataStartPos' + nDataLen') % nBufferLen'
<1> DEFINE n == Len(data)
           p == DataStart(start, nDataLen)
<1>1. /\ Eaten \in Nat /\ Stored \in Nat /\ Eaten + Stored = nDataLen
      /\ nDataLen \in 0..nBufferLen /\ nBufferLen \in Nat \ {0}
      /\ nDataStartPos \in 0..nBufferLen - 1
  BY StoredType
<1>2. /\ nBufferLen' = len /\ nDataLen' = nDataLen + n
  BY DEF Fill
<1>3. nDataLen \in 0..len /\ n \in Nat /\ nDataLen + n <= len
  BY <1>1
<1>4. /\ p \in 0..len - 1
      /\ nDataStartPos' = p
      /\ nFreeSpaceStartPos' = (p + (nDataLen + n)) % len
      /\ \A x \in 0..len - 1 :
            buffer'[(p + x) % len] = IF nDataLen <= x /\ x < nDataLen + n
                                     THEN data[x - nDataLen + 1]
                                     ELSE buf[(p + x) % len]
  <2>1. Filled(data, buf, len, DataStart(start, nDataLen), nDataLen)
    <3> HIDE DEF p, n
    <3>1. nDataLen > 0 => IsAt(free, start, nDataLen, len)
      BY DEF IsAt
    <3>2. QED BY <1>3, <3>1, FillRing
  <2>2. QED BY <2>1 DEF Filled
<1>5. Stored' = Stored + n
  <2>1. Stored' = nDataLen' - Eaten'
    BY DEF Stored
  <2> HIDE DEF n
  <2>2. QED BY <1>1, <1>2, <1>3, <2>1 DEF Stored
<1>6. nDataLen > 0 => p = nDataStartPos /\ buf = buffer /\ len = nBufferLen
  BY DEF DataStart
<1> HIDE DEF p, n
<1>7. ASSUME NEW j \in 1..Stored'
      PROVE  Tape'[j] = buffer'[(p + (Eaten + j - 1)) % len]
  <2>1. Tape'[j] = buffer'[(nDataStartPos' + Eaten' + j - 1) % nBufferLen']
    BY DEF Tape
  <2>2. nDataStartPos' + Eaten' + j - 1 = p + (Eaten + j - 1)
    BY <1>1, <1>4, <1>5, <1>3
  <2>3. QED BY <1>2, <2>1, <2>2
<1>8. ASSUME NEW j \in 1..Stored PROVE Tape'[j] = Tape[j]
  <2> DEFINE x == Eaten + j - 1
  <2>1. x \in 0..len - 1 /\ x < nDataLen /\ nDataLen > 0 /\ j \in 1..Stored'
    BY <1>1, <1>3, <1>5
  <2>2. Tape'[j] = buffer'[(p + x) % len]
    BY <1>7, <2>1
  <2>3. Tape[j] = buffer[(nDataStartPos + Eaten + j - 1) % nBufferLen]
    BY DEF Tape
  <2>4. nDataStartPos + Eaten + j - 1 = p + x
    BY <1>1, <1>6, <2>1
  <2> HIDE DEF x
  <2>5. ~(nDataLen <= x /\ x < nDataLen + n)
    BY <1>1, <1>3, <2>1
  <2>6. buffer'[(p + x) % len] = buf[(p + x) % len]
    BY <1>4, <2>1, <2>5
  <2>7. QED BY <1>6, <2>1, <2>2, <2>3, <2>4, <2>6
<1>9. ASSUME NEW i \in 1..n PROVE Tape'[Stored + i] = data[i]
  <2> DEFINE x == Eaten + (Stored + i) - 1
  <2>1. /\ x \in 0..len - 1 /\ nDataLen <= x /\ x < nDataLen + n /\ Stored + i \in 1..Stored'
        /\ x - nDataLen + 1 = i
    BY <1>1, <1>3, <1>5
  <2>2. Tape'[Stored + i] = buffer'[(p + x) % len]
    BY <1>7, <2>1
  <2> HIDE DEF x
  <2>3. buffer'[(p + x) % len] = data[x - nDataLen + 1]
    BY <1>4, <2>1
  <2>4. QED BY <2>1, <2>2, <2>3
<1>10. nFreeSpaceStartPos' = (nDataStartPos' + nDataLen') % nBufferLen'
  BY <1>2, <1>4
<1>11. QED BY <1>2, <1>5, <1>8, <1>9, <1>10 DEF Agree, n

-----------------------------------------------------------------------------
(* The steps of the thread *)

LEMMA SameTapes ==
    ASSUME UNCHANGED ring, Eaten' = Eaten
    PROVE  Stored' = Stored /\ Tape' = Tape
<1>1. /\ nDataLen' = nDataLen /\ nDataStartPos' = nDataStartPos /\ buffer' = buffer
      /\ nBufferLen' = nBufferLen
  BY DEF ring
<1>2. Stored' = Stored
  BY <1>1 DEF Stored
<1>3. QED BY <1>1, <1>2 DEF Tape

\* A queue is its head and what follows it.
LEMMA HeadFirst ==
    ASSUME NEW s \in Seq(DataInfo), s # <<>>
    PROVE  /\ Head(s) \in DataInfo /\ Tail(s) \in Seq(DataInfo)
           /\ s = <<Head(s)>> \o Tail(s)
<1> DEFINE h == Head(s)
           t == Tail(s)
           r == <<h>> \o t
<1>1. /\ h \in DataInfo /\ t \in Seq(DataInfo) /\ Len(s) \in Nat \ {0} /\ Len(t) = Len(s) - 1
      /\ h = s[1] /\ \A k \in 1..Len(t) : t[k] = s[k + 1]
  BY EmptySeq, LenProperties, HeadTailProperties
<1> HIDE DEF h, t
<1>2. <<h>> \in Seq(DataInfo) /\ Len(<<h>>) = 1 /\ <<h>>[1] = h
  BY <1>1
<1>3. /\ r \in Seq(DataInfo) /\ Len(r) = Len(s)
      /\ \A k \in 1..Len(s) : r[k] = IF k <= 1 THEN <<h>>[k] ELSE t[k - 1]
  <2>1. /\ r \in Seq(DataInfo) /\ Len(r) = Len(<<h>>) + Len(t)
        /\ \A k \in 1..Len(<<h>>) + Len(t) :
              r[k] = IF k <= Len(<<h>>) THEN <<h>>[k] ELSE t[k - Len(<<h>>)]
    BY <1>1, <1>2, ConcatProperties
  <2> HIDE DEF r
  <2>2. Len(<<h>>) + Len(t) = Len(s)
    BY <1>1, <1>2
  <2>3. QED BY <1>2, <2>1, <2>2
<1> HIDE DEF r
<1>4. ASSUME NEW k \in 1..Len(s) PROVE r[k] = s[k]
  <2>1. CASE k = 1
    BY <1>1, <1>2, <1>3, <2>1
  <2>2. CASE k # 1
    <3>1. k - 1 \in 1..Len(t) /\ (k - 1) + 1 = k /\ ~(k <= 1)
      BY <1>1, <2>2
    <3>2. QED BY <1>1, <1>3, <3>1
  <2>3. QED BY <2>1, <2>2
<1>5. r = s
  BY <1>3, <1>4, SeqEqual
<1>6. QED BY <1>1, <1>5 DEF r, h, t

\* The steps of the thread that leave its entry and the queue alone.
LEMMA IdleSteps ==
    ASSUME FileInv, IInv', Loop \/ CheckLength \/ StartChunk
    PROVE  Accounted' /\ FileToBe' = FileToBe
<1>1. IInv /\ Accounted /\ Shaped
  BY DEF FileInv
<1>2. CASE Loop
  <2>1. Unapplied' = Unapplied /\ Eaten' = Eaten /\ UNCHANGED ring /\ file' = file
    BY <1>2 DEF Loop, Unapplied, Eaten, client
  <2>2. QED BY <1>1, <2>1, SameTapes, SameWay
<1>3. CASE StartChunk
  <2>1. Unapplied' = Unapplied /\ Eaten' = Eaten /\ UNCHANGED ring /\ file' = file
    BY <1>3 DEF StartChunk, Unapplied, Eaten, client
  <2>2. QED BY <1>1, <2>1, SameTapes, SameWay
<1>4. CASE CheckLength
  <2>1. wpc = "check" /\ wInfo \in DataInfo
    BY <1>1, <1>4 DEF CheckLength, IInv, TypeOK
  <2>2. ~IsSeek(wInfo) /\ wInfo.nLen > 0 /\ wInfo.nLen \in Int
    BY <1>1, <2>1 DEF Shaped, IInv, Handed, DataInfo
  <2>3. wInfo.nLen <= nDataLen
    <3>1. PICK e : Offsets(e, Unapplied, Stored)
      BY <1>1 DEF Accounted
    <3>2. Unapplied = (<<wInfo>> \o dataInfoQueue) \o Adding /\ dataInfoQueue \in Seq(DataInfo)
          /\ Adding \in Seq(DataInfo)
      BY <1>1, <2>1, UnappliedType DEF Doing
    <3>3. Unapplied \in Seq(DataInfo) /\ Unapplied # <<>> /\ Unapplied[1] = wInfo
      BY <2>1, <3>2, FirstOf
    <3>4. Stored \in Nat /\ Stored = nDataLen
      <4>1. Eaten = 0
        BY <2>1 DEF Eaten
      <4>2. Stored \in Nat /\ Eaten + Stored = nDataLen
        BY <1>1, StoredType
      <4>3. QED BY <4>1, <4>2
    <3>5. e[1] = Size(Unapplied[1]) /\ \A k \in 1..Len(Unapplied) : e[k] \in e[1]..Stored
      BY <3>1, <3>3, <3>4, OffsetsGrow
    <3>6. 1 \in 1..Len(Unapplied)
      BY <3>3, EmptySeq, LenProperties
    <3>7. e[1] \in e[1]..Stored /\ e[1] = wInfo.nLen
      BY <2>2, <3>3, <3>5, <3>6 DEF Size
    <3>8. QED BY <2>2, <3>4, <3>7
  <2>4. wpc' = "chunk"
    <3>1. wpc' = IF wInfo.nLen > nDataLen THEN "loop" ELSE "chunk"
      BY <1>4 DEF CheckLength
    <3>2. nDataLen \in Int
      BY <1>1 DEF IInv, TypeOK
    <3>3. ~(wInfo.nLen > nDataLen)
      BY <2>2, <2>3, <3>2
    <3>4. QED BY <3>1, <3>3
  <2>5. Unapplied' = Unapplied /\ Eaten' = Eaten /\ UNCHANGED ring /\ file' = file
    BY <1>4, <2>1, <2>4 DEF CheckLength, Unapplied, Eaten, client
  <2>6. QED BY <1>1, <2>5, SameTapes, SameWay
<1>5. QED BY <1>2, <1>3, <1>4

\* The thread takes an entry off the queue.  One that does nothing is dropped.
LEMMA GetStep ==
    ASSUME FileInv, IInv', GetInfo
    PROVE  Accounted' /\ FileToBe' = FileToBe
<1> DEFINE Q == dataInfoQueue
           h == Head(Q)
           A == Adding
<1>1. IInv /\ Accounted
  BY DEF FileInv
<1>2. /\ wpc = "get" /\ Q # <<>> /\ wInfo' = h /\ dataInfoQueue' = Tail(Q)
      /\ wpc' = IF IsSeek(h) THEN "seek" ELSE IF h.nLen <= 0 THEN "loop" ELSE "check"
      /\ UNCHANGED <<file, ring, client>>
  BY DEF GetInfo
<1>3. Eaten' = Eaten /\ Adding' = A /\ Doing = <<>>
  BY <1>2 DEF Eaten, Adding, Doing, client
<1>4. Q \in Seq(DataInfo) /\ A \in Seq(DataInfo) /\ Unapplied = (<<>> \o Q) \o A
  BY <1>1, <1>3, UnappliedType
<1>5. h \in DataInfo /\ Tail(Q) \in Seq(DataInfo) /\ Q = <<h>> \o Tail(Q)
  BY <1>2, <1>4, HeadFirst
<1>6. Unapplied = (<<h>> \o Tail(Q)) \o A
  BY <1>4, <1>5, EmptyEnds
<1>7. Unapplied' = (Doing' \o Tail(Q)) \o A
  BY <1>2, <1>3, UnappliedNext
<1>8. Stored' = Stored /\ Tape' = Tape /\ file' = file
  BY <1>2, <1>3, SameTapes
<1> HIDE DEF h, Q, A
<1>9. CASE ~IsSeek(h) /\ h.nLen <= 0
  <2>1. Doing' = <<>>
    BY <1>2, <1>9 DEF Doing
  <2>2. /\ Unapplied # <<>> /\ Unapplied[1] = h /\ Tail(Unapplied) = Tail(Q) \o A
    BY <1>4, <1>5, <1>6, FirstOf
  <2>3. Unapplied' = Tail(Unapplied)
    BY <1>5, <1>7, <2>1, <2>2, EmptyEnds
  <2>4. Size(Unapplied[1]) = 0 /\ Effect(file, Unapplied[1], Tape, 0) = file
    BY <1>9, <2>2 DEF Size, Effect
  <2>5. QED BY <1>1, <1>8, <2>2, <2>3, <2>4, TailStep
<1>10. CASE IsSeek(h) \/ ~(h.nLen <= 0)
  <2>1. Doing' = <<h>>
    BY <1>2, <1>10 DEF Doing
  <2>2. Unapplied' = Unapplied
    BY <1>6, <1>7, <2>1
  <2>3. QED BY <1>1, <1>8, <2>2, SameWay
<1>11. QED BY <1>9, <1>10

\* The thread sets the position of the file.
LEMMA SeekStep ==
    ASSUME FileInv, IInv', Seek
    PROVE  Accounted' /\ FileToBe' = FileToBe
<1>1. IInv /\ Accounted
  BY DEF FileInv
<1>2. /\ wpc = "seek" /\ wpc' = "loop" /\ file' = SeekTo(file, wInfo.nOffset, wInfo.eOrigin)
      /\ UNCHANGED <<ring, dataInfoQueue, client>>
  BY DEF Seek
<1>3. Eaten' = Eaten /\ Adding' = Adding /\ Doing = <<wInfo>> /\ Doing' = <<>>
  BY <1>2 DEF Eaten, Adding, Doing, client
<1>4. IsSeek(wInfo) /\ wInfo \in DataInfo
  BY <1>1, <1>2 DEF IInv, Handed, TypeOK
<1>5. /\ dataInfoQueue \in Seq(DataInfo) /\ Adding \in Seq(DataInfo)
      /\ Unapplied = (<<wInfo>> \o dataInfoQueue) \o Adding
  BY <1>1, <1>3, UnappliedType
<1>6. Unapplied' = (<<>> \o dataInfoQueue) \o Adding
  BY <1>2, <1>3, UnappliedNext
<1>7. /\ Unapplied # <<>> /\ Unapplied[1] = wInfo /\ Tail(Unapplied) = dataInfoQueue \o Adding
  BY <1>4, <1>5, FirstOf
<1>8. Unapplied' = Tail(Unapplied)
  BY <1>5, <1>6, <1>7, EmptyEnds
<1>9. Size(Unapplied[1]) = 0 /\ Effect(file, Unapplied[1], Tape, 0) = file'
  BY <1>2, <1>4, <1>7 DEF Size, Effect
<1>10. Stored' = Stored /\ Tape' = Tape
  BY <1>2, <1>3, SameTapes
<1>11. QED BY <1>1, <1>7, <1>8, <1>9, <1>10, TailStep

\* The thread writes the first bytes of its entry to the file.
LEMMA WriteStep ==
    ASSUME FileInv, IInv', WriteChunk
    PROVE  Accounted' /\ Kept
<1> DEFINE w == wLength
           rest == WriteInfo(wInfo.nLen - w)
           Q == dataInfoQueue
           A == Adding
<1>1. IInv /\ Accounted /\ Shaped /\ RingTrue /\ Sound(file)
  BY DEF FileInv
<1>2. /\ wpc = "write" /\ wpc' = "consume"
      /\ file' = WriteTo(file, [i \in 1..w |-> IF wFreed THEN Garbage
                                                 ELSE buffer[nDataStartPos + i - 1]])
      /\ UNCHANGED <<ring, dataInfoQueue, client, wInfo, wLength>>
  BY DEF WriteChunk
<1>3. /\ ~wFreed /\ w \in Nat /\ w > 0 /\ w <= wInfo.nLen /\ wInfo.nLen \in Int
      /\ wInfo.nLen <= nDataLen /\ nDataStartPos + w <= nBufferLen /\ wInfo \in DataInfo
  BY <1>1, <1>2 DEF IInv, ReadsLiveData, TypeOK, DataInfo
<1>4. /\ Stored = nDataLen /\ Eaten = 0 /\ Eaten' = w /\ Adding' = A
      /\ Doing = <<wInfo>> /\ Doing' = <<rest>>
  <2>1. Eaten = 0 /\ Eaten' = w /\ Adding' = A /\ Doing = <<wInfo>> /\ Doing' = <<rest>>
    BY <1>2 DEF Eaten, Adding, Doing, client
  <2>2. Stored = nDataLen
    BY <1>1, <2>1, StoredType
  <2>3. QED BY <2>1, <2>2
<1>5. /\ nDataLen \in 0..nBufferLen /\ nBufferLen \in Nat \ {0}
      /\ nDataStartPos \in 0..nBufferLen - 1
  BY <1>1, StoredType
<1>6. Stored' = Stored - w
  BY <1>2, <1>3, <1>4, <1>5 DEF Stored, ring
<1>7. rest \in DataInfo
  BY <1>3 DEF WriteInfo, DataInfo, CP_OriginMax
<1>8. /\ Q \in Seq(DataInfo) /\ A \in Seq(DataInfo) /\ Unapplied = (<<wInfo>> \o Q) \o A
  BY <1>1, <1>4, UnappliedType
<1>9. Unapplied' = (<<rest>> \o Q) \o A
  BY <1>2, <1>4, UnappliedNext
<1> HIDE DEF w, rest, Q, A
<1>10. /\ Unapplied # <<>> /\ Unapplied[1] = wInfo /\ Len(Unapplied) = 1 + Len(Q \o A)
       /\ \A k \in 2..Len(Unapplied) : Unapplied[k] = (Q \o A)[k - 1]
  <2>1. LET U == (<<wInfo>> \o Q) \o A
        IN  /\ U \in Seq(DataInfo) /\ U # <<>> /\ U[1] = wInfo /\ Tail(U) = Q \o A
            /\ Len(U) = 1 + Len(Q \o A)
            /\ \A k \in 2..Len(U) : U[k] = (Q \o A)[k - 1]
    <3>1. wInfo \in DataInfo /\ Q \in Seq(DataInfo) /\ A \in Seq(DataInfo)
      BY <1>3, <1>8
    <3>2. QED BY ONLY <3>1, FirstOf, SMTT(30)
  <2>2. QED BY <1>3, <1>8, <2>1
<1>11. /\ Unapplied'[1] = rest /\ Len(Unapplied') = 1 + Len(Q \o A)
       /\ \A k \in 2..Len(Unapplied') : Unapplied'[k] = (Q \o A)[k - 1]
  <2>1. LET U == (<<rest>> \o Q) \o A
        IN  /\ U \in Seq(DataInfo) /\ U # <<>> /\ U[1] = rest /\ Tail(U) = Q \o A
            /\ Len(U) = 1 + Len(Q \o A)
            /\ \A k \in 2..Len(U) : U[k] = (Q \o A)[k - 1]
    <3>1. rest \in DataInfo /\ Q \in Seq(DataInfo) /\ A \in Seq(DataInfo)
      BY <1>7, <1>8
    <3>2. QED BY ONLY <3>1, FirstOf, SMTT(30)
  <2>2. QED BY <1>9, <2>1
<1>12. Len(Unapplied') = Len(Unapplied) /\ SameBehind(Unapplied, Unapplied')
  BY <1>10, <1>11 DEF SameBehind
<1>13. ASSUME NEW j \in 1..Stored
       PROVE  Tape[j] = buffer[(nDataStartPos + j - 1) % nBufferLen]
  <2>1. Tape[j] = buffer[(nDataStartPos + Eaten + j - 1) % nBufferLen]
    BY DEF Tape
  <2>2. nDataStartPos + Eaten + j - 1 = nDataStartPos + j - 1
    BY <1>4, <1>5
  <2>3. QED BY <2>1, <2>2
<1>14. Shifted(Tape, Tape', w, Stored)
  <2>1. SUFFICES ASSUME NEW j \in 1..Stored - w PROVE Tape'[j] = Tape[j + w]
    BY DEF Shifted
  <2>2. j + w \in 1..Stored /\ j \in 1..Stored'
    BY <1>3, <1>4, <1>5, <1>6
  <2>3. Tape[j + w] = buffer[(nDataStartPos + (j + w) - 1) % nBufferLen]
    BY <1>13, <2>2
  <2>4. Tape'[j] = buffer[(nDataStartPos + w + j - 1) % nBufferLen]
    <3>1. Tape'[j] = buffer'[(nDataStartPos' + Eaten' + j - 1) % nBufferLen']
      BY <2>2 DEF Tape
    <3>2. buffer' = buffer /\ nDataStartPos' = nDataStartPos /\ nBufferLen' = nBufferLen
      BY <1>2 DEF ring
    <3>3. QED BY <1>4, <3>1, <3>2
  <2>5. nDataStartPos + (j + w) - 1 = nDataStartPos + w + j - 1
    BY <1>3, <1>5
  <2>6. QED BY <2>3, <2>4, <2>5
<1>15. file' = WriteTo(file, Taken(Tape, 0, w))
  <2>1. ASSUME NEW i \in 1..w
        PROVE  Tape[0 + i] = IF wFreed THEN Garbage ELSE buffer[nDataStartPos + i - 1]
    <3>1. i \in 1..Stored /\ 0 + i = i
      BY <1>3, <1>4, <1>5
    <3>2. nDataStartPos + i - 1 \in 0..2 * nBufferLen - 1 /\ nDataStartPos + i - 1 < nBufferLen
      BY <1>3, <1>5
    <3> DEFINE x == nDataStartPos + i - 1
    <3>3. x % nBufferLen = x
      <4> HIDE DEF x
      <4>1. x \in 0..2 * nBufferLen - 1 /\ x < nBufferLen
        BY <3>2 DEF x
      <4>2. QED BY <1>5, <4>1, ModOnce
    <3>4. Tape[i] = buffer[x % nBufferLen]
      BY <1>13, <3>1
    <3>5. QED BY <1>3, <3>1, <3>3, <3>4
  <2>2. Taken(Tape, 0, w) = [i \in 1..w |-> IF wFreed THEN Garbage ELSE buffer[nDataStartPos + i - 1]]
    BY <2>1 DEF Taken
  <2>3. QED BY <1>2, <2>2 DEF w
<1>16. ~IsSeek(Unapplied[1]) /\ w \in 1..Unapplied[1].nLen
  <2>1. ~IsSeek(wInfo)
    BY <1>1, <1>2 DEF Shaped
  <2>2. QED BY <1>3, <1>10, <2>1
<1>17. Unapplied'[1] = WriteInfo(Unapplied[1].nLen - w)
  BY <1>10, <1>11 DEF rest
<1>18. QED BY <1>1, <1>6, <1>10, <1>12, <1>14, <1>15, <1>16, <1>17, SplitStep

\* The thread gives the bytes it has written back to the client.
LEMMA ConsumeStep ==
    ASSUME FileInv, IInv', ConsumeChunk
    PROVE  Accounted' /\ FileToBe' = FileToBe
<1> DEFINE w == wLength
           rest == WriteInfo(wInfo.nLen - w)
           Q == dataInfoQueue
           A == Adding
<1>1. IInv /\ Accounted
  BY DEF FileInv
<1>2. /\ wpc = "consume" /\ nDataStartPos' = (nDataStartPos + w) % nBufferLen
      /\ nDataLen' = nDataLen - w /\ wInfo' = rest
      /\ wpc' = IF rest.nLen > 0 THEN "chunk" ELSE "loop"
      /\ UNCHANGED <<file, buffer, nBufferLen, dataInfoQueue, client>>
  BY DEF ConsumeChunk, Advance
<1>3. /\ w \in Nat /\ wInfo.nLen \in Int /\ w <= nDataLen
  BY <1>1, <1>2 DEF IInv, ReadsLiveData, TypeOK, DataInfo
<1>4. Eaten = w /\ Eaten' = 0 /\ Adding' = A /\ Doing = <<rest>>
  BY <1>2 DEF Eaten, Adding, Doing, client
<1>5. /\ nDataLen \in 0..nBufferLen /\ nBufferLen \in Nat \ {0}
      /\ nDataStartPos \in 0..nBufferLen - 1 /\ Stored \in Nat /\ w + Stored = nDataLen
  BY <1>1, <1>4, StoredType
<1>6. Stored' = Stored
  BY <1>2, <1>3, <1>4, <1>5 DEF Stored
<1>7. rest \in DataInfo
  BY <1>3 DEF WriteInfo, DataInfo, CP_OriginMax
<1>8. Q \in Seq(DataInfo) /\ A \in Seq(DataInfo) /\ Unapplied = (<<rest>> \o Q) \o A
  BY <1>1, <1>4, UnappliedType
<1>9. Unapplied' = (Doing' \o Q) \o A
  BY <1>2, <1>4, UnappliedNext
<1> HIDE DEF w, rest, Q, A
<1>10. Tape' = Tape
  <2>1. ASSUME NEW j \in 1..Stored
        PROVE  buffer'[(nDataStartPos' + Eaten' + j - 1) % nBufferLen']
                  = buffer[(nDataStartPos + Eaten + j - 1) % nBufferLen]
    <3> DEFINE pos == nDataStartPos + w
    <3>1. pos \in Nat /\ j - 1 \in Nat /\ pos + (j - 1) <= 2 * nBufferLen - 1
      BY <1>3, <1>5
    <3>2. ((pos % nBufferLen) + (j - 1)) % nBufferLen = (pos + (j - 1)) % nBufferLen
      <4> HIDE DEF pos
      <4>1. QED BY <1>5, <3>1, ModAdd
    <3>3. nDataStartPos' + Eaten' + j - 1 = (pos % nBufferLen) + (j - 1)
      <4>1. pos % nBufferLen \in Int
        BY <1>5, <3>1, ModRange
      <4>2. nDataStartPos' = pos % nBufferLen
        BY <1>2
      <4> HIDE DEF pos
      <4>3. QED BY <1>4, <4>1, <4>2
    <3>4. nDataStartPos + Eaten + j - 1 = pos + (j - 1)
      BY <1>3, <1>4, <1>5
    <3> HIDE DEF pos
    <3>5. QED BY <1>2, <3>2, <3>3, <3>4
  <2>2. Tape' = [j \in 1..Stored' |-> buffer'[(nDataStartPos' + Eaten' + j - 1) % nBufferLen']]
    BY DEF Tape
  <2>3. QED BY <1>6, <2>1, <2>2 DEF Tape
<1>11. CASE rest.nLen > 0
  <2>1. Doing' = <<rest>>
    BY <1>2, <1>11 DEF Doing
  <2>2. Unapplied' = Unapplied
    BY <1>8, <1>9, <2>1
  <2>3. QED BY <1>1, <1>2, <1>6, <1>10, <2>2, SameWay
<1>12. CASE ~(rest.nLen > 0)
  <2>1. Doing' = <<>>
    BY <1>2, <1>12 DEF Doing
  <2>2. Unapplied # <<>> /\ Unapplied[1] = rest /\ Tail(Unapplied) = Q \o A
    BY <1>7, <1>8, FirstOf
  <2>3. Unapplied' = Tail(Unapplied)
    BY <1>8, <1>9, <2>1, <2>2, EmptyEnds
  <2>4. ~IsSeek(rest) /\ rest.nLen <= 0
    <3>1. rest.nLen = wInfo.nLen - w
      BY DEF rest, WriteInfo
    <3>2. QED BY <1>3, <1>12, <3>1 DEF rest, WriteInfo, IsSeek
  <2>5. Size(Unapplied[1]) = 0 /\ Effect(file, Unapplied[1], Tape, 0) = file
    BY <2>2, <2>4 DEF Size, Effect
  <2>6. QED BY <1>1, <1>2, <1>6, <1>10, <2>2, <2>3, <2>5, TailStep
<1>13. QED BY <1>11, <1>12

LEMMA WriterKeeps ==
    ASSUME FileInv, IInv', WriterStep
    PROVE  Accounted' /\ Kept
BY IdleSteps, GetStep, SeekStep, WriteStep, ConsumeStep DEF WriterStep, Kept

-----------------------------------------------------------------------------
(* The steps of the client *)

LEMMA BlockBytes ==
    ASSUME NEW k \in Nat, NEW n \in Nat
    PROVE  Block(k, n) \in Seq(Byte) /\ Len(Block(k, n)) = n
BY DEF Block, Byte

\* The client has an entry to add.
LEMMA OneAdded ==
    ASSUME IInv, IInv', Doing' = Doing, dataInfoQueue' = dataInfoQueue,
           Adding = <<>>, NEW info \in DataInfo, Adding' = <<info>>
    PROVE  Unapplied' = Append(Unapplied, info)
<1> DEFINE s == Doing \o dataInfoQueue
<1>1. Doing \in Seq(DataInfo) /\ dataInfoQueue \in Seq(DataInfo) /\ Unapplied = s \o <<>>
  BY UnappliedType
<1>2. s \in Seq(DataInfo)
  BY <1>1, ConcatProperties
<1>3. Unapplied' = s \o <<info>>
  BY UnappliedNext
<1> HIDE DEF s
<1>4. Unapplied = s /\ s \o <<info>> = Append(s, info)
  BY <1>1, <1>2, EmptyEnds, OneMore
<1>5. QED BY <1>3, <1>4

\* A block is put in the ring, and its entry behind the others.
LEMMA BlockStep ==
    ASSUME FileInv, IInv', Eaten' = Eaten, NEW k \in Nat, NEW n \in Nat \ {0},
           NEW buf, NEW len \in Nat \ {0}, NEW start \in 0..len - 1, NEW free \in 0..len - 1,
           n <= len - nDataLen, buf \in [0..len - 1 -> Byte],
           nDataLen > 0 => /\ free = (start + nDataLen) % len
                           /\ buf = buffer /\ len = nBufferLen /\ start = nDataStartPos,
           Fill(Block(k, n), buf, len, start, free, nDataLen),
           Unapplied' = Append(Unapplied, WriteInfo(n)), file' = file
    PROVE  /\ Accounted' /\ FileToBe' = WriteTo(FileToBe, Block(k, n))
           /\ RingTrue'
<1> DEFINE data == Block(k, n)
           info == WriteInfo(n)
<1>1. IInv /\ Accounted
  BY DEF FileInv
<1>2. data \in Seq(Byte) /\ Len(data) = n
  BY BlockBytes
<1>3. info \in DataInfo /\ ~IsSeek(info) /\ info.nLen = n /\ ~(info.nLen <= 0)
  BY DEF WriteInfo, DataInfo, IsSeek, CP_OriginMax
<1>4. Size(info) = n
  BY <1>3 DEF Size
<1> HIDE DEF data, info
<1>5. Stored \in Nat
  BY <1>1, StoredType
<1>6. /\ Stored' = Stored + Len(data)
      /\ Agree(Tape, Tape', Stored)
      /\ \A i \in 1..Len(data) : Tape'[Stored + i] = data[i]
      /\ nDataLen' = nDataLen + Len(data) /\ nBufferLen' = len
      /\ nFreeSpaceStartPos' = (nDataStartPos' + nDataLen') % nBufferLen'
  <2>1. Len(data) \in Nat /\ Len(data) <= len - nDataLen
    BY <1>2
  <2>2. Fill(data, buf, len, start, free, nDataLen)
    BY DEF data
  <2>3. QED BY <1>1, <2>1, <2>2, FilledTape
<1>7. Accounted' /\ FileToBe' = Effect(FileToBe, info, Tape', Stored)
  <2>1. Stored' = Stored + Size(info) /\ Unapplied' = Append(Unapplied, info)
    BY <1>2, <1>4, <1>6 DEF info
  <2>2. QED BY <1>1, <1>3, <1>6, <2>1, AppendStep
<1>8. Taken(Tape', Stored, n) = data
  <2>1. data = [i \in 1..n |-> data[i]]
    BY <1>2
  <2>2. \A i \in 1..n : Tape'[Stored + i] = data[i]
    BY <1>2, <1>6
  <2>3. QED BY <2>1, <2>2 DEF Taken
<1>9. FileToBe' = WriteTo(FileToBe, data)
  BY <1>3, <1>7, <1>8 DEF Effect
<1>10. RingTrue'
  <2>1. buffer' = [j \in 0..len - 1 |->
              LET off == (j - (IF nDataLen = 0 THEN 0 ELSE free) + len) % len
              IN  IF off < Len(data) THEN data[off + 1] ELSE buf[j]]
    BY DEF Fill, data
  <2>2. ASSUME NEW j \in 0..len - 1
        PROVE  LET off == (j - (IF nDataLen = 0 THEN 0 ELSE free) + len) % len
               IN  (IF off < Len(data) THEN data[off + 1] ELSE buf[j]) \in Byte
    <3> DEFINE x == j - (IF nDataLen = 0 THEN 0 ELSE free) + len
               off == x % len
    <3>1. x \in Nat
      OBVIOUS
    <3> HIDE DEF x
    <3>2. off \in 0..len - 1
      BY <3>1, ModRange
    <3> HIDE DEF off
    <3>3. off < Len(data) => data[off + 1] \in Byte
      <4>1. SUFFICES ASSUME off < Len(data) PROVE data[off + 1] \in Byte
        OBVIOUS
      <4>2. off + 1 \in 1..Len(data)
        BY <1>2, <3>2, <4>1
      <4>3. QED BY <1>2, <4>2, ElementOfSeq
    <3>4. (IF off < Len(data) THEN data[off + 1] ELSE buf[j]) \in Byte
      BY <3>3
    <3>5. QED BY <3>4 DEF off, x
  <2>3. buffer' \in [0..len - 1 -> Byte]
    BY <2>1, <2>2
  <2>4. QED BY <1>6, <2>3 DEF RingTrue
<1>11. QED BY <1>7, <1>9, <1>10 DEF data

LEMMA WriteCall ==
    ASSUME FileInv, IInv', NEW n \in Sizes, Write(n)
    PROVE  /\ Accounted' /\ RingTrue'
           /\ \/ cpc' = "full" /\ FileToBe' = FileToBe
              \/ cpc' = "add" /\ FileToBe' = WriteTo(FileToBe, Block(calls + 1, n))
<1>1. IInv /\ Accounted /\ RingTrue
  BY DEF FileInv
<1>2. /\ cpc = "idle" /\ cInfo' = WriteInfo(n) /\ UNCHANGED <<file, dataInfoQueue, writer>>
  BY DEF Write
<1>3. n \in Nat \ {0} /\ calls + 1 \in Nat
  BY <1>1, PipeAssumption DEF IInv, TypeOK
<1>4. Eaten' = Eaten /\ Doing' = Doing /\ Adding = <<>>
  BY <1>2 DEF Eaten, Doing, Adding, writer
<1>5. CASE n > nBufferLen - nDataLen
  <2>1. cpc' = "full" /\ UNCHANGED ring
    BY <1>5 DEF Write
  <2>2. Unapplied' = Unapplied
    BY <1>2, <2>1 DEF Unapplied, writer
  <2>3. Accounted' /\ FileToBe' = FileToBe
    BY <1>1, <1>2, <1>4, <2>1, <2>2, SameTapes, SameWay
  <2>4. RingTrue'
    BY <1>1, <2>1 DEF RingTrue, ring
  <2>5. QED BY <2>1, <2>3, <2>4
<1>6. CASE ~(n > nBufferLen - nDataLen)
  <2>1. /\ cpc' = "add"
        /\ Fill(Block(calls + 1, n), buffer, nBufferLen, nDataStartPos,
                nFreeSpaceStartPos, nDataLen)
    BY <1>6 DEF Write
  <2>2. Adding' = <<WriteInfo(n)>> /\ WriteInfo(n) \in DataInfo
    <3>1. Adding' = <<WriteInfo(n)>>
      BY <1>2, <2>1 DEF Adding
    <3>2. QED BY <1>3, <3>1 DEF WriteInfo, DataInfo, CP_OriginMax
  <2>3. Unapplied' = Append(Unapplied, WriteInfo(n))
    BY <1>1, <1>2, <1>4, <2>2, OneAdded
  <2>4. /\ nBufferLen \in Nat \ {0} /\ nDataStartPos \in 0..nBufferLen - 1
        /\ nFreeSpaceStartPos \in 0..nBufferLen - 1 /\ n <= nBufferLen - nDataLen
        /\ buffer \in [0..nBufferLen - 1 -> Byte]
    BY <1>1, <1>3, <1>6 DEF IInv, TypeOK, RingTrue
  <2>5. nDataLen > 0 => nFreeSpaceStartPos = (nDataStartPos + nDataLen) % nBufferLen
    BY <1>1 DEF RingTrue
  <2>6. Accounted' /\ RingTrue' /\ FileToBe' = WriteTo(FileToBe, Block(calls + 1, n))
    BY <1>2, <1>3, <1>4, <2>1, <2>3, <2>4, <2>5, BlockStep
  <2>7. QED BY <2>1, <2>6
<1>7. QED BY <1>5, <1>6

LEMMA ReallocateCall ==
    ASSUME FileInv, IInv', Reallocate
    PROVE  /\ Accounted' /\ RingTrue'
           /\ cpc' = "add" /\ FileToBe' = WriteTo(FileToBe, Block(calls, cInfo.nLen))
           /\ calls \in 1..MaxCalls /\ cInfo.nLen \in Sizes
<1> DEFINE len == (cInfo.nLen \div Mega) * Mega + Mega
           n == cInfo.nLen
           buf == [k \in 0..len - 1 |-> Zero]
<1>1. IInv /\ Accounted /\ Shaped
  BY DEF FileInv
<1>2. /\ cpc = "full" /\ cpc' = "add" /\ Fill(Block(calls, n), buf, len, 0, 0, 0)
      /\ UNCHANGED <<file, dataInfoQueue, cInfo, writer>>
  BY DEF Reallocate
<1>3. /\ n \in Sizes /\ n \in Nat \ {0} /\ nDataLen = 0 /\ calls \in 1..MaxCalls
      /\ cInfo = WriteInfo(n) /\ cInfo \in DataInfo
  <2>1. n \in Sizes /\ nDataLen = 0
    BY <1>1, <1>2 DEF IInv, Handed
  <2>2. n \in Nat \ {0}
    BY <2>1, PipeAssumption
  <2>3. calls > 0 /\ cInfo = WriteInfo(n)
    BY <1>1, <1>2 DEF Shaped
  <2>4. calls \in 0..MaxCalls /\ cInfo \in DataInfo
    BY <1>1 DEF IInv, TypeOK
  <2>5. QED BY <2>1, <2>2, <2>3, <2>4, PipeAssumption
<1>4. len \in Nat \ {0} /\ n <= len
  <2>1. Mega \in Nat \ {0}
    BY PipeAssumption
  <2>2. len \in Nat /\ n < len
    BY <1>3, <2>1, NewLength
  <2> HIDE DEF len
  <2>3. QED BY <1>3, <2>2
<1>5. wpc # "consume"
  <2>1. SUFFICES ASSUME wpc = "consume" PROVE FALSE
    OBVIOUS
  <2>2. wInfo.nLen > 0 /\ wInfo.nLen <= nDataLen /\ wInfo.nLen \in Int
    BY <1>1, <2>1 DEF IInv, Handed, TypeOK, DataInfo
  <2>3. QED BY <1>3, <2>2
<1>6. Eaten' = Eaten /\ Doing' = Doing /\ Adding = <<>> /\ Adding' = <<cInfo>>
  BY <1>2 DEF Eaten, Doing, Adding, writer
<1>7. Unapplied' = Append(Unapplied, cInfo)
  BY <1>1, <1>2, <1>3, <1>6, OneAdded
<1> HIDE DEF len, n
<1>8. buf \in [0..len - 1 -> Byte]
  BY DEF Byte, Zero
<1> HIDE DEF buf
<1>9. Accounted' /\ RingTrue' /\ FileToBe' = WriteTo(FileToBe, Block(calls, n))
  <2>1. 0 \in 0..len - 1 /\ n <= len - nDataLen /\ calls \in Nat
    BY <1>3, <1>4
  <2>2. Fill(Block(calls, n), buf, len, 0, 0, nDataLen) /\ ~(nDataLen > 0)
    BY <1>2, <1>3
  <2>3. Unapplied' = Append(Unapplied, WriteInfo(n))
    BY <1>3, <1>7
  <2>4. QED BY <1>2, <1>3, <1>4, <1>6, <1>8, <2>1, <2>2, <2>3, BlockStep
<1>10. QED BY <1>2, <1>3, <1>9 DEF n

\* An entry that has no bytes is put behind the others.
LEMMA EmptyEntryStep ==
    ASSUME FileInv, IInv', NEW info \in DataInfo, Size(info) = 0,
           UNCHANGED <<file, ring, dataInfoQueue, writer>>,
           Adding = <<>>, Adding' = <<info>>
    PROVE  /\ Accounted' /\ RingTrue'
           /\ FileToBe' = IF IsSeek(info) THEN SeekTo(FileToBe, info.nOffset, info.eOrigin)
                          ELSE FileToBe
<1>1. IInv /\ Accounted /\ RingTrue
  BY DEF FileInv
<1>2. Eaten' = Eaten /\ Doing' = Doing
  BY DEF Eaten, Doing, writer
<1>3. Unapplied' = Append(Unapplied, info)
  BY <1>1, <1>2, OneAdded
<1>4. Stored' = Stored /\ Tape' = Tape /\ Stored \in Nat
  BY <1>1, <1>2, SameTapes, StoredType
<1>5. Stored' = Stored + Size(info) /\ Agree(Tape, Tape', Stored)
  BY <1>4 DEF Agree
<1>6. Accounted' /\ FileToBe' = Effect(FileToBe, info, Tape', Stored)
  BY <1>1, <1>3, <1>5, AppendStep
<1>7. ~IsSeek(info) => info.nLen <= 0
  BY DEF Size, DataInfo
<1>8. RingTrue'
  BY <1>1 DEF RingTrue, ring
<1>9. QED BY <1>6, <1>7, <1>8 DEF Effect

LEMMA SetPositionCall ==
    ASSUME FileInv, IInv', NEW s \in Seeks, SetPosition(s)
    PROVE  /\ Accounted' /\ RingTrue'
           /\ \/ UNCHANGED <<positions, cpc, cInfo>> /\ FileToBe' = FileToBe
              \/ /\ cpc' = "add" /\ cInfo' = SeekInfo(s) /\ MovePosition(FakeTarget(s))
                 /\ FileToBe' = IF s.nOffset >= 0 THEN SeekTo(FileToBe, s.nOffset, s.eOrigin)
                                ELSE FileToBe
<1>1. IInv /\ Accounted /\ RingTrue
  BY DEF FileInv
<1>2. /\ cpc = "idle" /\ UNCHANGED <<file, ring, dataInfoQueue, writer>>
      /\ \/ UNCHANGED <<positions, cpc, cInfo>>
         \/ cpc' = "add" /\ cInfo' = SeekInfo(s) /\ MovePosition(FakeTarget(s))
  BY DEF SetPosition
<1>3. CASE UNCHANGED <<positions, cpc, cInfo>>
  <2>1. Unapplied' = Unapplied /\ Eaten' = Eaten
    BY <1>2, <1>3 DEF Unapplied, Eaten, writer
  <2>2. Accounted' /\ FileToBe' = FileToBe
    BY <1>1, <1>2, <2>1, SameTapes, SameWay
  <2>3. RingTrue'
    BY <1>1, <1>2 DEF RingTrue, ring
  <2>4. QED BY <1>3, <2>2, <2>3
<1>4. CASE cpc' = "add" /\ cInfo' = SeekInfo(s) /\ MovePosition(FakeTarget(s))
  <2> DEFINE info == SeekInfo(s)
  <2>1. info \in DataInfo /\ info.nOffset = s.nOffset /\ info.eOrigin = s.eOrigin /\ info.nLen = 0
    BY InfoTypes DEF SeekInfo
  <2>2. IsSeek(info) <=> s.nOffset >= 0
    <3>1. s.eOrigin \in Origins /\ s.eOrigin # CP_OriginMax
      BY PipeAssumption DEF Origins, CP_OriginMax
    <3>2. QED BY <2>1, <3>1 DEF IsSeek
  <2>3. Size(info) = 0
    BY <2>1 DEF Size
  <2>4. Adding = <<>> /\ Adding' = <<info>>
    BY <1>2, <1>4 DEF Adding
  <2> HIDE DEF info
  <2>5. /\ Accounted' /\ RingTrue'
        /\ FileToBe' = IF IsSeek(info) THEN SeekTo(FileToBe, info.nOffset, info.eOrigin)
                       ELSE FileToBe
    BY <1>2, <2>1, <2>3, <2>4, EmptyEntryStep
  <2>6. QED BY <1>4, <2>1, <2>2, <2>5
<1>5. QED BY <1>2, <1>3, <1>4

\* The other steps of the client leave the file to be alone.
LEMMA OtherCalls ==
    ASSUME FileInv, IInv', Close \/ AddInfo \/ ReallocateFails \/ Closed
    PROVE  Accounted' /\ RingTrue' /\ FileToBe' = FileToBe
<1>1. IInv /\ Accounted /\ RingTrue
  BY DEF FileInv
<1>2. CASE Close
  <2>1. /\ cpc = "idle" /\ cpc' = "add" /\ cInfo' = StopInfo
        /\ UNCHANGED <<file, ring, dataInfoQueue, writer>>
    BY <1>2 DEF Close
  <2>2. Adding = <<>> /\ Adding' = <<StopInfo>>
    BY <2>1 DEF Adding
  <2>3. StopInfo \in DataInfo /\ Size(StopInfo) = 0 /\ ~IsSeek(StopInfo)
    BY DEF StopInfo, WriteInfo, DataInfo, Size, IsSeek, CP_OriginMax
  <2>4. QED BY <2>1, <2>2, <2>3, EmptyEntryStep
<1>3. CASE AddInfo
  <2>1. /\ cpc = "add" /\ cpc' \in {"join", "idle"} /\ dataInfoQueue' = Append(dataInfoQueue, cInfo)
        /\ UNCHANGED <<file, ring, writer>>
    BY <1>3 DEF AddInfo
  <2>2. Doing' = Doing /\ Eaten' = Eaten /\ Adding = <<cInfo>> /\ Adding' = <<>>
    BY <2>1 DEF Doing, Eaten, Adding, writer
  <2>3. /\ Doing \in Seq(DataInfo) /\ dataInfoQueue \in Seq(DataInfo) /\ cInfo \in DataInfo
        /\ Unapplied = (Doing \o dataInfoQueue) \o <<cInfo>>
    BY <1>1, <2>2, UnappliedType DEF IInv, TypeOK
  <2>4. Unapplied' = (Doing \o Append(dataInfoQueue, cInfo)) \o <<>>
    BY <2>1, <2>2, UnappliedNext
  <2>5. Unapplied' = Unapplied
    <3>1. <<cInfo>> \in Seq(DataInfo) /\ Append(dataInfoQueue, cInfo) = dataInfoQueue \o <<cInfo>>
      <4>1. <<cInfo>> \in Seq(DataInfo)
        BY <2>3
      <4>2. dataInfoQueue \o <<cInfo>> = Append(dataInfoQueue, cInfo)
        BY <2>3, OneMore
      <4>3. QED BY <4>1, <4>2
    <3>2. (Doing \o dataInfoQueue) \o <<cInfo>> = Doing \o (dataInfoQueue \o <<cInfo>>)
      BY <2>3, <3>1, ConcatAssociative
    <3>3. Doing \o (dataInfoQueue \o <<cInfo>>) \in Seq(DataInfo)
      BY <2>3, <3>1, ConcatProperties
    <3>4. QED BY <2>3, <2>4, <3>1, <3>2, <3>3, EmptyEnds
  <2>6. Accounted' /\ FileToBe' = FileToBe
    BY <1>1, <2>1, <2>2, <2>5, SameTapes, SameWay
  <2>7. RingTrue'
    BY <1>1, <2>1 DEF RingTrue, ring
  <2>8. QED BY <2>6, <2>7
<1>4. CASE ReallocateFails \/ Closed
  <2>1. /\ cpc # "add" /\ cpc' # "add"
        /\ UNCHANGED <<file, ring, dataInfoQueue, writer>>
    BY <1>4 DEF ReallocateFails, Closed
  <2>2. Unapplied' = Unapplied /\ Eaten' = Eaten
    BY <2>1 DEF Unapplied, Eaten, writer
  <2>3. Accounted' /\ FileToBe' = FileToBe
    BY <1>1, <2>1, <2>2, SameTapes, SameWay
  <2>4. RingTrue'
    BY <1>1, <2>1 DEF RingTrue, ring
  <2>5. QED BY <2>3, <2>4
<1>5. QED BY <1>2, <1>3, <1>4

-----------------------------------------------------------------------------
(* The invariant is inductive *)

LEMMA InitFile == Init => FileInv /\ FileToBe = EmptyFile
<1> SUFFICES ASSUME Init PROVE FileInv /\ FileToBe = EmptyFile
  OBVIOUS
<1>1. IInv
  BY InitInv
<1>2. Unapplied = <<>> /\ Stored = 0 /\ Len(Unapplied) = 0
  BY DEF Init, Unapplied, Stored, Eaten
<1> DEFINE e == [k \in 0..0 |-> 0]
           g == [k \in 0..0 |-> file]
<1>3. Offsets(e, Unapplied, Stored) /\ Files(g, e, Unapplied, file, Tape)
  <2>1. Offsets(e, Unapplied, 0)
    BY <1>2 DEF Offsets
  <2>2. Files(g, e, Unapplied, file, Tape)
    BY <1>2 DEF Files
  <2>3. QED BY <1>2, <2>1, <2>2
<1>4. Accounted
  BY <1>3 DEF Accounted
<1>5. FileToBe = EmptyFile
  <2>1. FileToBe = g[Len(Unapplied)]
    BY <1>1, <1>3, Landing DEF FileFollows
  <2>2. QED BY <1>2, <2>1 DEF Init
<1>6. Shaped /\ Stopped
  BY DEF Init, Shaped, Stopped
<1>7. Sound(file)
  BY DEF Init, EmptyFile, Sound
<1>8. RingTrue
  BY DEF Init, RingTrue, Byte, Zero
<1>9. QED BY <1>1, <1>4, <1>5, <1>6, <1>7, <1>8 DEF FileInv

\* The file stays sound.
LEMMA WriterSound ==
    ASSUME FileInv, WriterStep
    PROVE  Sound(file)'
<1>1. IInv /\ RingTrue /\ Sound(file)
  BY DEF FileInv
<1>2. CASE Seek
  <2>1. IsSeek(wInfo) /\ wInfo \in DataInfo /\ file' = SeekTo(file, wInfo.nOffset, wInfo.eOrigin)
    BY <1>1, <1>2 DEF Seek, IInv, Handed, TypeOK
  <2>2. wInfo.nOffset \in Int /\ wInfo.eOrigin \in Origins
    BY <2>1 DEF DataInfo, IsSeek
  <2>3. Sound(file')
    <3>1. CASE file.written
      BY <1>1, <2>1, <2>2, <3>1, SeekSound
    <3>2. CASE ~file.written
      <4>1. ~file'.written
        BY <2>1, <3>2, StaysCut
      <4>2. QED BY <4>1 DEF Sound
    <3>3. QED BY <3>1, <3>2
  <2>4. QED BY <2>3 DEF Sound
<1>3. CASE WriteChunk
  <2> DEFINE data == [i \in 1..wLength |-> IF wFreed THEN Garbage
                                           ELSE buffer[nDataStartPos + i - 1]]
  <2>1. wpc = "write" /\ file' = WriteTo(file, data)
    BY <1>3 DEF WriteChunk
  <2>2. /\ ~wFreed /\ wLength \in Nat /\ wLength > 0 /\ nDataStartPos + wLength <= nBufferLen
        /\ nDataStartPos \in 0..nBufferLen - 1 /\ nBufferLen \in Nat
    BY <1>1, <2>1 DEF IInv, ReadsLiveData, TypeOK
  <2>3. data \in Seq(Byte) /\ data # <<>>
    <3>1. ASSUME NEW i \in 1..wLength
          PROVE  (IF wFreed THEN Garbage ELSE buffer[nDataStartPos + i - 1]) \in Byte
      <4>1. nDataStartPos + i - 1 \in 0..nBufferLen - 1
        BY <2>2
      <4>2. QED BY <1>1, <2>2, <4>1 DEF RingTrue
    <3>2. data \in Seq(Byte) /\ Len(data) = wLength
      BY <2>2, <3>1
    <3> HIDE DEF data
    <3>3. QED BY <2>2, <3>2, EmptySeq
  <2> HIDE DEF data
  <2>4. Sound(file')
    <3>1. CASE file.written
      BY <1>1, <2>1, <2>3, <3>1, WriteSound
    <3>2. CASE ~file.written
      <4>1. ~file'.written
        BY <2>1, <3>2, StaysCut
      <4>2. QED BY <4>1 DEF Sound
    <3>3. QED BY <3>1, <3>2
  <2>5. QED BY <2>4 DEF Sound
<1>4. CASE Loop \/ GetInfo \/ CheckLength \/ StartChunk \/ ConsumeChunk
  <2>1. file' = file
    BY <1>4 DEF Loop, GetInfo, CheckLength, StartChunk, ConsumeChunk
  <2>2. QED BY <1>1, <2>1 DEF Sound
<1>5. QED BY <1>2, <1>3, <1>4 DEF WriterStep

LEMMA WriterRest ==
    ASSUME FileInv, IInv', WriterStep
    PROVE  Shaped' /\ RingTrue' /\ Stopped'
<1>1. IInv /\ Shaped /\ RingTrue /\ Stopped
  BY DEF FileInv
<1>2. UNCHANGED <<client, bStopWriteThread>> /\ wpc # "exit"
  BY DEF WriterStep, Loop, GetInfo, Seek, CheckLength, StartChunk, WriteChunk, ConsumeChunk
<1>3. nDataLen \in Nat /\ nBufferLen \in Nat \ {0} /\ nDataStartPos \in 0..nBufferLen - 1
      /\ nDataLen <= nBufferLen
  BY <1>1 DEF IInv, TypeOK
<1>4. Shaped'
  <2>1. cpc' = "full" => calls' > 0 /\ cInfo' = WriteInfo(cInfo'.nLen)
    BY <1>1, <1>2 DEF Shaped, client
  <2>2. wpc' \in {"check", "chunk", "write", "consume"} => ~IsSeek(wInfo')
    <3>1. CASE Loop \/ Seek \/ CheckLength \/ StartChunk \/ WriteChunk
      BY <1>1, <3>1 DEF Loop, Seek, CheckLength, StartChunk, WriteChunk, Shaped
    <3>2. CASE GetInfo
      BY <3>2 DEF GetInfo
    <3>3. CASE ConsumeChunk
      BY <3>3 DEF ConsumeChunk, WriteInfo, IsSeek
    <3>4. QED BY <3>1, <3>2, <3>3 DEF WriterStep
  <2>3. QED BY <2>1, <2>2 DEF Shaped
<1>5. RingTrue'
  <2>1. CASE ConsumeChunk
    <3>1. /\ wpc = "consume" /\ nDataStartPos' = (nDataStartPos + wLength) % nBufferLen
          /\ nDataLen' = nDataLen - wLength
          /\ UNCHANGED <<buffer, nBufferLen, nFreeSpaceStartPos>>
      BY <2>1 DEF ConsumeChunk, Advance
    <3>2. wLength \in Nat /\ wLength > 0 /\ wLength <= nDataLen
      BY <1>1, <3>1 DEF IInv, ReadsLiveData, TypeOK, DataInfo
    <3>3. nFreeSpaceStartPos = (nDataStartPos + nDataLen) % nBufferLen
      BY <1>1, <1>3, <3>2 DEF RingTrue
    <3> DEFINE rest == nDataLen - wLength
               p == nDataStartPos + wLength
    <3>4. rest \in Nat /\ p \in Nat /\ p + rest = nDataStartPos + nDataLen
          /\ p + rest <= 2 * nBufferLen - 1
      BY <1>3, <3>2
    <3>5. ((p % nBufferLen) + rest) % nBufferLen = (p + rest) % nBufferLen
      <4> HIDE DEF p, rest
      <4>1. QED BY <1>3, <3>4, ModAdd
    <3>6. nFreeSpaceStartPos' = (nDataStartPos' + nDataLen') % nBufferLen'
      BY <3>1, <3>3, <3>4, <3>5
    <3>7. QED BY <1>1, <3>1, <3>6 DEF RingTrue
  <2>2. CASE Loop \/ GetInfo \/ Seek \/ CheckLength \/ StartChunk \/ WriteChunk
    <3>1. UNCHANGED ring
      BY <2>2 DEF Loop, GetInfo, Seek, CheckLength, StartChunk, WriteChunk
    <3>2. QED BY <1>1, <3>1 DEF RingTrue, ring
  <2>3. QED BY <2>1, <2>2 DEF WriterStep
<1>6. Stopped'
  <2>1. CASE Loop
    BY <1>1, <1>2, <1>3, <2>1 DEF Loop, KeepsRunning, Stopped, client, ring
  <2>2. CASE ~Loop
    <3>1. wpc' # "exit"
      BY <2>2 DEF WriterStep, GetInfo, Seek, CheckLength, StartChunk, WriteChunk, ConsumeChunk
    <3>2. QED BY <1>1, <1>2, <3>1 DEF Stopped, client
  <2>3. QED BY <2>1, <2>2
<1>7. QED BY <1>4, <1>5, <1>6

ClientAction ==
    \/ \E n \in Sizes : Write(n)
    \/ \E s \in Seeks : SetPosition(s)
    \/ Close
    \/ ClientStep

LEMMA ClientRest ==
    ASSUME FileInv, ClientAction
    PROVE  Shaped' /\ Stopped' /\ Sound(file)'
<1>1. IInv /\ Shaped /\ Stopped /\ Sound(file)
  BY DEF FileInv
<1>2. UNCHANGED <<file, writer>> /\ cpc # "closed"
  BY DEF ClientAction, ClientStep, Write, SetPosition, Close, Reallocate, ReallocateFails,
         AddInfo, Closed
<1>3. wpc' = wpc /\ wInfo' = wInfo /\ file' = file
  BY <1>2 DEF writer
<1>4. Sound(file)'
  BY <1>1, <1>3 DEF Sound
<1>5. Shaped'
  <2>1. wpc' \in {"check", "chunk", "write", "consume"} => ~IsSeek(wInfo')
    BY <1>1, <1>3 DEF Shaped
  <2>2. cpc' = "full" => calls' > 0 /\ cInfo' = WriteInfo(cInfo'.nLen)
    <3>1. CASE \E n \in Sizes : Write(n)
      <4>1. PICK n \in Sizes : Write(n)
        BY <3>1
      <4>2. calls' = calls + 1 /\ calls \in Nat /\ cInfo' = WriteInfo(n)
        BY <1>1, <4>1, PipeAssumption DEF Write, IInv, TypeOK
      <4>3. cInfo'.nLen = n
        BY <4>2 DEF WriteInfo
      <4>4. QED BY <4>2, <4>3
    <3>2. CASE ~\E n \in Sizes : Write(n)
      <4>1. cpc' # "full"
        BY <3>2 DEF ClientAction, ClientStep, SetPosition, Close, Reallocate, ReallocateFails,
                    AddInfo, Closed
      <4>2. QED BY <4>1
    <3>3. QED BY <3>1, <3>2
  <2>3. QED BY <2>1, <2>2 DEF Shaped
<1>6. Stopped'
  <2>1. CASE \E n \in Sizes : Write(n)
    <3>1. PICK n \in Sizes : Write(n)
      BY <2>1
    <3>2. cpc = "idle" /\ cpc' \in {"full", "add"} /\ bStopWriteThread' = bStopWriteThread
      BY <3>1 DEF Write
    <3>3. ~bStopWriteThread /\ wpc # "exit"
      BY <1>1, <3>2 DEF Stopped
    <3>4. QED BY <1>3, <3>2, <3>3 DEF Stopped
  <2>2. CASE \E s \in Seeks : SetPosition(s)
    <3>1. PICK s \in Seeks : SetPosition(s)
      BY <2>2
    <3>2. cpc = "idle" /\ cpc' \in {"idle", "add"} /\ bStopWriteThread' = bStopWriteThread
      BY <3>1 DEF SetPosition
    <3>3. ~bStopWriteThread /\ wpc # "exit"
      BY <1>1, <3>2 DEF Stopped
    <3>4. QED BY <1>3, <3>2, <3>3 DEF Stopped
  <2>3. CASE Reallocate
    <3>1. cpc = "full" /\ cpc' = "add" /\ bStopWriteThread' = bStopWriteThread
      BY <2>3 DEF Reallocate
    <3>2. ~bStopWriteThread /\ wpc # "exit"
      BY <1>1, <3>1 DEF Stopped
    <3>3. QED BY <1>3, <3>1, <3>2 DEF Stopped
  <2>4. CASE Close \/ ReallocateFails \/ AddInfo \/ Closed
    <3>1. nDataLen' = nDataLen
      BY <2>4 DEF Close, ReallocateFails, AddInfo, Closed, ring
    <3>2. wpc' = "exit" => bStopWriteThread' /\ nDataLen' = 0
      BY <1>1, <1>3, <2>4, <3>1 DEF Stopped, Close, ReallocateFails, AddInfo, Closed
    <3>3. bStopWriteThread' => (cpc' = "add" /\ cInfo' = StopInfo) \/ cpc' \in {"join", "closed"}
      BY <1>1, <2>4 DEF Stopped, Close, ReallocateFails, AddInfo, Closed
    <3>4. cpc' = "closed" => wpc' = "exit"
      BY <1>3, <2>4 DEF Close, ReallocateFails, AddInfo, Closed
    <3>5. QED BY <3>2, <3>3, <3>4 DEF Stopped
  <2>5. QED BY <2>1, <2>2, <2>3, <2>4 DEF ClientAction, ClientStep
<1>7. QED BY <1>4, <1>5, <1>6

\* What one call makes of the file to be.
LEMMA ClientChanges ==
    ASSUME FileInv, IInv', ClientAction
    PROVE  /\ Accounted' /\ RingTrue'
           /\ \/ FileToBe' = FileToBe
              \/ \E k \in 1..MaxCalls, n \in Sizes : FileToBe' = WriteTo(FileToBe, Block(k, n))
              \/ \E s \in Seeks : FileToBe' = SeekTo(FileToBe, s.nOffset, s.eOrigin)
<1>1. CASE \E n \in Sizes : Write(n)
  <2>1. PICK n \in Sizes : Write(n)
    BY <1>1
  <2>2. calls + 1 \in 1..MaxCalls
    BY <2>1, PipeAssumption DEF Write, FileInv, IInv, TypeOK
  <2>3. /\ Accounted' /\ RingTrue'
        /\ FileToBe' = FileToBe \/ FileToBe' = WriteTo(FileToBe, Block(calls + 1, n))
    BY <2>1, WriteCall
  <2>4. QED BY <2>2, <2>3
<1>2. CASE \E s \in Seeks : SetPosition(s)
  BY <1>2, SetPositionCall
<1>3. CASE Reallocate
  BY <1>3, ReallocateCall
<1>4. CASE Close \/ AddInfo \/ ReallocateFails \/ Closed
  BY <1>4, OtherCalls
<1>5. QED BY <1>1, <1>2, <1>3, <1>4 DEF ClientAction, ClientStep

\* A step that changes nothing.
LEMMA StutterFile ==
    ASSUME FileInv, IInv', UNCHANGED vars
    PROVE  FileInv' /\ FileToBe' = FileToBe
<1>1. UNCHANGED <<file, ring, dataInfoQueue, client, writer, bStopWriteThread>>
  BY DEF vars
<1>2. IInv /\ Accounted /\ Shaped /\ RingTrue /\ Sound(file) /\ Stopped
  BY DEF FileInv
<1>3. Unapplied' = Unapplied /\ Eaten' = Eaten
  BY <1>1 DEF Unapplied, Eaten, client, writer
<1>4. Accounted' /\ FileToBe' = FileToBe
  BY <1>1, <1>2, <1>3, SameTapes, SameWay
<1>5. Shaped' /\ RingTrue' /\ Stopped' /\ Sound(file)'
  BY <1>1, <1>2 DEF Shaped, RingTrue, Stopped, Sound, ring, client, writer
<1>6. QED BY <1>4, <1>5 DEF FileInv

LEMMA InvNext ==
    ASSUME IInv, bWithinLimits, [Next]_vars
    PROVE  IInv'
<1>1. CASE UNCHANGED vars
  BY <1>1 DEF vars, positions, ring, client, writer, IInv, TypeOK, ReadsLiveData, Handed
<1>2. CASE Next
  BY <1>1, <1>2, ClientInv, WriterInv DEF Next
<1>3. QED BY <1>1, <1>2

\* One step of the pipe is one step of the file, or none.
LEMMA FileNext ==
    ASSUME FileInv, bWithinLimits, [Next]_vars
    PROVE  FileInv' /\ [RecordedTo!Next]_FileToBe
<1>1. IInv'
  BY InvNext DEF FileInv
<1>2. CASE UNCHANGED vars
  BY <1>1, <1>2, StutterFile
<1>3. CASE WriterStep
  <2>1. Accounted' /\ Kept
    BY <1>1, <1>3, WriterKeeps
  <2>2. Shaped' /\ RingTrue' /\ Stopped' /\ Sound(file)'
    BY <1>1, <1>3, WriterRest, WriterSound
  <2>3. [RecordedTo!Next]_FileToBe
    BY <2>1 DEF Kept, RecordedTo!Next, RecordedTo!DeviceFull
  <2>4. QED BY <1>1, <2>1, <2>2, <2>3 DEF FileInv
<1>4. CASE ClientAction
  <2>1. /\ Accounted' /\ RingTrue'
        /\ \/ FileToBe' = FileToBe
           \/ \E k \in 1..MaxCalls, n \in Sizes : FileToBe' = WriteTo(FileToBe, Block(k, n))
           \/ \E s \in Seeks : FileToBe' = SeekTo(FileToBe, s.nOffset, s.eOrigin)
    BY <1>1, <1>4, ClientChanges
  <2>2. Shaped' /\ Stopped' /\ Sound(file)'
    BY <1>4, ClientRest
  <2>3. [RecordedTo!Next]_FileToBe
    <3>1. \A f, data : RecordedTo!WriteTo(f, data) = WriteTo(f, data)
      BY DEF RecordedTo!WriteTo, WriteTo, RecordedTo!ActualWritten, ActualWritten,
             RecordedTo!Overwrite, Overwrite
    <3>2. \A f, o, origin : RecordedTo!SeekTo(f, o, origin) = SeekTo(f, o, origin)
      BY DEF RecordedTo!SeekTo, SeekTo, RecordedTo!Target, Target, RecordedTo!ActualWritten,
             ActualWritten, RecordedTo!Overwrite, Overwrite, RecordedTo!Zero, Zero
    <3>3. QED BY <2>1, <3>1, <3>2 DEF RecordedTo!Next, RecordedTo!Written, RecordedTo!Positioned
  <2>4. QED BY <1>1, <2>1, <2>2, <2>3 DEF FileInv
<1>5. QED BY <1>2, <1>3, <1>4 DEF Next, ClientAction

LEMMA FileInductive == bWithinLimits => (Spec => []FileInv)
<1>1. ASSUME bWithinLimits PROVE FileInv /\ [Next]_vars => FileInv'
  BY <1>1, FileNext
<1>2. bWithinLimits => [](bWithinLimits)
  <2>1. bWithinLimits => bWithinLimits'
    OBVIOUS
  <2>2. QED BY <2>1, PTL
<1>3. QED BY <1>1, <1>2, InitFile, PTL DEF Spec

LEMMA ToBeSound ==
    ASSUME FileInv
    PROVE  Sound(FileToBe)
<1>1. IInv /\ Accounted /\ RingTrue /\ Sound(file)
  BY DEF FileInv
<1>2. PICK e, g : /\ Offsets(e, Unapplied, Stored)
                  /\ Files(g, e, Unapplied, file, Tape)
                  /\ FileToBe = g[Len(Unapplied)]
  BY <1>1, Present
<1>3. Unapplied \in Seq(DataInfo) /\ Stored \in Nat /\ HasBytes(Tape, Stored)
  BY <1>1, UnappliedType, StoredType, TapeBytes
<1>4. \A k \in 0..Len(Unapplied) : Sound(g[k])
  BY <1>1, <1>2, <1>3, SoundFiles
<1>5. Len(Unapplied) \in 0..Len(Unapplied)
  BY <1>3, LenProperties
<1>6. QED BY <1>2, <1>4, <1>5

\* To its caller the pipe is a file on which each Write and SetPosition takes
\* effect at once: what AsyncWriteThreadFunc, the split chunks, the wrap-arounds
\* of the ring and its reallocation do later changes nothing about it.
THEOREM PipeImplementsFile == bWithinLimits => (Spec => ImplementsFile)
<1>1. Init => RecordedTo!Init
  <2>1. RecordedTo!EmptyFile = EmptyFile
    BY DEF RecordedTo!EmptyFile, EmptyFile
  <2>2. QED BY <2>1, InitFile DEF RecordedTo!Init
<1>2. ASSUME bWithinLimits PROVE FileInv /\ [Next]_vars => [RecordedTo!Next]_FileToBe
  BY <1>2, FileNext
<1>3. bWithinLimits => [](bWithinLimits)
  <2>1. bWithinLimits => bWithinLimits'
    OBVIOUS
  <2>2. QED BY <2>1, PTL
<1>4. QED BY <1>1, <1>2, <1>3, FileInductive, PTL DEF Spec, ImplementsFile, RecordedTo!Spec

\* When Close has joined the thread all the data is in the file; only the zeros of
\* an extension by SetPosition that no Write followed may be missing.
THEOREM PipeClosedComplete == bWithinLimits => (Spec => []ClosedComplete)
<1>1. FileInv => ClosedComplete
  <2>1. SUFFICES ASSUME FileInv, cpc = "closed", FileToBe.written
                 PROVE  /\ IsPrefix(file.bytes, FileToBe.bytes)
                        /\ \A k \in Len(file.bytes) + 1..Len(FileToBe.bytes) :
                              FileToBe.bytes[k] = Zero
    BY DEF ClosedComplete
  <2>2. IInv /\ Accounted /\ RingTrue /\ Sound(file) /\ Stopped
    BY <2>1 DEF FileInv
  <2>3. wpc = "exit" /\ nDataLen = 0
    BY <2>1, <2>2 DEF Stopped
  <2>4. Stored = 0
    BY <2>3 DEF Stored, Eaten
  <2>5. PICK e, g : /\ Offsets(e, Unapplied, 0)
                    /\ Files(g, e, Unapplied, file, Tape)
                    /\ FileToBe = g[Len(Unapplied)]
    BY <2>2, <2>4, Present
  <2>6. Unapplied \in Seq(DataInfo)
    BY <2>2, UnappliedType
  <2>7. file.written /\ Extends(file, FileToBe)
    <3>1. g[Len(Unapplied)].written
      BY <2>1, <2>5
    <3>2. file.written /\ Extends(file, g[Len(Unapplied)])
      BY <2>2, <2>5, <2>6, <3>1, NothingLeft
    <3>3. QED BY <2>5, <3>2
  <2>8. Sound(FileToBe)
    BY <2>1, ToBeSound
  <2> DEFINE a == file.bytes
             b == FileToBe.bytes
  <2>9. a \in Seq(Byte) /\ b \in Seq(Byte) /\ file.nLen = Len(a) /\ FileToBe.nLen = Len(b)
    BY <2>1, <2>2, <2>7, <2>8 DEF Sound
  <2>10. /\ Len(a) <= Len(b) /\ \A j \in 1..Len(a) : b[j] = a[j]
         /\ \A j \in Len(a) + 1..Len(b) : b[j] = Zero
    BY <2>7, <2>9 DEF Extends
  <2> HIDE DEF a, b
  <2>11. IsPrefix(a, b)
    <3>1. Len(a) \in Nat /\ Len(b) \in Nat
      BY <2>9, LenProperties
    <3>2. SubSeq(b, 1, Len(a)) \in Seq(Byte) /\ Len(SubSeq(b, 1, Len(a))) = Len(a)
          /\ \A j \in 1..Len(a) : SubSeq(b, 1, Len(a))[j] = b[j]
      BY <2>9, <2>10, <3>1, SubSeqProperties, ElementOfSeq
    <3>3. SubSeq(b, 1, Len(a)) = a
      BY <2>9, <2>10, <3>1, <3>2, SeqEqual
    <3>4. QED BY <2>10, <3>1, <3>3 DEF IsPrefix
  <2>12. QED BY <2>10, <2>11 DEF a, b
<1>2. QED BY <1>1, FileInductive, PTL

-----------------------------------------------------------------------------
(* The position the client is told *)

Longer(a, b) == IF a > b THEN a ELSE b

\* nFakePos and nUriLen are those of the file to be, but for a Write that has
\* not yet moved them.
PositionsKnown ==
    FileToBe.written =>
        IF cpc = "add" /\ cInfo.nLen > 0
        THEN /\ FileToBe.nPos = nFakePos + cInfo.nLen
             /\ FileToBe.nLen = Longer(nFakePos + cInfo.nLen, nUriLen)
        ELSE FileToBe.nPos = nFakePos /\ FileToBe.nLen = nUriLen

\* The muxers' seeks but for those back from the current position or the end, which
\* AsyncWriteThreadFunc takes for no seek.
SeeksForward == \A s \in Seeks : s.nOffset >= 0

\* The positions after a Write of a block.
LEMMA BlockPosition ==
    ASSUME NEW f, Sound(f), NEW h, NEW k \in Nat, NEW n \in Nat \ {0},
           h = WriteTo(f, Block(k, n)), h.written
    PROVE  f.written /\ h.nPos = f.nPos + n /\ h.nLen = Longer(f.nPos + n, f.nLen)
<1>1. f.written
  BY StaysCut
<1>2. Block(k, n) \in Seq(Byte) /\ Len(Block(k, n)) = n
  BY BlockBytes
<1>3. Block(k, n) # <<>>
  BY <1>2, EmptySeq
<1>4. QED BY <1>1, <1>2, <1>3, WriteSound DEF Longer

LEMMA PositionsNext ==
    ASSUME FileInv, PositionsKnown, SeeksForward, bWithinLimits, [Next]_vars
    PROVE  PositionsKnown'
<1>1. IInv /\ Accounted /\ RingTrue /\ Shaped
  BY DEF FileInv
<1>2. IInv'
  BY <1>1, InvNext
<1>3. Sound(FileToBe)
  BY ToBeSound
<1>4. nFakePos \in Int /\ nUriLen \in Nat /\ cInfo.nLen \in Int
  BY <1>1 DEF IInv, TypeOK, DataInfo
<1>5. CASE UNCHANGED vars
  <2>1. FileToBe' = FileToBe
    BY <1>2, <1>5, StutterFile
  <2>2. QED BY <1>5, <2>1 DEF PositionsKnown, vars, positions, client
<1>6. CASE WriterStep
  <2>1. UNCHANGED <<positions, client>>
    BY <1>6 DEF WriterStep, Loop, GetInfo, Seek, CheckLength, StartChunk, WriteChunk, ConsumeChunk
  <2>2. Kept
    BY <1>2, <1>6, WriterKeeps
  <2>3. QED BY <2>1, <2>2 DEF PositionsKnown, Kept, positions, client
<1>7. ASSUME NEW n \in Sizes, Write(n) PROVE PositionsKnown'
  <2>1. /\ cpc = "idle" /\ UNCHANGED positions /\ cInfo' = WriteInfo(n) /\ calls + 1 \in Nat
        /\ n \in Nat \ {0} /\ cInfo'.nLen = n
    BY <1>1, <1>7, PipeAssumption DEF Write, WriteInfo, IInv, TypeOK
  <2>2. CASE cpc' = "full" /\ FileToBe' = FileToBe
    BY <2>1, <2>2 DEF PositionsKnown, positions
  <2>3. CASE cpc' = "add" /\ FileToBe' = WriteTo(FileToBe, Block(calls + 1, n))
    <3>1. SUFFICES ASSUME FileToBe'.written
                   PROVE  /\ FileToBe'.nPos = nFakePos + n
                          /\ FileToBe'.nLen = Longer(nFakePos + n, nUriLen)
      BY <2>1, <2>3 DEF PositionsKnown, positions
    <3>2. /\ FileToBe.written /\ FileToBe'.nPos = FileToBe.nPos + n
          /\ FileToBe'.nLen = Longer(FileToBe.nPos + n, FileToBe.nLen)
      BY <1>3, <2>1, <2>3, <3>1, BlockPosition
    <3>3. FileToBe.nPos = nFakePos /\ FileToBe.nLen = nUriLen
      BY <2>1, <3>2 DEF PositionsKnown
    <3>4. QED BY <3>2, <3>3
  <2>4. QED BY <1>2, <1>7, <2>2, <2>3, WriteCall
<1>8. ASSUME Reallocate PROVE PositionsKnown'
  <2> DEFINE n == cInfo.nLen
  <2>1. cpc = "full" /\ UNCHANGED <<positions, cInfo>>
    BY <1>8 DEF Reallocate
  <2>2. cpc' = "add" /\ FileToBe' = WriteTo(FileToBe, Block(calls, n)) /\ calls \in Nat
        /\ n \in Nat \ {0}
    <3>1. /\ cpc' = "add" /\ FileToBe' = WriteTo(FileToBe, Block(calls, cInfo.nLen))
          /\ calls \in 1..MaxCalls /\ cInfo.nLen \in Sizes
      BY <1>2, <1>8, ReallocateCall
    <3>2. calls \in Nat
      BY <3>1
    <3>3. n \in Nat \ {0}
      BY <3>1, PipeAssumption
    <3>4. QED BY <3>1, <3>2, <3>3
  <2>3. SUFFICES ASSUME FileToBe'.written
                 PROVE  /\ FileToBe'.nPos = nFakePos + n
                        /\ FileToBe'.nLen = Longer(nFakePos + n, nUriLen)
    BY <2>1, <2>2 DEF PositionsKnown, positions
  <2> HIDE DEF n
  <2>4. /\ FileToBe.written /\ FileToBe'.nPos = FileToBe.nPos + n
        /\ FileToBe'.nLen = Longer(FileToBe.nPos + n, FileToBe.nLen)
    BY <1>3, <2>2, <2>3, BlockPosition
  <2>5. FileToBe.nPos = nFakePos /\ FileToBe.nLen = nUriLen
    BY <2>1, <2>4 DEF PositionsKnown
  <2>6. QED BY <2>4, <2>5
<1>9. ASSUME NEW s \in Seeks, SetPosition(s) PROVE PositionsKnown'
  <2>1. cpc = "idle" /\ s.nOffset >= 0 /\ s.nOffset \in Int /\ s.eOrigin \in Origins
    BY <1>9, PipeAssumption DEF SetPosition, SeeksForward
  <2>2. CASE UNCHANGED <<positions, cpc, cInfo>> /\ FileToBe' = FileToBe
    BY <2>2 DEF PositionsKnown, positions
  <2>3. CASE /\ cpc' = "add" /\ cInfo' = SeekInfo(s) /\ MovePosition(FakeTarget(s))
             /\ FileToBe' = SeekTo(FileToBe, s.nOffset, s.eOrigin)
    <3> DEFINE target == Target(FileToBe, s.nOffset, s.eOrigin)
    <3>1. cInfo'.nLen = 0
      BY <2>3 DEF SeekInfo
    <3>2. SUFFICES ASSUME FileToBe'.written
                   PROVE  FileToBe'.nPos = nFakePos' /\ FileToBe'.nLen = nUriLen'
      BY <3>1 DEF PositionsKnown
    <3>3. FileToBe.written
      BY <2>3, <3>2, StaysCut
    <3>4. FileToBe.nPos = nFakePos /\ FileToBe.nLen = nUriLen /\ nFakePos >= 0
      BY <1>3, <2>1, <3>3 DEF PositionsKnown, Sound
    <3>5. target = FakeTarget(s)
      BY <2>1, <3>4 DEF Target, FakeTarget, Origins
    <3>6. target \in Int /\ target >= 0
      BY <1>4, <2>1, <3>4 DEF Target, Origins
    <3>7. IF target <= FileToBe.nLen
          THEN FileToBe'.nPos = target /\ FileToBe'.nLen = FileToBe.nLen
          ELSE FileToBe'.nPos = FileToBe.nPos /\ FileToBe'.nLen = target
      <4>1. LET g == SeekTo(FileToBe, s.nOffset, s.eOrigin)
                t == Target(FileToBe, s.nOffset, s.eOrigin)
            IN  /\ Sound(g)
                /\ t \in Int
                /\ g.written =>
                     /\ g.nLen >= FileToBe.nLen
                     /\ \A k \in 1..FileToBe.nLen : g.bytes[k] = FileToBe.bytes[k]
                     /\ \A k \in FileToBe.nLen + 1..g.nLen : g.bytes[k] = Zero
                     /\ IF t < 0 THEN g.nPos = FileToBe.nPos /\ g.nLen = FileToBe.nLen
                        ELSE IF t <= FileToBe.nLen THEN g.nPos = t /\ g.nLen = FileToBe.nLen
                        ELSE g.nPos = FileToBe.nPos /\ g.nLen = t
        <5> HIDE DEF target
        <5>1. QED BY <1>3, <2>1, <3>3, SeekSound
      <4>2. FileToBe'.written =>
              IF target < 0 THEN FileToBe'.nPos = FileToBe.nPos /\ FileToBe'.nLen = FileToBe.nLen
              ELSE IF target <= FileToBe.nLen
                   THEN FileToBe'.nPos = target /\ FileToBe'.nLen = FileToBe.nLen
              ELSE FileToBe'.nPos = FileToBe.nPos /\ FileToBe'.nLen = target
        BY <2>3, <4>1
      <4> HIDE DEF target
      <4>3. ~(target < 0)
        BY <3>6
      <4>4. QED BY <3>2, <4>2, <4>3
    <3> HIDE DEF target
    <3>8. MovePosition(target)
      BY <2>3, <3>5
    <3>9. CASE target <= nUriLen
      <4>1. ~(target > nUriLen)
        BY <1>4, <3>6, <3>9
      <4>2. nFakePos' = target /\ nUriLen' = nUriLen
        BY <3>8, <4>1 DEF MovePosition
      <4>3. QED BY <3>4, <3>7, <3>9, <4>2
    <3>10. CASE ~(target <= nUriLen)
      <4>1. target > nUriLen
        BY <1>4, <3>6, <3>10
      <4>2. nFakePos' = nFakePos /\ nUriLen' = target
        BY <3>8, <4>1 DEF MovePosition
      <4>3. QED BY <3>4, <3>7, <3>10, <4>2
    <3>11. QED BY <3>9, <3>10
  <2>4. QED BY <1>2, <1>9, <2>1, <2>2, <2>3, SetPositionCall
<1>10. CASE Close \/ AddInfo \/ ReallocateFails \/ Closed
  <2>1. FileToBe' = FileToBe
    BY <1>2, <1>10, OtherCalls
  <2>2. CASE AddInfo
    <3>1. cpc = "add" /\ cpc' # "add"
      BY <2>2 DEF AddInfo
    <3>2. CASE cInfo.nLen > 0
      <4>1. nFakePos' = nFakePos + cInfo.nLen /\ nUriLen' = Longer(nFakePos + cInfo.nLen, nUriLen)
        BY <2>2, <3>2 DEF AddInfo, Longer
      <4>2. QED BY <2>1, <3>1, <3>2, <4>1 DEF PositionsKnown
    <3>3. CASE ~(cInfo.nLen > 0)
      <4>1. UNCHANGED positions
        BY <2>2, <3>3 DEF AddInfo
      <4>2. QED BY <2>1, <3>1, <3>3, <4>1 DEF PositionsKnown, positions
    <3>4. QED BY <3>2, <3>3
  <2>3. CASE Close
    <3>1. cpc = "idle" /\ UNCHANGED positions /\ cInfo' = StopInfo
      BY <2>3 DEF Close
    <3>2. ~(cInfo'.nLen > 0)
      BY <3>1 DEF StopInfo, WriteInfo
    <3>3. QED BY <2>1, <3>1, <3>2 DEF PositionsKnown, positions
  <2>4. CASE ReallocateFails \/ Closed
    <3>1. cpc # "add" /\ cpc' # "add" /\ UNCHANGED positions
      BY <2>4 DEF ReallocateFails, Closed
    <3>2. QED BY <2>1, <3>1 DEF PositionsKnown, positions
  <2>5. QED BY <1>10, <2>2, <2>3, <2>4
<1>11. QED BY <1>5, <1>6, <1>7, <1>8, <1>9, <1>10 DEF Next, ClientStep

\* GetPosition, and the length that SetPosition compares with, are those of the
\* file to be, although nFakePos and nUriLen are computed without asking it.  A
\* SetPosition with a negative offset is queued as an entry that does nothing.
THEOREM PipePositionTrue == bWithinLimits /\ SeeksForward => (Spec => []PositionTrue)
<1>1. Init => PositionsKnown
  <2>1. SUFFICES ASSUME Init PROVE PositionsKnown
    OBVIOUS
  <2>2. FileToBe = EmptyFile
    BY <2>1, InitFile
  <2>3. cpc = "idle" /\ nFakePos = 0 /\ nUriLen = 0
    BY <2>1 DEF Init
  <2>4. QED BY <2>2, <2>3 DEF PositionsKnown, EmptyFile
<1>2. ASSUME bWithinLimits /\ SeeksForward
      PROVE  FileInv /\ PositionsKnown /\ [Next]_vars => PositionsKnown'
  BY <1>2, PositionsNext
<1>3. bWithinLimits /\ SeeksForward => [](bWithinLimits /\ SeeksForward)
  <2>1. bWithinLimits /\ SeeksForward => (bWithinLimits /\ SeeksForward)'
    BY DEF SeeksForward
  <2>2. QED BY <2>1, PTL
<1>4. PositionsKnown => PositionTrue
  BY DEF PositionsKnown, PositionTrue
<1>5. QED BY <1>1, <1>2, <1>3, <1>4, FileInductive, PTL DEF Spec
=============================================================================
