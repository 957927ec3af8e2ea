----------------------------- MODULE SharedFdPipe ------------------------------
(***************************************************************************)
(* content_pipe/shared_fd_pipe/SharedFdPipe.cpp, opened for writing: the   *)
(* file that recordings go to.  A file is a record; Write and SetPosition  *)
(* are functions from a file to a file.  Offsets count from nBeginPoint.   *)
(*                                                                         *)
(* A write past the end of the device is cut; one that writes nothing      *)
(* returns -1, which the code adds to nPos (or nLen) like any other count. *)
(***************************************************************************)
EXTENDS Integers, Sequences

CONSTANT Space  \* the bytes the device has room for

ASSUME SpaceAssumption == Space \in Nat \ {0}

Zero == <<0, 0>>        \* the byte the file is extended with

\* Written is not in the code: it says that no write has been cut so far.
EmptyFile == [bytes |-> <<>>, nPos |-> 0, nLen |-> 0, written |-> TRUE]

\* write(2): how many of n bytes fit at an offset, -1 if none does.
ActualWritten(at, n) == IF at + n <= Space THEN n
                        ELSE IF at < Space THEN Space - at ELSE -1

Overwrite(bytes, at, data, n) ==
    IF n <= 0 THEN bytes
    ELSE SubSeq(bytes, 1, at) \o SubSeq(data, 1, n)
         \o SubSeq(bytes, at + n + 1, Len(bytes))

WriteTo(file, data) ==
    LET n == ActualWritten(file.nPos, Len(data))
    IN  [bytes |-> Overwrite(file.bytes, file.nPos, data, n),
         nPos |-> file.nPos + n,
         nLen |-> IF file.nPos + n > file.nLen THEN file.nPos + n ELSE file.nLen,
         written |-> file.written /\ n = Len(data)]

Target(file, nOffset, eOrigin) ==
    CASE eOrigin = "Begin" -> nOffset
      [] eOrigin = "Cur" -> file.nPos + nOffset
      [] eOrigin = "End" -> file.nLen + nOffset

\* The position itself does not follow when the file is extended.
SeekTo(file, nOffset, eOrigin) ==
    LET target == Target(file, nOffset, eOrigin)
        need == target - file.nLen
        n == ActualWritten(file.nLen, need)
    IN  IF target < 0 THEN file
        ELSE IF need <= 0
        THEN [bytes |-> file.bytes, nPos |-> target, nLen |-> file.nLen,
              written |-> file.written]
        ELSE [bytes |-> Overwrite(file.bytes, file.nLen, [k \in 1..need |-> Zero], n),
              nPos |-> file.nPos, nLen |-> file.nLen + n,
              written |-> file.written /\ n = need]

\* SetPosition returns KD_ENOSPC.
SeekLacksSpace(file, nOffset, eOrigin) ==
    LET need == Target(file, nOffset, eOrigin) - file.nLen
    IN  need > 0 /\ ActualWritten(file.nLen, need) < need
=============================================================================
