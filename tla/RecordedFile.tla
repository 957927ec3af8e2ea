----------------------------- MODULE RecordedFile ------------------------------
(***************************************************************************)
(* What a muxer expects of the content pipe it records to                  *)
(* (ghdr/OMX_ContentPipe.h, Write and SetPosition): a file on which every  *)
(* call takes effect at once.  Once the device is full nothing more is     *)
(* promised.                                                               *)
(***************************************************************************)
EXTENDS SharedFdPipe

CONSTANTS
    Blocks,     \* the data of the Write calls
    Seeks       \* the arguments of the SetPosition calls

VARIABLE file

Init == file = EmptyFile

\* What a Write or a SetPosition makes of a file.
Written(was) == {WriteTo(was, data) : data \in Blocks}
Positioned(was) == {SeekTo(was, s.nOffset, s.eOrigin) : s \in Seeks}

DeviceFull == ~file.written /\ ~file'.written

Next == file' \in Written(file) \/ file' \in Positioned(file) \/ DeviceFull

Spec == Init /\ [][Next]_file
=============================================================================
