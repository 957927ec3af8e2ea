---------------------------- MODULE MCStreamReader -----------------------------
(* Instances of StreamReader for TLC. *)
EXTENDS StreamReader

\* Servers that seek, or both kinds; localhost or not.
MCBoth == BOOLEAN
MCSeeks == {TRUE}
MCRemote == {FALSE}
=============================================================================
