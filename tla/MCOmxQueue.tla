----------------------------- MODULE MCOmxQueue ------------------------------
(* An instance of OmxQueue for TLC. *)
EXTENDS OmxQueue

\* The indexes used with Get(nIndex) and Access.
MCIndexes == {2, 3}
MCPeeks == {2}
=============================================================================
