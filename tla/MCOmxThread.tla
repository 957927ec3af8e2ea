---------------------------- MODULE MCOmxThread ------------------------------
(* OmxThread for TLC: the cfg gives the constants their values. *)
EXTENDS OmxThread
=============================================================================
