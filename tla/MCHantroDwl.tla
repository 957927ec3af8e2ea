----------------------------- MODULE MCHantroDwl -----------------------------
(* A decoder, one with the post-processor, one whose format the core lacks, *)
(* and a post-processor of its own.                                         *)
EXTENDS HantroDwl

CONSTANTS d, p, x, q

MCFiles == {d, p, x, q}
MCSupported == MCFiles \ {x}
MCTypes == [c \in MCFiles |-> CASE c = p -> "pipe" [] c = q -> "pp" [] OTHER -> "dec"]
=============================================================================
