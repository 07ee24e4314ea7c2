------------------------------ MODULE MCRomaji ------------------------------
(* Every string of up to MaxLen bytes over a small alphabet, in buffers of  *)
(* sizes from none to one that always suffices.                             *)
EXTENDS Romaji, RomajiTable

CONSTANTS MaxLen, Alphabet

MCSource == UNION {[1..n -> Alphabet] : n \in 0..MaxLen}
=============================================================================
