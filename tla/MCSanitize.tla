----------------------------- MODULE MCSanitize -----------------------------
(* Every string of up to MaxLen bytes over brackets, blanks and a letter.   *)
EXTENDS Sanitize

CONSTANTS MaxLen, Alphabet

MCSource == UNION {[1..k -> Alphabet] : k \in 0..MaxLen}
=============================================================================
