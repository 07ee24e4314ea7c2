---------------------------- MODULE DictService ----------------------------
(***************************************************************************)
(* What dict.h promises of a search, without slots and rows: while it runs *)
(* the earlier answer is no longer valid, and it returns the first entries *)
(* of the full answer, none of them when the database cannot be used.      *)
(***************************************************************************)
EXTENDS Naturals, Sequences

CONSTANTS Question, Full(_)     \* Full(q): the capped list of entries for q

VARIABLES asked, valid, answer
vars == <<asked, valid, answer>>

Init == asked \in Question /\ valid = TRUE /\ answer = <<>>

Ask ==
  /\ valid
  /\ asked' \in Question
  /\ valid' \in BOOLEAN     \* TRUE: the search has failed at once
  /\ answer' = <<>>

Reply ==
  /\ ~valid /\ valid' = TRUE
  /\ \E k \in 0..Len(Full(asked)) : answer' = SubSeq(Full(asked), 1, k)
  /\ UNCHANGED asked

Next == Ask \/ Reply

Spec == Init /\ [][Next]_vars
=============================================================================
