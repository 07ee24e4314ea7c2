----------------------------- MODULE ResultList -----------------------------
(***************************************************************************)
(* What the middle of the screen promises, without the dictionary's        *)
(* buffers: a list of at most Capacity results, a cursor in it, and Rows   *)
(* rows that always show the list from the cursor on.                      *)
(***************************************************************************)
EXTENDS Integers, Sequences

CONSTANTS Item, Capacity, Rows, Empty, Dark

VARIABLES lit, results, cursor, rows, counter
vars == <<lit, results, cursor, rows, counter>>

Paint ==
  /\ rows' = [r \in 0..(Rows - 1) |-> IF cursor' + r < Len(results')
                                      THEN results'[cursor' + r + 1] ELSE Empty]
  /\ counter' = <<cursor' + 1, Len(results')>>

Init ==
  /\ lit = FALSE
  /\ results = <<>>
  /\ cursor = 0
  /\ rows = [r \in 0..(Rows - 1) |-> Dark]
  /\ counter = Dark

SwitchOn == ~lit /\ lit' = TRUE /\ UNCHANGED <<results, cursor>> /\ Paint

\* A search replaces the list and returns to its head.
Search ==
  /\ lit
  /\ \E n \in 0..Capacity : results' \in [1..n -> Item]
  /\ cursor' = 0
  /\ Paint
  /\ UNCHANGED lit

MoveUp   == lit /\ cursor > 0 /\ cursor' = cursor - 1 /\ UNCHANGED <<lit, results>> /\ Paint
MoveDown == /\ lit /\ cursor + 1 < Len(results)
            /\ cursor' = cursor + 1 /\ UNCHANGED <<lit, results>> /\ Paint

Next == SwitchOn \/ Search \/ MoveUp \/ MoveDown

Spec == Init /\ [][Next]_vars
=============================================================================
