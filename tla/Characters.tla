----------------------------- MODULE Characters -----------------------------
(* UTF-8 text of characters of one to four bytes, as dict.db stores it.     *)
EXTENDS Integers, Sequences

\* How many bytes complete the character that b begins.
Continuing(b) ==
  CASE b \in 240..247 -> 3
    [] b \in 224..239 -> 2
    [] b \in 192..223 -> 1
    [] OTHER -> 0

\* If the byte at k begins a character, the bytes that complete it follow.
WholeAt(s, k) == \A j \in 1..Continuing(s[k]) : k + j <= Len(s) /\ s[k + j] \in 128..191

\* No character of s is cut.
Whole(s) == \A k \in 1..Len(s) : WholeAt(s, k)
=============================================================================
