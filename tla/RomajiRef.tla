----------------------------- MODULE RomajiRef -----------------------------
(***************************************************************************)
(* romaji_to_kana of the C version, Dictionary_Resources/romaji.c, as a    *)
(* function of its input: the reference for romaji.rs, which replaces it,  *)
(* and for the modules that only need the result.                          *)
(***************************************************************************)
EXTENDS Integers, Sequences

CONSTANT TABLE    \* the <<romaji, UTF-8 kana>> entries (module RomajiTable has them)

LowerCase(s) == [k \in DOMAIN s |-> IF s[k] \in 65..90 THEN s[k] + 32 ELSE s[k]]

SmallTsu == <<227, 129, 163>>

\* The entries whose key stands at k in s.
Candidates(s, k) == {e \in TABLE : /\ k + Len(e[1]) <= Len(s) + 1
                                   /\ \A x \in DOMAIN e[1] : LowerCase(s)[k + x - 1] = e[1][x]}

\* The unit that begins at k: what it is written as, and how many bytes it takes.
UnitAt(s, k) ==
  LET c == LowerCase(s)[k]
      keys == Candidates(s, k)
      longest == CHOOSE e \in keys : \A other \in keys : Len(other[1]) <= Len(e[1])
  IN  IF /\ c \notin {97, 105, 117, 101, 111, 110}
         /\ k < Len(s) /\ LowerCase(s)[k + 1] = c
      THEN [out |-> SmallTsu, take |-> 1]
      ELSE IF keys = {}
      THEN [out |-> <<s[k]>>, take |-> 1]
      ELSE [out |-> longest[2], take |-> Len(longest[1])]

\* For every position of s and every room r of up to room bytes, the units from
\* there on, as many as fit in r bytes.
KanaFrom(s, room) ==
  LET rest[k \in 1..(Len(s) + 1)] ==
        [r \in 0..room |->
           IF k > Len(s) THEN <<>>
           ELSE LET u == UnitAt(s, k)
                IN  IF Len(u.out) > r THEN <<>>
                    ELSE u.out \o rest[k + u.take][r - Len(u.out)]]
  IN  rest

KanaWithin(s, room) == KanaFrom(s, room)[1][room]
=============================================================================
