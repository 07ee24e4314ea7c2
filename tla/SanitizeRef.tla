---------------------------- MODULE SanitizeRef ----------------------------
(***************************************************************************)
(* copy_field_sanitize as a function of its input, for the modules that    *)
(* only need its result.  Module Sanitize computes it (MatchesReference).  *)
(***************************************************************************)
EXTENDS Integers, Sequences

IsBlank(b) == b \in {9, 32}

\* The end of the tag that begins at k, with its blanks; k - 1 if none does.
TagEnd(s, k) ==
  LET ends == {e \in k..Len(s) : s[e] = 93}
      first == CHOOSE e \in ends : \A other \in ends : e <= other
  IN  IF s[k] # 91 \/ ends = {} THEN k - 1
      ELSE CHOOSE q \in first..Len(s) :
             /\ \A x \in (first + 1)..q : IsBlank(s[x])
             /\ q = Len(s) \/ ~IsBlank(s[q + 1])

\* For every position of s, what follows it without its tags.
UntaggedFrom(s) ==
  LET rest[k \in 1..(Len(s) + 1)] ==
        IF k > Len(s) THEN <<>>
        ELSE IF TagEnd(s, k) >= k THEN rest[TagEnd(s, k) + 1]
        ELSE <<s[k]>> \o rest[k + 1]
  IN  rest

Untagged(s) == UntaggedFrom(s)[1]

\* s up to its last byte that is not white space.
TrimmedRight(s) ==
  LET solid == {k \in DOMAIN s : s[k] \notin {9, 10, 32}}
  IN  IF solid = {} THEN <<>>
      ELSE SubSeq(s, 1, CHOOSE k \in solid : \A other \in solid : other <= k)

Sanitized(s, size) ==
  LET u == Untagged(s)
  IN  TrimmedRight(SubSeq(u, 1, IF Len(u) < size - 1 THEN Len(u) ELSE size - 1))
=============================================================================
