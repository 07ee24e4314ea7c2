---------------------------- MODULE KatakanaRef ----------------------------
(* romaji__hira_to_kata of the C version, as a function of its string.      *)
EXTENDS RomajiTable, Integers

CodeAt(s, k) == (s[k] % 16) * 4096 + (s[k + 1] % 64) * 64 + (s[k + 2] % 64)

\* The last byte of the character at k, which a string of whole characters has.
CharEnd(s, k) ==
  LET take == IF s[k] < 128 THEN 1
              ELSE IF s[k] \in 192..223 THEN 2 ELSE IF s[k] \in 224..239 THEN 3 ELSE 4
  IN  IF k + take <= Len(s) THEN k + take - 1 ELSE Len(s)

\* The character at k, shifted to the katakana block if it is hiragana.
KataAt(s, k) ==
  IF s[k] \in 224..239 /\ CodeAt(s, k) \in \h3041..\h3096 THEN Utf8(CodeAt(s, k) + 96)
  ELSE SubSeq(s, k, CharEnd(s, k))

\* For every position of s, what its characters from there on become.
KataFrom(s) ==
  LET rest[k \in 1..(Len(s) + 1)] ==
        IF k > Len(s) THEN <<>> ELSE KataAt(s, k) \o rest[CharEnd(s, k) + 1]
  IN  rest

KataOf(s) == KataFrom(s)[1]
=============================================================================
