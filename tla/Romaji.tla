------------------------------- MODULE Romaji -------------------------------
(***************************************************************************)
(* romaji_to_kana(src, dst, dst_size) of graphics/lvgl/rust/romaji.rs: one *)
(* call, one step per pass of to_kana's loop.  src is a C string, dst the  *)
(* caller's buffer with whatever an earlier call left in it.               *)
(***************************************************************************)
EXTENDS RomajiRef

CONSTANTS
  Source,   \* the strings src can be
  Sizes,    \* the values of dst_size
  Junk      \* bytes the buffer can be filled with before the call

VARIABLES src, dst_size, dst, pos, i, pc
vars == <<src, dst_size, dst, pos, i, pc>>

Char == 1..255

\* UTF-8 of one- and three-byte characters, none of them cut.
IsLead(b) == b \in 224..239
IsCont(b) == b \in 128..191
WellFormed(s) ==
  \A k \in DOMAIN s :
    /\ s[k] \in 0..127 \/ IsLead(s[k]) \/ IsCont(s[k])
    /\ IsLead(s[k]) => /\ k + 2 \in DOMAIN s
                       /\ IsCont(s[k + 1]) /\ IsCont(s[k + 2])
    /\ IsCont(s[k]) => \/ k > 1 /\ IsLead(s[k - 1])
                       \/ k > 2 /\ IsLead(s[k - 2]) /\ IsCont(s[k - 1])

ASSUME TableAssumption ==
  \A e \in TABLE : /\ e[1] \in Seq(97..122)
                   /\ e[2] \in Seq(Char)
                   /\ Len(e[1]) \in 1..3
                   /\ WellFormed(e[2])
                   /\ Len(e[2]) <= 3 * Len(e[1])

\* No key is listed twice, so it does not matter that the search stops at the
\* first entry it finds.
ASSUME KeyAssumption == \A e, f \in TABLE : e[1] = f[1] => e = f

ASSUME InputAssumption ==
  /\ Source \subseteq Seq(Char)
  /\ Sizes \subseteq Nat
  /\ Junk \subseteq 0..255

-----------------------------------------------------------------------------
Init ==
  /\ src \in Source
  /\ dst_size \in Sizes
  /\ \E b \in Junk : dst = [k \in 0..(dst_size - 1) |-> b]
  /\ pos = 0
  /\ i = 0
  /\ pc = "call"

\* The size is checked, and an empty string is stored.  (The callers pass arrays:
\* the checks for null pointers are left out.)
Start ==
  /\ pc = "call"
  /\ IF dst_size = 0 THEN pc' = "failed" /\ UNCHANGED dst
                     ELSE pc' = "loop" /\ dst' = [dst EXCEPT ![0] = 0]
  /\ UNCHANGED <<src, dst_size, pos, i>>

-----------------------------------------------------------------------------
to_ascii_lowercase(c) == IF c \in 65..90 THEN c + 32 ELSE c

\* Mutant: n is taken for a consonant that can be doubled.
is_vowel(c) == c \in {97, 101, 105, 111, 117}

is_vowel_or_n(c) == c \in {97, 101, 105, 110, 111, 117}

Sokuon == <<227, 129, 163>>     \* the small tsu

\* Byte i + k of src, lowered (src is indexed from 1).
low(k) == to_ascii_lowercase(src[i + k + 1])

Doubled == ~is_vowel_or_n(low(0)) /\ i + 1 < Len(src) /\ low(1) = low(0)

\* The entries whose key is the text at i.
KeyAt(take) == [x \in 1..take |-> low(x - 1)]
Matches == {e \in TABLE : /\ i + Len(e[1]) <= Len(src)
                          /\ e[1] = KeyAt(Len(e[1]))}

\* Mutant: the NUL is forgotten.
FitsWithoutNul(len) == pos + len <= dst_size

\* Mutant: a byte too much is asked for.
FitsTooStrict(len) == pos + len + 1 < dst_size

\* There is room for len bytes and a NUL.
Fits(len) == pos + len + 1 <= dst_size

\* The buffer after s and a NUL are stored at pos.
Stored(s) == [k \in DOMAIN dst |-> IF k - pos \in 0..(Len(s) - 1) THEN s[k - pos + 1]
                                   ELSE IF k = pos + Len(s) THEN 0 ELSE dst[k]]

\* Mutant: as much of a kana as fits is stored.
KeepPart(s) == dst' = Stored(SubSeq(s, 1, dst_size - 1 - pos)) /\ pos' = dst_size - 1
KeepNone(s) == UNCHANGED <<dst, pos>>

\* Store s and consume take bytes of src, or give up with the buffer as it is.
append(s, take) ==
  /\ IF Fits(Len(s))
     THEN dst' = Stored(s) /\ pos' = pos + Len(s) /\ i' = i + take /\ pc' = "loop"
     ELSE pc' = "failed" /\ KeepNone(s) /\ UNCHANGED i
  /\ UNCHANGED <<src, dst_size>>

-----------------------------------------------------------------------------
InLoop == pc = "loop" /\ i < Len(src)

\* Mutant: src is advanced by the length of the kana.
PutSokuonSkips == InLoop /\ Doubled /\ append(Sokuon, Len(Sokuon))

\* A doubled consonant: its first half becomes a small tsu.
PutSokuon == InLoop /\ Doubled /\ append(Sokuon, 1)

\* Mutant: the shortest key is tried first.
ShortestFirst(e, m) == \A f \in m : Len(f[1]) >= Len(e[1])
LongestFirst(e, m) == \A f \in m : Len(f[1]) <= Len(e[1])

\* The longest key at i (the keys have 1 to 3 bytes; 3 is tried first).
PutSyllable ==
  /\ InLoop /\ ~Doubled
  /\ LET m == Matches
     IN  \E e \in m : LongestFirst(e, m) /\ append(e[2], Len(e[1]))

\* No key: the byte itself, in its own case.
PassThrough == InLoop /\ ~Doubled /\ Matches = {} /\ append(<<src[i + 1]>>, 1)

\* Mutant: the loop runs while i <= n.
BehindEnd == i > Len(src)
AtEnd == i >= Len(src)

Return ==
  /\ pc = "loop" /\ AtEnd
  /\ pc' = "ok"
  /\ UNCHANGED <<src, dst_size, dst, pos, i>>

to_kana == PutSokuon \/ PutSyllable \/ PassThrough \/ Return

Next == Start \/ to_kana

\* The call is not suspended for ever.
Spec == Init /\ [][Next]_vars /\ WF_vars(Next)

-----------------------------------------------------------------------------
(* Properties. *)

TypeOK ==
  /\ src \in Source
  /\ dst_size \in Sizes
  /\ dst \in [0..(dst_size - 1) -> 0..255]
  /\ pos \in Nat
  /\ i \in 0..Len(src)
  /\ pc \in {"call", "loop", "ok", "failed"}

\* Once the call has begun, dst holds a C string of exactly pos bytes whose
\* NUL is inside the buffer: after every pass, and also when -1 is returned
\* (poll_keyboard ignores that -1 and goes on to use the buffer).
StringInBuffer ==
  (pc # "call" /\ dst_size > 0) =>
    /\ pos < dst_size
    /\ dst[pos] = 0
    /\ \A k \in 0..(pos - 1) : dst[k] # 0

\* No syllable grows by more than a factor of three, so a buffer with room for
\* three bytes per byte of src never makes the conversion fail: 170 letters
\* always fit furigana_word[512].
FitsBuffer == 3 * Len(src) < dst_size => pc # "failed"

\* What has been stored so far.
Written == [k \in 1..pos |-> dst[k - 1]]

\* For typed (ASCII) input dst is valid text after every pass: append stores a
\* kana whole or not at all, so even the prefix left by a -1 has no cut kana.
WholeCharacters == (\A k \in DOMAIN src : src[k] < 128) => WellFormed(Written)

\* The machine stores the units of the reference conversion in order: all of
\* them when it returns a length, and when it returns -1 those that fit.  This
\* ties romaji_to_kana to the Kana operator the user-interface model uses.
MatchesReference ==
  (pc \in {"ok", "failed"} /\ dst_size > 0) => Written = KanaWithin(src, dst_size - 1)

\* The conversion always comes to an end, whatever the input.
Termination == <>(pc \in {"ok", "failed"})
=============================================================================
