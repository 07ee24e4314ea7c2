------------------------------ MODULE Sanitize ------------------------------
(***************************************************************************)
(* copy_field_sanitize(dst, dst_size, src) of dict.c: copies a senses      *)
(* column without its [...] parts and without trailing white space, one    *)
(* step per pass of its two loops.  out is dst[0..out-1].                  *)
(***************************************************************************)
EXTENDS SanitizeRef

CONSTANTS Source, Sizes     \* the strings src can be, the values of dst_size

VARIABLES src, dst_size, p, out, pc
vars == <<src, dst_size, p, out, pc>>

Char == 1..255
SP == 32
TAB == 9
NL == 10
LB == 91    \* [
RB == 93    \* ]

ASSUME InputAssumption == Source \subseteq Seq(Char) /\ Sizes \subseteq Nat \ {0}

\* p is the number of bytes of src read so far.
Init ==
  /\ src \in Source
  /\ dst_size \in Sizes
  /\ p = 0
  /\ out = <<>>
  /\ pc = "copy"

\* Mutant: no byte is kept for the NUL.
CopyingToTheEnd == pc = "copy" /\ p < Len(src) /\ Len(out) < dst_size

Copying == pc = "copy" /\ p < Len(src) /\ Len(out) < dst_size - 1

\* Where strchr(p, ']') can point to.
Closers == {e \in (p + 1)..Len(src) : src[e] = RB}
\* Mutant: only a tag at the beginning is a tag.
AtFirstBracket == p = 0 /\ src[p + 1] = LB /\ Closers # {}

AtBracket == src[p + 1] = LB /\ Closers # {}

\* Mutant: line ends are skipped too.
AfterWhiteSpace(e, q) ==
  /\ \A k \in (e + 1)..q : src[k] \in {SP, TAB, NL}
  /\ q < Len(src) => src[q + 1] \notin {SP, TAB, NL}

\* On to the byte behind the first ']' and the blanks that follow it.
AfterBlanks(e, q) ==
  /\ \A k \in (e + 1)..q : src[k] \in {SP, TAB}
  /\ q < Len(src) => src[q + 1] \notin {SP, TAB}

SkipBracket ==
  /\ Copying /\ AtBracket
  /\ \E e \in Closers : /\ \A other \in Closers : e <= other
                        /\ \E q \in e..Len(src) : AfterBlanks(e, q) /\ p' = q
  /\ UNCHANGED <<src, dst_size, out, pc>>

CopyByte ==
  /\ Copying /\ ~AtBracket
  /\ out' = Append(out, src[p + 1])
  /\ p' = p + 1
  /\ UNCHANGED <<src, dst_size, pc>>

\* Mutant: a copy that was cut short is not trimmed.
AfterCutCopy == IF p < Len(src) THEN "done" ELSE "trim"
AfterCopy == "trim"

EndCopy ==
  /\ pc = "copy" /\ ~Copying
  /\ pc' = AfterCopy
  /\ UNCHANGED <<src, dst_size, p, out>>

TrailingBlank == out # <<>> /\ out[Len(out)] \in {SP, TAB, NL}

\* Mutant: out is not counted down.
SameOut == out
ShorterOut == SubSeq(out, 1, Len(out) - 1)

TrimByte ==
  /\ pc = "trim" /\ TrailingBlank
  /\ out' = ShorterOut
  /\ UNCHANGED <<src, dst_size, p, pc>>

\* dst[out] = '\0'.
Return ==
  /\ pc = "trim" /\ ~TrailingBlank
  /\ pc' = "done"
  /\ UNCHANGED <<src, dst_size, p, out>>

Next == SkipBracket \/ CopyByte \/ EndCopy \/ TrimByte \/ Return
Spec == Init /\ [][Next]_vars /\ WF_vars(Next)

-----------------------------------------------------------------------------
(* Properties. *)

\* p stays in src or at its NUL, and every byte stored, with the NUL behind it,
\* has its place in dst.
TypeOK ==
  /\ src \in Source
  /\ dst_size \in Sizes
  /\ p \in 0..Len(src)
  /\ out \in Seq(Char)
  /\ Len(out) <= dst_size - 1
  /\ pc \in {"copy", "trim", "done"}

\* No tag is shown: no '[' of the output has a ']' behind it.  Nested brackets
\* can leave a ']' and an unclosed one its '[', but never a pair.
NoTagLeft == ~ \E j, k \in DOMAIN out : j < k /\ out[j] = LB /\ out[k] = RB

\* The two loops compute the reference: the text without its tags, cut to the
\* buffer, without trailing white space.  Stopping the copy at the size of the
\* buffer and cutting afterwards are the same although tags are skipped.
MatchesReference == pc = "done" => out = Sanitized(src, dst_size)

\* The output is clean for good: filtering it again takes nothing more away.
\* Neither a cut nor a removed tag makes a new tag or leaves a blank at the
\* end of what a search shows.
Idempotent == pc = "done" => Sanitized(out, dst_size) = out

\* Both loops end on every input.
Termination == <>(pc = "done")
=============================================================================
