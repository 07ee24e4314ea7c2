--------------------------- MODULE SanitizeProofs ---------------------------
(***************************************************************************)
(* Theorems about module Sanitize, for every string and every size of dst. *)
(***************************************************************************)
EXTENDS Sanitize, Lemmas

-----------------------------------------------------------------------------
(* Type correctness: the bounds of both arrays. *)

\* The first closing bracket and the blanks behind it are in src.
LEMMA TypeSkip == TypeOK /\ SkipBracket => TypeOK'
<1> SUFFICES ASSUME TypeOK, SkipBracket PROVE TypeOK'
  OBVIOUS
<1>1. src \in Seq(Char) /\ Len(src) \in Nat
  BY InputAssumption DEF TypeOK
<1>2. PICK e \in Closers : \E q \in e..Len(src) : p' = q
  BY DEF SkipBracket
<1>3. p' \in 0..Len(src)
  BY <1>1, <1>2 DEF Closers, TypeOK
<1> QED BY <1>3 DEF SkipBracket, TypeOK

\* A byte is copied only while there is room for it and for the NUL.
LEMMA TypeCopy == TypeOK /\ CopyByte => TypeOK'
<1> SUFFICES ASSUME TypeOK, CopyByte PROVE TypeOK'
  OBVIOUS
<1>1. src \in Seq(Char) /\ Len(src) \in Nat /\ dst_size \in Nat
  BY InputAssumption DEF TypeOK
<1>2. p + 1 \in 1..Len(src) /\ Len(out) < dst_size - 1
  BY <1>1 DEF CopyByte, Copying, TypeOK
<1>3. src[p + 1] \in Char
  BY <1>1, <1>2
<1>4. out' \in Seq(Char) /\ Len(out') = Len(out) + 1
  BY <1>3 DEF CopyByte, TypeOK
<1> QED BY <1>1, <1>2, <1>4 DEF CopyByte, TypeOK

\* Trimming takes the last byte off.
LEMMA Trimmed ==
  ASSUME TypeOK, TrimByte
  PROVE  /\ out' \in Seq(Char) /\ Len(out') = Len(out) - 1 /\ Len(out) \in Nat \ {0}
         /\ \A k \in 1..Len(out') : out'[k] = out[k]
<1>1. out \in Seq(Char) /\ out # <<>> /\ out' = SubSeq(out, 1, Len(out) - 1)
  BY DEF TypeOK, TrimByte, TrailingBlank, ShorterOut
<1>2. Len(out) \in Nat \ {0}
  BY <1>1
<1> DEFINE m == Len(out) - 1
<1>3. m \in Nat /\ m <= Len(out)
  BY <1>2
<1> HIDE DEF m
<1>4. /\ SubSeq(out, 1, m) \in Seq(Char) /\ Len(SubSeq(out, 1, m)) = m
      /\ \A k \in 1..m : SubSeq(out, 1, m)[k] = out[k]
  BY <1>1, <1>3
<1> QED BY <1>1, <1>2, <1>4 DEF m

\* TypeOK is inductive.
LEMMA TypeNext == TypeOK /\ [Next]_vars => TypeOK'
<1> SUFFICES ASSUME TypeOK, [Next]_vars PROVE TypeOK'
  OBVIOUS
<1>1. CASE SkipBracket
  BY <1>1, TypeSkip
<1>2. CASE CopyByte
  BY <1>2, TypeCopy
<1>3. CASE EndCopy
  BY <1>3 DEF EndCopy, AfterCopy, TypeOK
<1>4. CASE TrimByte
  <2>1. Len(out') <= dst_size - 1
    BY <1>4, Trimmed, InputAssumption DEF TypeOK, TrimByte
  <2> QED BY <1>4, <2>1, Trimmed DEF TypeOK, TrimByte
<1>5. CASE Return
  BY <1>5 DEF Return, TypeOK
<1>6. CASE UNCHANGED vars
  BY <1>6 DEF vars, TypeOK
<1> QED BY <1>1, <1>2, <1>3, <1>4, <1>5, <1>6 DEF Next

\* p stays in src, and every byte stored has its place in dst with the NUL
\* behind it.
THEOREM TypeCorrect == Spec => []TypeOK
<1>1. Init => TypeOK
  BY InputAssumption DEF Init, TypeOK
<1> QED BY <1>1, TypeNext, PTL DEF Spec

-----------------------------------------------------------------------------
(* No tag is left. *)

\* A '[' is only copied when no ']' is ahead, so none can follow it.
Unclosed ==
  (pc = "copy" /\ \E j \in DOMAIN out : out[j] = LB) => \A e \in (p + 1)..Len(src) : src[e] # RB

TagInv == TypeOK /\ NoTagLeft /\ Unclosed

\* Every step keeps it.
LEMMA TagNext == TagInv /\ [Next]_vars => TagInv'
<1> SUFFICES ASSUME TagInv, [Next]_vars PROVE NoTagLeft' /\ Unclosed'
  BY TypeNext DEF TagInv
<1> USE DEF TagInv
<1>0. Len(src) \in Nat /\ p \in 0..Len(src) /\ out \in Seq(Char)
  BY InputAssumption DEF TypeOK
<1>1. CASE SkipBracket
  <2>1. UNCHANGED <<src, out, pc>>
    BY <1>1 DEF SkipBracket
  <2>2. PICK e \in Closers : \E q \in e..Len(src) : p' = q
    BY <1>1 DEF SkipBracket
  <2>3. p' \in Nat /\ p \in Nat /\ p <= p'
    BY <2>2, <1>0 DEF Closers
  <2>4. \A x \in (p' + 1)..Len(src) : x \in (p + 1)..Len(src)
    <3> DEFINE b == p'
               l == Len(src)
    <3>1. l \in Nat /\ b \in Nat /\ p \in Nat /\ p <= b
      BY <1>0, <2>3
    <3> HIDE DEF b, l
    <3>2. \A x \in (b + 1)..l : x \in (p + 1)..l
      BY <3>1
    <3> QED BY <3>2 DEF b, l
  <2> QED BY <2>1, <2>4 DEF NoTagLeft, Unclosed
<1>2. CASE CopyByte
  <2> DEFINE c == src[p + 1]
             m == Len(out) + 1
  <2>1. /\ UNCHANGED <<src, pc>> /\ pc = "copy" /\ p' = p + 1 /\ out' = Append(out, c)
        /\ c = LB => Closers = {}
        /\ p < Len(src)
    BY <1>2 DEF CopyByte, Copying, AtBracket
  <2>2. DOMAIN out' = 1..m /\ out'[m] = c /\ \A k \in 1..Len(out) : out'[k] = out[k]
    BY <2>1, <1>0
  <2>3. DOMAIN out = 1..Len(out) /\ Len(out) \in Nat
    BY <1>0
  <2>4. p + 1 \in (p + 1)..Len(src)
    BY <2>1, <1>0
  <2>5. \A e \in (p' + 1)..Len(src) : e \in (p + 1)..Len(src)
    BY <2>1, <1>0
  <2> HIDE DEF c, m
  <2>6. c = LB => \A e \in (p + 1)..Len(src) : src[e] # RB
    BY <2>1 DEF Closers
  <2>7. NoTagLeft'
    <3> SUFFICES ASSUME NEW j \in 1..m, NEW k \in 1..m, j < k, out'[j] = LB, out'[k] = RB
                 PROVE  FALSE
      BY <2>2 DEF NoTagLeft
    <3>1. j \in DOMAIN out /\ out[j] = LB
      BY <2>2, <2>3 DEF m
    <3>2. CASE k = m
      <4>1. c = RB /\ src[p + 1] = RB
        BY <3>2, <2>2 DEF c
      <4> QED BY <4>1, <3>1, <2>1, <2>4 DEF Unclosed
    <3>3. CASE k # m
      <4>1. k \in DOMAIN out /\ out[k] = RB
        BY <3>3, <2>2, <2>3 DEF m
      <4> QED BY <4>1, <3>1 DEF NoTagLeft
    <3> QED BY <3>2, <3>3
  <2>8. Unclosed'
    <3> SUFFICES ASSUME NEW j \in 1..m, out'[j] = LB, NEW e \in (p' + 1)..Len(src)
                 PROVE  src[e] # RB
      BY <2>1, <2>2 DEF Unclosed
    <3>1. CASE j = m
      BY <3>1, <2>2, <2>5, <2>6
    <3>2. CASE j # m
      <4>1. j \in DOMAIN out /\ out[j] = LB
        BY <3>2, <2>2, <2>3 DEF m
      <4> QED BY <4>1, <2>1, <2>5 DEF Unclosed
    <3> QED BY <3>1, <3>2
  <2> QED BY <2>7, <2>8
<1>3. CASE EndCopy
  BY <1>3 DEF EndCopy, AfterCopy, NoTagLeft, Unclosed
<1>4. CASE TrimByte
  <2>1. \A k \in DOMAIN out' : k \in DOMAIN out /\ out'[k] = out[k]
    BY <1>4, Trimmed, <1>0
  <2>2. pc' = "trim"
    BY <1>4 DEF TrimByte
  <2> QED BY <2>1, <2>2 DEF NoTagLeft, Unclosed
<1>5. CASE Return
  BY <1>5 DEF Return, NoTagLeft, Unclosed
<1>6. CASE UNCHANGED vars
  BY <1>6 DEF vars, NoTagLeft, Unclosed
<1> QED BY <1>1, <1>2, <1>3, <1>4, <1>5, <1>6 DEF Next

\* No '[' of the output has a ']' behind it, whatever the brackets of the input.
THEOREM TagsRemoved == Spec => []NoTagLeft
<1>1. Init => TagInv
  BY InputAssumption DEF Init, TagInv, TypeOK, NoTagLeft, Unclosed
<1> QED BY <1>1, TagNext, PTL DEF Spec, TagInv

-----------------------------------------------------------------------------
(* Only a full buffer cuts a character. *)

\* What copy_field_sanitize leaves of whole text is whole unless it fills dst:
\* a tag is taken out and trailing blanks are taken off between characters.
\* This is what Dict assumes of sanitize.
CutOnlyWhenFull == (pc = "done" /\ Whole(src) /\ Len(out) < dst_size - 1) => Whole(out)

\* What is still to be read.
Rest == SubSeq(src, p + 1, Len(src))

\* While copying, the output and what is still to be read are whole together;
\* a copy that fills dst may end inside a character, but not behind a blank.
Uncut ==
  /\ pc = "copy" => Whole(out \o Rest)
  /\ pc = "trim" => Whole(out) \/ (Len(out) = dst_size - 1 /\ Whole(out \o Rest))
  /\ pc = "done" => Whole(out) \/ Len(out) = dst_size - 1

CutInv == TypeOK /\ (Whole(src) => Uncut)

\* The sequences at hand and their lengths.
LEMMA RestType ==
  ASSUME TypeOK
  PROVE  /\ src \in Seq(Char) /\ Len(src) \in Nat /\ p \in Nat /\ p <= Len(src)
         /\ out \in Seq(Char) /\ Len(out) \in Nat /\ dst_size \in Nat
         /\ Rest \in Seq(Char) /\ Len(Rest) = Len(src) - p
         /\ \A k \in 1..Len(Rest) : Rest[k] = src[p + k]
<1>1. /\ src \in Seq(Char) /\ Len(src) \in Nat /\ p \in Nat /\ p <= Len(src)
      /\ out \in Seq(Char) /\ Len(out) \in Nat /\ dst_size \in Nat
  BY InputAssumption DEF TypeOK
<1> QED BY <1>1 DEF Rest

\* Taking a tag out: '[' is a character of its own, and so is what stands in
\* front of the rest.
LEMMA CutSkip ==
  ASSUME TypeOK, Whole(src), Whole(out \o Rest), SkipBracket
  PROVE  Whole(out' \o Rest')
<1> DEFINE u == out \o Rest
           m == Len(out)
<1>1. src[p + 1] = LB /\ p < Len(src) /\ out' = out /\ src' = src
  BY DEF SkipBracket, AtBracket, Copying
<1>2. u \in Seq(Char) /\ m \in Nat /\ m < Len(u) /\ u[m + 1] = src[p + 1]
  <2>1. 1 \in 1..Len(Rest) /\ Rest[1] = src[p + 1]
    BY <1>1, RestType
  <2> QED BY <2>1, RestType
<1>3. u[m + 1] \in 0..127
  BY <1>1, <1>2 DEF LB
<1>4. SubSeq(u, 1, m) = out
  BY RestType
<1> HIDE DEF u, m
<1>5. Whole(out)
  BY <1>2, <1>3, <1>4, WholeCut DEF u
<1>6. TypeOK'
  BY TypeSkip
<1>7. p' \in 0..Len(src)
  BY <1>1, <1>6 DEF TypeOK
<1>8. Whole(Rest')
  BY <1>1, <1>7, RestType, WholeSuffix DEF Rest
<1>9. Rest' \in Seq(Char)
  BY <1>1, <1>7, RestType, SuffixType DEF Rest
<1> QED BY <1>1, <1>5, <1>8, <1>9, RestType, WholeConcat

\* A byte that is copied moves from the rest to the output.
LEMMA CutCopy ==
  ASSUME TypeOK, CopyByte
  PROVE  out' \o Rest' = out \o Rest
<1> DEFINE c == src[p + 1]
           m == Len(out)
           old == out \o Rest
           new == Append(out, c) \o Rest'
<1>1. p < Len(src) /\ out' = Append(out, c) /\ p' = p + 1 /\ src' = src
  BY DEF CopyByte, Copying
<1>2. /\ Rest' \in Seq(Char) /\ Len(Rest') = Len(src) - (p + 1)
      /\ \A k \in 1..(Len(src) - (p + 1)) : Rest'[k] = src[(p + 1) + k]
  <2>1. p + 1 \in 0..Len(src)
    BY <1>1, RestType
  <2>2. Rest' = SubSeq(src, (p + 1) + 1, Len(src))
    BY <1>1 DEF Rest
  <2> QED BY <2>1, <2>2, RestType, SuffixType
<1>3. c \in Char
  BY <1>1, RestType
<1>4. /\ Append(out, c) \in Seq(Char) /\ Len(Append(out, c)) = m + 1
      /\ Append(out, c)[m + 1] = c /\ \A k \in 1..m : Append(out, c)[k] = out[k]
  BY <1>3, RestType
<1> HIDE DEF c
<1>5. old \in Seq(Char) /\ Len(old) = m + (Len(src) - p)
  BY RestType
<1>6. new \in Seq(Char) /\ Len(new) = (m + 1) + (Len(src) - (p + 1))
  BY <1>2, <1>4
<1>7. Len(new) = Len(old)
  BY <1>5, <1>6, RestType
<1>8. ASSUME NEW k \in 1..Len(old) PROVE old[k] = new[k]
  <2>1. k \in Nat /\ m \in Nat /\ p \in Nat /\ Len(src) \in Nat
    BY RestType
  <2>2. CASE k <= m
    <3>1. old[k] = out[k]
      BY <2>1, <2>2, RestType
    <3>2. new[k] = Append(out, c)[k]
      BY <2>1, <2>2, <1>2, <1>4
    <3> QED BY <3>1, <3>2, <2>1, <2>2, <1>4
  <2>3. CASE k = m + 1
    <3>1. old[k] = Rest[1] /\ Rest[1] = c
      BY <2>1, <2>3, <1>1, RestType DEF c
    <3>2. new[k] = Append(out, c)[k]
      BY <2>1, <2>3, <1>2, <1>4
    <3> QED BY <3>1, <3>2, <2>3, <1>4
  <2>4. CASE k > m + 1
    <3>1. old[k] = Rest[k - m]
      BY <2>1, <2>4, <1>5, RestType
    <3>2. new[k] = Rest'[k - (m + 1)]
      BY <2>1, <2>4, <1>2, <1>4, <1>6, <1>7
    <3>3. k - m \in 1..Len(Rest) /\ k - (m + 1) \in 1..(Len(src) - (p + 1))
      BY <2>1, <2>4, <1>5, RestType
    <3>4. Rest[k - m] = src[p + (k - m)] /\ Rest'[k - (m + 1)] = src[(p + 1) + (k - (m + 1))]
      BY <3>3, <1>2, RestType
    <3>5. p + (k - m) = (p + 1) + (k - (m + 1))
      BY <2>1
    <3> QED BY <3>1, <3>2, <3>4, <3>5
  <2>5. k <= m \/ k = m + 1 \/ k > m + 1
    BY <2>1
  <2> QED BY <2>2, <2>3, <2>4, <2>5, Zenon
<1> HIDE DEF old, new
<1>9. old = new
  BY <1>5, <1>6, <1>7, <1>8, SameSequence
<1> QED BY <1>1, <1>9 DEF old, new

\* A blank that is taken off the end is a character of its own.
LEMMA CutTrim ==
  ASSUME TypeOK, TrimByte, NEW t \in Seq(Char), Whole(out \o t)
  PROVE  Whole(out')
<1> DEFINE u == out \o t
           m == Len(out) - 1
<1>1. out \in Seq(Char) /\ Len(out) \in Nat \ {0} /\ m \in Nat /\ out' = SubSeq(out, 1, m)
  BY Trimmed, RestType DEF TrimByte, ShorterOut
<1>2. u \in Seq(Char) /\ m < Len(u) /\ u[m + 1] = out[Len(out)]
  BY <1>1
<1>3. u[m + 1] \in 0..127
  BY <1>2 DEF TrimByte, TrailingBlank, SP, TAB, NL
<1>4. SubSeq(u, 1, m) = SubSeq(out, 1, m)
  BY <1>1
<1> HIDE DEF u, m
<1> QED BY <1>1, <1>2, <1>3, <1>4, WholeCut DEF u

\* Every step keeps the invariant.
LEMMA CutNext == CutInv /\ [Next]_vars => CutInv'
<1> SUFFICES ASSUME CutInv, [Next]_vars, Whole(src') PROVE Uncut'
  BY TypeNext DEF CutInv
<1>1. src' = src /\ dst_size' = dst_size
  BY DEF Next, SkipBracket, CopyByte, EndCopy, TrimByte, Return, vars
<1>2. TypeOK /\ Whole(src) /\ Uncut
  BY <1>1 DEF CutInv
<1>3. CASE SkipBracket
  <2>1. pc = "copy" /\ pc' = "copy"
    BY <1>3 DEF SkipBracket, Copying
  <2> QED BY <2>1, <1>2, <1>3, CutSkip DEF Uncut
<1>4. CASE CopyByte
  <2>1. pc = "copy" /\ pc' = "copy"
    BY <1>4 DEF CopyByte, Copying
  <2> QED BY <2>1, <1>2, <1>4, CutCopy DEF Uncut
<1>5. CASE EndCopy
  <2>1. /\ pc = "copy" /\ pc' = "trim" /\ UNCHANGED <<src, dst_size, p, out>>
        /\ ~(p < Len(src)) \/ ~(Len(out) < dst_size - 1)
    BY <1>5 DEF EndCopy, AfterCopy, Copying
  <2>2. Rest' = Rest
    BY <2>1 DEF Rest
  <2>3. Whole(out \o Rest)
    BY <2>1, <1>2 DEF Uncut
  <2>4. CASE ~(p < Len(src))
    <3>1. Len(Rest) = 0 /\ Rest \in Seq(Char)
      BY <2>4, <1>2, RestType
    <3>2. out \o Rest = out
      BY <3>1, <1>2, RestType
    <3> QED BY <3>2, <2>1, <2>3 DEF Uncut
  <2>5. CASE ~(Len(out) < dst_size - 1)
    <3>1. Len(out) = dst_size - 1
      BY <2>5, <1>2, RestType DEF TypeOK
    <3> QED BY <3>1, <2>1, <2>2, <2>3 DEF Uncut
  <2> QED BY <2>1, <2>4, <2>5
<1>6. CASE TrimByte
  <2>1. pc = "trim" /\ pc' = "trim"
    BY <1>6 DEF TrimByte
  <2>2. Whole(out \o <<>>) \/ Whole(out \o Rest)
    <3>1. out \o <<>> = out
      BY <1>2, RestType
    <3> QED BY <3>1, <2>1, <1>2 DEF Uncut
  <2>3. <<>> \in Seq(Char) /\ Rest \in Seq(Char)
    BY <1>2, RestType
  <2>4. Whole(out')
    BY <2>2, <2>3, <1>2, <1>6, CutTrim
  <2> QED BY <2>1, <2>4 DEF Uncut
<1>7. CASE Return
  BY <1>2, <1>7 DEF Return, Uncut
<1>8. CASE UNCHANGED vars
  BY <1>2, <1>8 DEF vars, Uncut, Rest
<1> QED BY <1>3, <1>4, <1>5, <1>6, <1>7, <1>8 DEF Next

\* Senses that do not fill detail[] are never cut inside a character, wherever
\* their tags and blanks are.
THEOREM CharactersSurvive == Spec => []CutOnlyWhenFull
<1>1. Init => CutInv
  <2> SUFFICES ASSUME Init, Whole(src) PROVE TypeOK /\ Uncut
    BY InputAssumption DEF Init, CutInv, TypeOK
  <2>1. TypeOK
    BY InputAssumption DEF Init, TypeOK
  <2>2. out \o Rest = src
    <3>1. Rest = src
      BY <2>1, RestType DEF Init, Rest
    <3> QED BY <2>1, <3>1, RestType DEF Init
  <2> QED BY <2>1, <2>2 DEF Init, Uncut
<1>2. CutInv => CutOnlyWhenFull
  BY RestType DEF CutInv, Uncut, CutOnlyWhenFull
<1> QED BY <1>1, <1>2, CutNext, PTL DEF Spec

-----------------------------------------------------------------------------
(* The reference: white space at the end. *)

\* Taking a white byte off the end changes nothing.
LEMMA TrimBlank ==
  ASSUME NEW s \in Seq(Char), s # <<>>, s[Len(s)] \in {9, 10, 32}
  PROVE  TrimmedRight(SubSeq(s, 1, Len(s) - 1)) = TrimmedRight(s)
<1> DEFINE n == Len(s)
           m == n - 1
           t == SubSeq(s, 1, m)
           W == {9, 10, 32}
           solid == {k \in DOMAIN s : s[k] \notin {9, 10, 32}}
           solidt == {k \in DOMAIN t : t[k] \notin {9, 10, 32}}
           last == CHOOSE k \in solid : \A other \in solid : other <= k
<1>1. n \in Nat \ {0} /\ m \in Nat /\ m < n /\ DOMAIN s = 1..n
  OBVIOUS
<1>2. t \in Seq(Char) /\ Len(t) = m /\ DOMAIN t = 1..m /\ \A k \in 1..m : t[k] = s[k]
  <2> HIDE DEF m
  <2> QED BY <1>1
<1>3. s[n] \in {9, 10, 32}
  OBVIOUS
<1> HIDE DEF n, t
<1>4. \A k \in 1..n : k = n \/ k \in 1..m
  BY <1>1
<1>5. \A k \in 1..m : k \in 1..n
  BY <1>1
<1> HIDE DEF m
<1>6. solidt = solid
  BY <1>1, <1>2, <1>3, <1>4, <1>5
<1>7. CASE solid = {}
  <2>1. TrimmedRight(s) = <<>> /\ TrimmedRight(t) = <<>>
    BY <1>6, <1>7 DEF TrimmedRight
  <2> QED BY <2>1 DEF t, m, n
<1>8. CASE solid # {}
  <2>1. solid \in SUBSET (0..m)
    BY <1>1, <1>2, <1>6
  <2>2. \E k \in solid : \A other \in solid : other <= k
    <3> HIDE DEF solid
    <3> QED BY <1>1, <1>8, <2>1, Greatest
  <2>3. last \in solid
    <3> HIDE DEF solid
    <3> QED BY <2>2
  <2>4. last \in 1..m
    <3>1. last \in solidt
      BY <2>3, <1>6
    <3> HIDE DEF last
    <3> QED BY <3>1, <1>2
  <2>5. TrimmedRight(s) = SubSeq(s, 1, last)
    BY <1>8 DEF TrimmedRight
  <2>6. TrimmedRight(t) = SubSeq(t, 1, last)
    BY <1>6, <1>8 DEF TrimmedRight
  <2> HIDE DEF last
  <2>7. SubSeq(s, 1, last) = SubSeq(t, 1, last)
    <3> DEFINE a == SubSeq(s, 1, last)
               b == SubSeq(t, 1, last)
    <3>1. last \in Nat /\ last <= m /\ last <= n
      BY <1>1, <2>4
    <3>2. a \in Seq(Char) /\ Len(a) = last /\ \A k \in 1..last : a[k] = s[k]
      BY <3>1 DEF n
    <3>3. b \in Seq(Char) /\ Len(b) = last /\ \A k \in 1..last : b[k] = t[k]
      BY <3>1, <1>2
    <3>4. \A k \in 1..last : k \in 1..m
      BY <1>1, <3>1
    <3> HIDE DEF a, b
    <3>5. a = b
      BY <1>2, <3>2, <3>3, <3>4, SameSequence
    <3> QED BY <3>5 DEF a, b
  <2>8. TrimmedRight(t) = TrimmedRight(s)
    BY <2>5, <2>6, <2>7
  <2> QED BY <2>8 DEF t, m, n
<1> QED BY <1>7, <1>8

\* A sequence that does not end with white space is left alone.
LEMMA TrimSolid ==
  ASSUME NEW s \in Seq(Char), s = <<>> \/ s[Len(s)] \notin {9, 10, 32}
  PROVE  TrimmedRight(s) = s
<1> DEFINE n == Len(s)
           solid == {k \in DOMAIN s : s[k] \notin {9, 10, 32}}
           last == CHOOSE k \in solid : \A other \in solid : other <= k
<1>1. n \in Nat /\ DOMAIN s = 1..n
  OBVIOUS
<1>2. CASE s = <<>>
  <2>1. solid = {}
    BY <1>2
  <2> QED BY <1>2, <2>1 DEF TrimmedRight
<1>3. CASE s # <<>>
  <2>1. n \in 1..n /\ s[n] \notin {9, 10, 32}
    BY <1>3
  <2> HIDE DEF n
  <2>2. n \in solid /\ \A other \in solid : other <= n
    BY <1>1, <2>1
  <2>3. solid \in SUBSET Nat
    BY <1>1
  <2>4. last = n
    <3> HIDE DEF solid
    <3>1. last \in solid /\ \A other \in solid : other <= last
      BY <2>2
    <3> HIDE DEF last
    <3>2. last <= n /\ n <= last /\ last \in Nat
      BY <2>2, <2>3, <3>1
    <3> QED BY <1>1, <3>2
  <2>5. solid # {}
    BY <2>2
  <2>6. TrimmedRight(s) = SubSeq(s, 1, last)
    BY <2>5 DEF TrimmedRight
  <2> HIDE DEF last, solid
  <2>7. TrimmedRight(s) = SubSeq(s, 1, n)
    BY <2>4, <2>6
  <2> QED BY <2>7 DEF n
<1> QED BY <1>2, <1>3

\* Cutting to the buffer: what was copied is what is kept of the whole text.
LEMMA Sanitizing ==
  ASSUME NEW s \in Seq(Char), NEW size \in Nat \ {0}, NEW o \in Seq(Char), NEW t \in Seq(Char),
         o \o t = Untagged(s), Len(o) <= size - 1, t = <<>> \/ Len(o) = size - 1
  PROVE  TrimmedRight(o) = Sanitized(s, size)
<1> DEFINE u == o \o t
           c == IF Len(u) < size - 1 THEN Len(u) ELSE size - 1
<1>1. Len(o) \in Nat /\ Len(t) \in Nat /\ Len(u) = Len(o) + Len(t)
  OBVIOUS
<1>2. t = <<>> => Len(t) = 0
  OBVIOUS
<1>3. c = Len(o)
  <2> DEFINE a == Len(o)
             b == Len(t)
  <2>1. a \in Nat /\ b \in Nat /\ Len(u) = a + b /\ a <= size - 1 /\ (b = 0 \/ a = size - 1)
    BY <1>1, <1>2
  <2> HIDE DEF a, b, u
  <2> SUFFICES c = a
    BY DEF a
  <2> QED BY <2>1
<1>4. SubSeq(u, 1, Len(o)) = o
  OBVIOUS
<1>5. Sanitized(s, size) = TrimmedRight(SubSeq(u, 1, c))
  BY DEF Sanitized
<1> HIDE DEF u, c
<1> QED BY <1>3, <1>4, <1>5

-----------------------------------------------------------------------------
(* The two loops compute the reference. *)

\* While copying, the output and what the reference makes of the rest of src
\* are the reference of src; then only the end of the output is still to do.
RefInv ==
  /\ TypeOK
  /\ pc = "copy" => out \o UntaggedFrom(src)[p + 1] = Untagged(src)
  /\ pc = "trim" => TrimmedRight(out) = Sanitized(src, dst_size)
  /\ MatchesReference

\* A tag that is skipped ends where the reference says.
LEMMA RefSkip ==
  ASSUME TypeOK, SkipBracket
  PROVE  UntaggedFrom(src)[p' + 1] = UntaggedFrom(src)[p + 1]
<1>1. src \in Seq(Char) /\ Len(src) \in Nat /\ p \in Nat
  BY RestType
<1> DEFINE k == p + 1
<1>2. src[k] = 91 /\ p < Len(src)
  BY DEF SkipBracket, Copying, AtBracket, LB
<1>3. k \in 1..Len(src)
  BY <1>1, <1>2
<1>4a. PICK e \in Closers : /\ \A other \in Closers : e <= other
                           /\ \E q \in e..Len(src) : AfterBlanks(e, q) /\ p' = q
  BY DEF SkipBracket
<1>4. PICK q \in e..Len(src) : AfterBlanks(e, q) /\ p' = q
  BY <1>4a
<1>5. e \in k..Len(src) /\ src[e] = 93 /\ \A x \in k..Len(src) : src[x] = 93 => e <= x
  BY <1>4a DEF Closers, RB
<1>6. /\ \A x \in (e + 1)..q : IsBlank(src[x])
      /\ q = Len(src) \/ ~IsBlank(src[q + 1])
  <2>1. q <= Len(src) /\ q \in Int
    BY <1>1, <1>5
  <2>2. q = Len(src) \/ q < Len(src)
    BY <1>1, <2>1
  <2> QED BY <1>4, <2>2 DEF AfterBlanks, IsBlank, SP, TAB
<1>7. TagEnd(src, k) = q
  BY <1>1, <1>2, <1>3, <1>5, <1>6, TagHere
<1>8. q >= k
  BY <1>1, <1>5
<1> HIDE DEF k
<1>9. UntaggedFrom(src)[k] = UntaggedFrom(src)[q + 1]
  BY <1>1, <1>3, <1>7, <1>8, UntaggedEquation
<1> QED BY <1>4, <1>9 DEF k

\* A byte that is copied is one that the reference keeps.
LEMMA RefCopy ==
  ASSUME TypeOK, CopyByte
  PROVE  out' \o UntaggedFrom(src)[p' + 1] = out \o UntaggedFrom(src)[p + 1]
<1>1. src \in Seq(Char) /\ Len(src) \in Nat /\ p \in Nat /\ out \in Seq(Char)
  BY RestType
<1> DEFINE k == p + 1
           c == src[k]
           v == UntaggedFrom(src)[k + 1]
<1>2. p < Len(src) /\ p' = k /\ out' = Append(out, c) /\ ~AtBracket
  BY DEF CopyByte, Copying
<1>3. k \in 1..Len(src) /\ k \in Nat /\ k + 1 \in 1..(Len(src) + 1) /\ c \in Char
  BY <1>1, <1>2
<1>4. src[k] # 91 \/ \A e \in k..Len(src) : src[e] # 93
  BY <1>2 DEF AtBracket, Closers, LB, RB
<1> HIDE DEF k, c
<1>5. TagEnd(src, k) = k - 1
  BY <1>3, <1>4, NoTagHere
<1>6. ~(TagEnd(src, k) >= k)
  BY <1>3, <1>5
<1>7. v \in Seq(Char)
  BY <1>1, <1>3, UntaggedEquation
<1>8. UntaggedFrom(src)[k] = <<c>> \o v
  BY <1>1, <1>3, <1>6, UntaggedEquation DEF c
<1> HIDE DEF v
<1>9. Append(out, c) \o v = out \o (<<c>> \o v)
  BY <1>1, <1>3, <1>7
<1> QED BY <1>2, <1>8, <1>9 DEF k, v

\* Every step keeps the invariant.
LEMMA RefNext == RefInv /\ [Next]_vars => RefInv'
<1> SUFFICES ASSUME RefInv, [Next]_vars PROVE RefInv'
  OBVIOUS
<1>1. TypeOK /\ TypeOK'
  BY TypeNext DEF RefInv
<1>2. /\ src \in Seq(Char) /\ Len(src) \in Nat /\ p \in Nat /\ p <= Len(src)
      /\ out \in Seq(Char) /\ Len(out) \in Nat /\ dst_size \in Nat \ {0}
  BY <1>1, RestType, InputAssumption DEF TypeOK
<1>3. CASE SkipBracket
  <2>1. pc = "copy" /\ UNCHANGED <<src, dst_size, out, pc>>
    BY <1>3 DEF SkipBracket, Copying
  <2>2. UntaggedFrom(src)[p' + 1] = UntaggedFrom(src)[p + 1]
    BY <1>1, <1>3, RefSkip
  <2> QED BY <1>1, <2>1, <2>2 DEF RefInv, MatchesReference
<1>4. CASE CopyByte
  <2>1. pc = "copy" /\ UNCHANGED <<src, dst_size, pc>>
    BY <1>4 DEF CopyByte, Copying
  <2>2. out' \o UntaggedFrom(src)[p' + 1] = out \o UntaggedFrom(src)[p + 1]
    BY <1>1, <1>4, RefCopy
  <2> QED BY <1>1, <2>1, <2>2 DEF RefInv, MatchesReference
<1>5. CASE EndCopy
  <2>1. /\ pc = "copy" /\ pc' = "trim" /\ UNCHANGED <<src, dst_size, p, out>>
        /\ ~(p < Len(src)) \/ ~(Len(out) < dst_size - 1)
    BY <1>5 DEF EndCopy, AfterCopy, Copying
  <2> DEFINE t == UntaggedFrom(src)[p + 1]
  <2>2. p + 1 \in 1..(Len(src) + 1) /\ (~(p < Len(src)) => p + 1 = Len(src) + 1)
    BY <1>2
  <2>3. t \in Seq(Char) /\ (~(p < Len(src)) => t = <<>>)
    BY <1>2, <2>2, UntaggedEquation
  <2>4. Len(out) <= dst_size - 1
    BY <1>1 DEF TypeOK
  <2>5. t = <<>> \/ Len(out) = dst_size - 1
    BY <1>2, <2>1, <2>3, <2>4
  <2>6. out \o t = Untagged(src)
    BY <2>1 DEF RefInv
  <2> HIDE DEF t
  <2>7. TrimmedRight(out) = Sanitized(src, dst_size)
    BY <1>2, <2>3, <2>4, <2>5, <2>6, Sanitizing
  <2> QED BY <1>1, <2>1, <2>7 DEF RefInv, MatchesReference
<1>6. CASE TrimByte
  <2>1. /\ pc = "trim" /\ UNCHANGED <<src, dst_size, pc>> /\ out' = SubSeq(out, 1, Len(out) - 1)
        /\ out # <<>> /\ out[Len(out)] \in {9, 10, 32}
    BY <1>6 DEF TrimByte, ShorterOut, TrailingBlank, SP, TAB, NL
  <2>2. TrimmedRight(out') = TrimmedRight(out)
    BY <1>2, <2>1, TrimBlank
  <2> QED BY <1>1, <2>1, <2>2 DEF RefInv, MatchesReference
<1>7. CASE Return
  <2>1. /\ pc = "trim" /\ pc' = "done" /\ UNCHANGED <<src, dst_size, out>>
        /\ out = <<>> \/ out[Len(out)] \notin {9, 10, 32}
    BY <1>7 DEF Return, TrailingBlank, SP, TAB, NL
  <2>2. TrimmedRight(out) = out
    BY <1>2, <2>1, TrimSolid
  <2> QED BY <1>1, <2>1, <2>2 DEF RefInv, MatchesReference
<1>8. CASE UNCHANGED vars
  BY <1>1, <1>8 DEF vars, RefInv, MatchesReference
<1> QED BY <1>3, <1>4, <1>5, <1>6, <1>7, <1>8 DEF Next

\* For every text and every size of the buffer the two loops compute the text
\* without its tags, cut to the buffer, without trailing white space.
THEOREM ReferenceComputed == Spec => []MatchesReference
<1>1. Init => RefInv
  <2> SUFFICES ASSUME Init PROVE RefInv
    OBVIOUS
  <2>1. TypeOK
    BY InputAssumption DEF Init, TypeOK
  <2>2. src \in Seq(Char) /\ p + 1 = 1 /\ 1 \in 1..(Len(src) + 1)
    BY <2>1, RestType DEF Init
  <2>3. UntaggedFrom(src)[1] \in Seq(Char)
    BY <2>2, UntaggedEquation
  <2>4. out \o UntaggedFrom(src)[p + 1] = Untagged(src)
    BY <2>2, <2>3 DEF Init, Untagged
  <2> QED BY <2>1, <2>4 DEF Init, RefInv, MatchesReference
<1>2. RefInv => MatchesReference
  BY DEF RefInv
<1> QED BY <1>1, <1>2, RefNext, PTL DEF Spec

-----------------------------------------------------------------------------
(* The output is clean for good. *)

\* The reference of a text without a tag is the text.
LEMMA NothingToRemove ==
  ASSUME NEW s \in Seq(Char),
         \A j, k \in 1..Len(s) : ~(j < k /\ s[j] = 91 /\ s[k] = 93)
  PROVE  Untagged(s) = s
<1> DEFINE n == Len(s)
           f == UntaggedFrom(s)
           g == [k \in 1..(n + 1) |-> SubSeq(s, k, n)]
           nxt == [k \in 1..n |-> k + 1]
<1>1. n \in Nat
  OBVIOUS
<1>2. ASSUME NEW k \in 1..n PROVE f[k] = <<s[k]>> \o f[k + 1]
  <2>1. s[k] # 91 \/ \A e \in k..n : s[e] # 93
    <3> SUFFICES ASSUME s[k] = 91, NEW e \in k..n, s[e] = 93 PROVE FALSE
      OBVIOUS
    <3>1. e \in 1..n /\ (k = e \/ k < e)
      BY <1>1
    <3> QED BY <3>1
  <2>2. TagEnd(s, k) = k - 1 /\ ~(k - 1 >= k)
    BY <1>1, <2>1, NoTagHere
  <2> QED BY <2>2, UntaggedEquation
<1>3. ASSUME NEW k \in 1..n PROVE g[k] = <<s[k]>> \o g[k + 1]
  <2>1. k \in 1..(n + 1) /\ k + 1 \in 1..(n + 1) /\ k \in Nat /\ k <= n
    BY <1>1
  <2>2. g[k] = SubSeq(s, k, n) /\ g[k + 1] = SubSeq(s, k + 1, n)
    BY <2>1
  <2>3. SubSeq(s, k, n) = <<s[k]>> \o SubSeq(s, k + 1, n)
    BY FromHere
  <2> HIDE DEF g
  <2> QED BY <2>2, <2>3
<1>4. f[n + 1] = <<>>
  BY UntaggedEquation
<1>5. g[n + 1] = <<>>
  BY <1>1
<1>6. Ahead(n, nxt)
  BY <1>1 DEF Ahead
<1>7. Alike(f, g, n, nxt)
  <2>1. \A k \in 1..n : nxt[k] = k + 1
    OBVIOUS
  <2>2. ASSUME NEW k \in 1..n, f[nxt[k]] = g[nxt[k]] PROVE f[k] = g[k]
    <3> HIDE DEF f, g, nxt, n
    <3>1. f[k + 1] = g[k + 1]
      BY <2>1, <2>2
    <3> QED BY <3>1, <1>2, <1>3
  <2> HIDE DEF f, g, nxt, n
  <2> QED BY <1>4, <1>5, <2>2 DEF Alike
<1>8. 1 \in 1..(n + 1)
  BY <1>1
<1>9. g[1] = s
  BY <1>8
<1> HIDE DEF f, g, nxt, n
<1>10. f[1] = g[1]
  BY <1>1, <1>6, <1>7, <1>8, SameBackwards
<1> QED BY <1>9, <1>10 DEF f, Untagged

\* At the end, no white space is left to trim.
CleanInv == TagInv /\ (pc = "done" => ~TrailingBlank)

\* Filtering what copy_field_sanitize wrote takes nothing more away.
THEOREM CleanForGood == Spec => []Idempotent
<1>1. Init => CleanInv
  BY InputAssumption DEF Init, CleanInv, TagInv, TypeOK, NoTagLeft, Unclosed
<1>2. CleanInv /\ [Next]_vars => CleanInv'
  <2> SUFFICES ASSUME CleanInv, [Next]_vars, pc' = "done" PROVE ~TrailingBlank'
    BY TagNext DEF CleanInv
  <2>1. CASE Next
    BY <2>1 DEF Next, SkipBracket, CopyByte, EndCopy, TrimByte, Return, Copying, AfterCopy,
                TrailingBlank
  <2>2. CASE UNCHANGED vars
    BY <2>2 DEF vars, CleanInv, TrailingBlank
  <2> QED BY <2>1, <2>2
<1>3. CleanInv => Idempotent
  <2> SUFFICES ASSUME CleanInv, pc = "done" PROVE Sanitized(out, dst_size) = out
    BY DEF Idempotent
  <2>1. out \in Seq(Char) /\ dst_size \in Nat \ {0} /\ Len(out) <= dst_size - 1
    BY InputAssumption DEF CleanInv, TagInv, TypeOK
  <2>2. \A j, k \in 1..Len(out) : ~(j < k /\ out[j] = 91 /\ out[k] = 93)
    <3>1. DOMAIN out = 1..Len(out)
      BY <2>1
    <3> QED BY <3>1 DEF CleanInv, TagInv, NoTagLeft, LB, RB
  <2>3. Untagged(out) = out
    BY <2>1, <2>2, NothingToRemove
  <2>4. out = <<>> \/ out[Len(out)] \notin {9, 10, 32}
    BY DEF CleanInv, TrailingBlank, SP, TAB, NL
  <2>5. <<>> \in Seq(Char) /\ out \o <<>> = out
    BY <2>1
  <2>6. TrimmedRight(out) = Sanitized(out, dst_size)
    BY <2>1, <2>3, <2>5, Sanitizing
  <2> QED BY <2>1, <2>4, <2>6, TrimSolid
<1> QED BY <1>1, <1>2, <1>3, PTL DEF Spec
=============================================================================
