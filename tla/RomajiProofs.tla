---------------------------- MODULE RomajiProofs ----------------------------
(***************************************************************************)
(* Proofs about module Romaji, for every table of syllables, every input   *)
(* and every size of the buffer.                                           *)
(***************************************************************************)
EXTENDS Romaji, SequenceTheorems, Lemmas

\* Three bytes of dst at most for every byte of src that is consumed.
Expansion == pos <= 3 * i

\* Nothing is consumed or stored before the call begins, and the loop is not
\* reached without a buffer.
Begun == /\ pc = "call" => pos = 0 /\ i = 0
         /\ pc \in {"loop", "ok"} => dst_size > 0

ConvInv == TypeOK /\ Begun /\ Expansion /\ StringInBuffer /\ FitsBuffer

-----------------------------------------------------------------------------
(* What a pass of the loop stores. *)

\* s may be stored for take bytes of src at i.
Storable(s, take) ==
  /\ s \in Seq(Char)
  /\ Len(s) <= 3 * take
  /\ i + take <= Len(src)
  /\ (\A k \in DOMAIN src : src[k] < 128) => WellFormed(s)

\* A small tsu, a kana of the table and a raw byte are all of that kind.
LEMMA PassAppends ==
  ASSUME TypeOK, PutSokuon \/ PutSyllable \/ PassThrough
  PROVE  \E s \in Seq(Char), take \in 1..3 : Storable(s, take) /\ append(s, take)
<1>1. src \in Seq(Char) /\ i \in Nat /\ Len(src) \in Nat
  BY InputAssumption DEF TypeOK
<1>2. CASE PutSokuon
  <2>1. Sokuon \in Seq(Char) /\ Len(Sokuon) = 3
    BY DEF Sokuon, Char
  <2>2. WellFormed(Sokuon)
    BY DEF Sokuon, WellFormed, IsLead, IsCont
  <2>3. Storable(Sokuon, 1)
    BY <1>1, <1>2, <2>1, <2>2 DEF PutSokuon, InLoop, Storable
  <2> QED BY <1>2, <2>1, <2>3 DEF PutSokuon
<1>3. CASE PutSyllable
  <2>1. PICK e \in Matches : append(e[2], Len(e[1]))
    BY <1>3 DEF PutSyllable
  <2>2. Storable(e[2], Len(e[1])) /\ Len(e[1]) \in 1..3
    BY <2>1, TableAssumption DEF Matches, Storable
  <2> QED BY <2>1, <2>2 DEF Storable
<1>4. CASE PassThrough
  <2> DEFINE b == src[i + 1]
  <2>1. i + 1 \in DOMAIN src /\ i + 1 <= Len(src) /\ b \in Char
    BY <1>1, <1>4 DEF PassThrough, InLoop
  <2>2. append(<<b>>, 1)
    BY <1>4 DEF PassThrough
  <2> HIDE DEF b
  <2>3. <<b>> \in Seq(Char) /\ Len(<<b>>) = 1 /\ <<b>>[1] = b
    BY <2>1
  <2>4. ASSUME \A k \in DOMAIN src : src[k] < 128
        PROVE  WellFormed(<<b>>)
    <3>1. b < 128
      BY <2>1, <2>4 DEF b
    <3>2. DOMAIN <<b>> = {1}
      OBVIOUS
    <3>3. b \in 0..127 /\ ~IsLead(b) /\ ~IsCont(b)
      BY <2>1, <3>1 DEF IsLead, IsCont, Char
    <3> QED BY <2>3, <3>2, <3>3 DEF WellFormed
  <2>5. Storable(<<b>>, 1)
    BY <1>1, <2>1, <2>3, <2>4 DEF Storable
  <2>6. 1 \in 1..3
    OBVIOUS
  <2> QED BY <2>2, <2>3, <2>5, <2>6
<1> QED BY <1>2, <1>3, <1>4

-----------------------------------------------------------------------------
(* The invariant. *)

\* A byte of a string is a byte, and not NUL.
LEMMA CharIsByte == \A x \in Char : x \in 0..255 /\ x # 0
BY DEF Char

\* Storing s leaves a string that is s longer, in the same buffer.
LEMMA StoredString ==
  ASSUME TypeOK, StringInBuffer, pc = "loop", dst_size > 0,
         NEW s \in Seq(Char), NEW take, Fits(Len(s)), append(s, take)
  PROVE  /\ dst' \in [0..(dst_size - 1) -> 0..255]
         /\ pos' = pos + Len(s)
         /\ pos' \in Nat
         /\ pos' < dst_size
         /\ dst'[pos'] = 0
         /\ \A k \in 0..(pos - 1) : dst'[k] = dst[k]
         /\ \A k \in 1..Len(s) : dst'[pos + k - 1] = s[k]
         /\ \A k \in 0..(pos' - 1) : dst'[k] # 0
<1>1. /\ dst_size \in Nat /\ pos \in Nat /\ Len(s) \in Nat
      /\ DOMAIN dst = 0..(dst_size - 1)
      /\ \A k \in 0..(dst_size - 1) : dst[k] \in 0..255
      /\ pos' = pos + Len(s) /\ pos' < dst_size /\ dst' = Stored(s)
  BY InputAssumption DEF TypeOK, Fits, append, KeepNone
<1>2. \A k \in 1..Len(s) : s[k] \in 0..255 /\ s[k] # 0
  BY ElementOfSeq, CharIsByte, Zenon
<1>3. \A k \in 0..(dst_size - 1) :
        dst'[k] = IF k - pos \in 0..(Len(s) - 1) THEN s[k - pos + 1]
                       ELSE IF k = pos + Len(s) THEN 0 ELSE dst[k]
  BY <1>1 DEF Stored
<1>4. dst' \in [0..(dst_size - 1) -> 0..255]
  <2>1. \A k \in 0..(dst_size - 1) : dst'[k] \in 0..255
    <3> SUFFICES ASSUME NEW k \in 0..(dst_size - 1) PROVE dst'[k] \in 0..255
      OBVIOUS
    <3>1. CASE k - pos \in 0..(Len(s) - 1)
      <4>1. k - pos + 1 \in 1..Len(s)
        BY <1>1, <3>1
      <4>2. dst'[k] = s[k - pos + 1]
        BY <1>3, <3>1
      <4>3. s[k - pos + 1] \in 0..255
        BY <1>2, <4>1
      <4> QED BY <4>2, <4>3
    <3>2. CASE k - pos \notin 0..(Len(s) - 1)
      <4>1. dst'[k] = 0 \/ dst'[k] = dst[k]
        BY <1>3, <3>2
      <4> QED BY <1>1, <4>1
    <3> QED BY <3>1, <3>2
  <2>2. dst' = [k \in 0..(dst_size - 1) |-> dst'[k]]
    BY <1>1 DEF Stored
  <2> QED BY <2>1, <2>2
<1>5. dst'[pos'] = 0
  BY <1>1, <1>3
<1>6. \A k \in 0..(pos - 1) : dst'[k] = dst[k]
  BY <1>1, <1>3
<1>7. \A k \in 1..Len(s) : dst'[pos + k - 1] = s[k]
  <2> SUFFICES ASSUME NEW k \in 1..Len(s) PROVE dst'[pos + k - 1] = s[k]
    OBVIOUS
  <2>1. /\ pos + k - 1 \in 0..(dst_size - 1)
        /\ (pos + k - 1) - pos \in 0..(Len(s) - 1)
        /\ (pos + k - 1) - pos + 1 = k
    BY <1>1
  <2> QED BY <1>3, <2>1
<1>8. \A k \in 0..(pos' - 1) : dst'[k] # 0
  <2> SUFFICES ASSUME NEW k \in 0..(pos' - 1) PROVE dst'[k] # 0
    OBVIOUS
  <2>1. CASE k < pos
    BY <1>1, <1>6, <2>1 DEF StringInBuffer
  <2>2. CASE k >= pos
    <3>1. k - pos + 1 \in 1..Len(s) /\ pos + (k - pos + 1) - 1 = k
      BY <1>1, <2>2
    <3>2. dst'[k] = s[k - pos + 1]
      BY <1>7, <3>1
    <3>3. s[k - pos + 1] # 0
      BY <1>2, <3>1
    <3> QED BY <3>2, <3>3
  <2> QED BY <1>1, <2>1, <2>2
<1>9. pos' \in Nat
  BY <1>1
<1> QED BY <1>1, <1>9, Zenon, <1>4, <1>5, <1>6, <1>7, <1>8

\* append keeps the invariant, whether it stores s or gives up.
LEMMA AppendStep ==
  ASSUME ConvInv, InLoop,
         NEW s \in Seq(Char), NEW take \in 1..3,
         Storable(s, take), append(s, take)
  PROVE  ConvInv'
<1>1. /\ dst_size \in Nat /\ pos \in Nat /\ i \in Nat /\ Len(src) \in Nat
      /\ Len(s) \in Nat /\ pc = "loop" /\ dst_size > 0 /\ pos <= 3 * i
      /\ src' = src /\ dst_size' = dst_size
      /\ Len(s) <= 3 * take /\ i + take <= Len(src)
  BY InputAssumption DEF ConvInv, Begun, TypeOK, Expansion, InLoop, Storable, append, KeepNone
<1>2. CASE Fits(Len(s))
  <2>1. dst' = Stored(s) /\ pos' = pos + Len(s) /\ i' = i + take /\ pc' = "loop"
    BY <1>2 DEF append, KeepNone
  <2>2. /\ dst' \in [0..(dst_size - 1) -> 0..255]
        /\ pos' \in Nat
        /\ pos' < dst_size
        /\ dst'[pos'] = 0
        /\ \A k \in 0..(pos' - 1) : dst'[k] # 0
    BY <1>1, <1>2, StoredString, Zenon DEF ConvInv
  <2>3. i' \in 0..Len(src) /\ pos' <= 3 * i'
    BY <1>1, <2>1
  <2>4. TypeOK'
    BY <1>1, <2>1, <2>2, <2>3 DEF ConvInv, TypeOK
  <2>5. StringInBuffer'
    BY <1>1, <2>2 DEF StringInBuffer
  <2> QED BY <1>1, <2>1, <2>3, <2>4, <2>5 DEF ConvInv, Begun, Expansion, FitsBuffer
<1>3. CASE ~Fits(Len(s))
  <2>1. pc' = "failed" /\ UNCHANGED <<dst, pos, i, src, dst_size>>
    BY <1>3 DEF append, KeepNone
  <2>2. ~(3 * Len(src) < dst_size)
    BY <1>1, <1>3 DEF Fits
  <2> QED BY <1>1, <2>1, <2>2 DEF ConvInv, TypeOK, Begun, Expansion, StringInBuffer, FitsBuffer
<1> QED BY <1>2, <1>3

\* One step of the conversion keeps the invariant.
LEMMA ConvStep == ConvInv /\ [Next]_vars => ConvInv'
<1> SUFFICES ASSUME ConvInv, [Next]_vars PROVE ConvInv'
  OBVIOUS
<1>1. CASE Start
  <2>1. dst_size \in Nat /\ i \in Nat /\ Len(src) \in Nat /\ pc = "call" /\ pos = 0
    BY <1>1, InputAssumption DEF ConvInv, TypeOK, Begun, Start
  <2>2. CASE dst_size = 0
    BY <1>1, <2>1, <2>2
    DEF Start, ConvInv, TypeOK, Begun, Expansion, StringInBuffer, FitsBuffer
  <2>3. CASE dst_size # 0
    <3>1. /\ dst' = [dst EXCEPT ![0] = 0] /\ pc' = "loop"
          /\ UNCHANGED <<src, dst_size, pos, i>>
      BY <1>1, <2>3 DEF Start
    <3>2. dst' \in [0..(dst_size - 1) -> 0..255] /\ dst'[0] = 0
      BY <2>1, <2>3, <3>1 DEF ConvInv, TypeOK
    <3> QED BY <2>1, <2>3, <3>1, <3>2
        DEF ConvInv, TypeOK, Begun, Expansion, StringInBuffer, FitsBuffer
  <2> QED BY <2>2, <2>3
<1>2. CASE PutSokuon \/ PutSyllable \/ PassThrough
  <2>1. PICK s \in Seq(Char), take \in 1..3 : Storable(s, take) /\ append(s, take)
    BY <1>2, PassAppends DEF ConvInv
  <2>2. InLoop
    BY <1>2 DEF PutSokuon, PutSyllable, PassThrough
  <2> QED BY <2>1, <2>2, AppendStep
<1>3. CASE Return
  BY <1>3 DEF Return, AtEnd, ConvInv, TypeOK, Begun, Expansion, StringInBuffer, FitsBuffer
<1>4. CASE UNCHANGED vars
  BY <1>4 DEF vars, ConvInv, TypeOK, Begun, Expansion, StringInBuffer, FitsBuffer
<1> QED BY <1>1, <1>2, <1>3, <1>4 DEF Next, to_kana

\* The invariant holds when the call is made.
LEMMA ConvInit == Init => ConvInv
<1> SUFFICES ASSUME Init PROVE ConvInv
  OBVIOUS
<1>1. src \in Seq(Char) /\ dst_size \in Nat /\ Len(src) \in Nat
  BY InputAssumption DEF Init
<1>2. dst \in [0..(dst_size - 1) -> 0..255]
  BY InputAssumption DEF Init
<1> QED BY <1>1, <1>2 DEF Init, ConvInv, TypeOK, Begun, Expansion, StringInBuffer, FitsBuffer

\* The invariant holds throughout.
LEMMA ConvCorrect == Spec => []ConvInv
BY ConvInit, ConvStep, PTL DEF Spec

\* Every state of the conversion is of the declared type: i never runs past
\* the end of src, whatever the lengths of the keys.
THEOREM ConvTypeCorrect == Spec => []TypeOK
<1>1. ConvInv => TypeOK
  BY DEF ConvInv
<1> QED BY <1>1, ConvCorrect, PTL

\* romaji_to_kana writes inside dst only and leaves a C string of pos bytes
\* there after every pass, for every table, input and size of the buffer.
THEOREM ConvStringInBuffer == Spec => []StringInBuffer
<1>1. ConvInv => StringInBuffer
  BY DEF ConvInv
<1> QED BY <1>1, ConvCorrect, PTL

\* A buffer of more than three bytes per byte of src always suffices.
THEOREM ConvFitsBuffer == Spec => []FitsBuffer
<1>1. ConvInv => FitsBuffer
  BY DEF ConvInv
<1> QED BY <1>1, ConvCorrect, PTL

-----------------------------------------------------------------------------
(* Text stays whole: what is stored is a concatenation of whole characters. *)

\* Whole text followed by whole text is whole text.  v is u with s after it.
LEMMA WellFormedConcat ==
  ASSUME NEW m \in Nat, NEW n \in Nat, NEW u, NEW s, NEW v,
         DOMAIN u = 1..m, DOMAIN s = 1..n, DOMAIN v = 1..(m + n),
         \A k \in 1..m : v[k] = u[k],
         \A k \in 1..n : v[m + k] = s[k],
         WellFormed(u), WellFormed(s)
  PROVE  WellFormed(v)
<1> SUFFICES ASSUME NEW k \in 1..(m + n)
             PROVE  /\ v[k] \in 0..127 \/ IsLead(v[k]) \/ IsCont(v[k])
                    /\ IsLead(v[k]) => /\ k + 2 \in 1..(m + n)
                                       /\ IsCont(v[k + 1]) /\ IsCont(v[k + 2])
                    /\ IsCont(v[k]) => \/ k > 1 /\ IsLead(v[k - 1])
                                       \/ k > 2 /\ IsLead(v[k - 2]) /\ IsCont(v[k - 1])
  BY DEF WellFormed
<1>1. CASE k <= m
  <2>1. k \in 1..m /\ v[k] = u[k]
    BY <1>1
  <2>2. /\ u[k] \in 0..127 \/ IsLead(u[k]) \/ IsCont(u[k])
        /\ IsLead(u[k]) => /\ k + 2 \in 1..m
                           /\ IsCont(u[k + 1]) /\ IsCont(u[k + 2])
        /\ IsCont(u[k]) => \/ k > 1 /\ IsLead(u[k - 1])
                           \/ k > 2 /\ IsLead(u[k - 2]) /\ IsCont(u[k - 1])
    BY <2>1 DEF WellFormed
  <2>3. k + 2 \in 1..m => /\ k + 2 \in 1..(m + n)
                          /\ v[k + 1] = u[k + 1] /\ v[k + 2] = u[k + 2]
    BY <2>1
  <2>4. (k > 1 => v[k - 1] = u[k - 1]) /\ (k > 2 => v[k - 2] = u[k - 2])
    BY <2>1
  <2> QED BY <2>1, <2>2, <2>3, <2>4
<1>2. CASE k > m
  <2> DEFINE j == k - m
  <2>1. j \in 1..n /\ k = m + j
    BY <1>2
  <2> HIDE DEF j
  <2>2. /\ s[j] \in 0..127 \/ IsLead(s[j]) \/ IsCont(s[j])
        /\ IsLead(s[j]) => /\ j + 2 \in 1..n
                           /\ IsCont(s[j + 1]) /\ IsCont(s[j + 2])
        /\ IsCont(s[j]) => \/ j > 1 /\ IsLead(s[j - 1])
                           \/ j > 2 /\ IsLead(s[j - 2]) /\ IsCont(s[j - 1])
    BY <2>1 DEF WellFormed
  <2>3. v[k] = s[j]
    BY <2>1
  <2>4. j + 2 \in 1..n => /\ k + 2 \in 1..(m + n)
                          /\ v[k + 1] = s[j + 1] /\ v[k + 2] = s[j + 2]
    <3> SUFFICES ASSUME j + 2 \in 1..n
                 PROVE  /\ k + 2 \in 1..(m + n)
                        /\ v[k + 1] = s[j + 1] /\ v[k + 2] = s[j + 2]
      OBVIOUS
    <3>1. /\ k + 1 = m + (j + 1) /\ k + 2 = m + (j + 2)
          /\ j + 1 \in 1..n /\ k + 2 \in 1..(m + n)
      BY <2>1
    <3> QED BY <3>1
  <2>5. j > 1 => k > 1 /\ v[k - 1] = s[j - 1]
    <3> SUFFICES ASSUME j > 1 PROVE k > 1 /\ v[k - 1] = s[j - 1]
      OBVIOUS
    <3>1. k > 1 /\ k - 1 = m + (j - 1) /\ j - 1 \in 1..n
      BY <2>1
    <3> QED BY <3>1
  <2>6. j > 2 => k > 2 /\ v[k - 2] = s[j - 2]
    <3> SUFFICES ASSUME j > 2 PROVE k > 2 /\ v[k - 2] = s[j - 2]
      OBVIOUS
    <3>1. k > 2 /\ k - 2 = m + (j - 2) /\ j - 2 \in 1..n
      BY <2>1
    <3> QED BY <3>1
  <2>7. j > 2 => j > 1
    BY <2>1
  <2> QED BY <2>2, <2>3, <2>4, <2>5, <2>6, <2>7
<1> QED BY <1>1, <1>2

\* append keeps whole text whole.
LEMMA AppendWhole ==
  ASSUME ConvInv, WholeCharacters, InLoop,
         NEW s \in Seq(Char), NEW take \in 1..3,
         Storable(s, take), append(s, take)
  PROVE  WholeCharacters'
<1> SUFFICES ASSUME \A k \in DOMAIN src : src[k] < 128
             PROVE  WellFormed(Written')
  BY DEF WholeCharacters, append, KeepNone
<1>1. WellFormed(s) /\ WellFormed(Written)
  BY DEF Storable, WholeCharacters
<1>2. CASE Fits(Len(s))
  <2>1. pc = "loop" /\ dst_size > 0 /\ pos \in Nat /\ Len(s) \in Nat
    BY DEF InLoop, ConvInv, Begun, TypeOK
  <2>2. /\ pos' = pos + Len(s)
        /\ \A k \in 0..(pos - 1) : dst'[k] = dst[k]
        /\ \A k \in 1..Len(s) : dst'[pos + k - 1] = s[k]
    BY <1>2, <2>1, StoredString, Zenon DEF ConvInv
  <2>3. DOMAIN Written = 1..pos /\ DOMAIN Written' = 1..(pos + Len(s)) /\ DOMAIN s = 1..Len(s)
    BY <2>2 DEF Written
  <2>4. \A k \in 1..pos : Written'[k] = Written[k]
    <3> SUFFICES ASSUME NEW k \in 1..pos PROVE Written'[k] = Written[k]
      OBVIOUS
    <3>1. k - 1 \in 0..(pos - 1) /\ k \in 1..(pos + Len(s))
      BY <2>1
    <3> QED BY <2>2, <3>1 DEF Written
  <2>5. \A k \in 1..Len(s) : Written'[pos + k] = s[k]
    <3> SUFFICES ASSUME NEW k \in 1..Len(s) PROVE Written'[pos + k] = s[k]
      OBVIOUS
    <3>1. (pos + k) - 1 = pos + k - 1 /\ pos + k \in 1..(pos + Len(s))
      BY <2>1
    <3> QED BY <2>2, <3>1 DEF Written
  <2> QED BY <1>1, <2>1, <2>3, <2>4, <2>5, WellFormedConcat
<1>3. CASE ~Fits(Len(s))
  BY <1>1, <1>3 DEF append, KeepNone, Written
<1> QED BY <1>2, <1>3

\* Typed text is converted to valid text: after every pass, and when the call
\* gives up, dst holds whole characters, for every table whose kana are whole.
THEOREM ConvWholeCharacters == Spec => []WholeCharacters
<1>1. Init => WholeCharacters
  BY DEF Init, WholeCharacters, Written, WellFormed
<1>2. ConvInv /\ WholeCharacters /\ [Next]_vars => WholeCharacters'
  <2> SUFFICES ASSUME ConvInv, WholeCharacters, [Next]_vars PROVE WholeCharacters'
    OBVIOUS
  <2>1. CASE Start
    BY <2>1 DEF Start, ConvInv, Begun, WholeCharacters, Written, WellFormed
  <2>2. CASE PutSokuon \/ PutSyllable \/ PassThrough
    <3>1. PICK s \in Seq(Char), take \in 1..3 : Storable(s, take) /\ append(s, take)
      BY <2>2, PassAppends DEF ConvInv
    <3>2. InLoop
      BY <2>2 DEF PutSokuon, PutSyllable, PassThrough
    <3> QED BY <3>1, <3>2, AppendWhole
  <2>3. CASE Return \/ UNCHANGED vars
    BY <2>3 DEF Return, AtEnd, vars, WholeCharacters, Written
  <2> QED BY <2>1, <2>2, <2>3 DEF Next, to_kana
<1> QED BY <1>1, <1>2, ConvCorrect, PTL DEF Spec

-----------------------------------------------------------------------------
(* The reference: its units, and its recursion. *)

\* Lower case, byte by byte.
LEMMA LowerAt ==
  ASSUME NEW s \in Seq(Char), NEW k \in 1..Len(s)
  PROVE  LowerCase(s)[k] = to_ascii_lowercase(s[k])
  BY DEF LowerCase, to_ascii_lowercase

\* Of the keys at a position one is the longest.
LEMMA LongestKey ==
  ASSUME NEW K, K # {}, K \subseteq TABLE
  PROVE  \E e \in K : \A other \in K : Len(other[1]) <= Len(e[1])
<1> DEFINE L(e) == Len(e[1])
<1>1. \A e \in K : L(e) \in 1..3
  BY TableAssumption
<1> SUFFICES \E e \in K : \A other \in K : L(other) <= L(e)
  OBVIOUS
<1> HIDE DEF L
<1>2. CASE \E e \in K : L(e) = 3
  BY <1>1, <1>2
<1>3. CASE \A e \in K : L(e) # 3
  <2>1. CASE \E e \in K : L(e) = 2
    BY <1>1, <1>3, <2>1
  <2>2. CASE \A e \in K : L(e) # 2
    BY <1>1, <1>3, <2>2
  <2> QED BY <2>1, <2>2
<1> QED BY <1>2, <1>3

\* A unit is some bytes of text, for one byte or more of s.
LEMMA UnitType ==
  ASSUME NEW s \in Seq(Char), NEW k \in 1..Len(s)
  PROVE  /\ UnitAt(s, k).out \in Seq(Char) /\ UnitAt(s, k).take \in 1..3
         /\ k + UnitAt(s, k).take \in (k + 1)..(Len(s) + 1)
<1> DEFINE c == LowerCase(s)[k]
           keys == Candidates(s, k)
           longest == CHOOSE e \in keys : \A other \in keys : Len(other[1]) <= Len(e[1])
           Double == /\ c \notin {97, 105, 117, 101, 111, 110}
                     /\ k < Len(s) /\ LowerCase(s)[k + 1] = c
<1>1. Len(s) \in Nat /\ k \in Nat /\ k <= Len(s) /\ s[k] \in Char
  OBVIOUS
<1>2. CASE Double
  <2>1. UnitAt(s, k) = [out |-> SmallTsu, take |-> 1]
    BY <1>2 DEF UnitAt
  <2>2. SmallTsu \in Seq(Char)
    BY DEF SmallTsu, Char
  <2> QED BY <1>1, <2>1, <2>2
<1>3. CASE ~Double /\ keys = {}
  <2>1. UnitAt(s, k) = [out |-> <<s[k]>>, take |-> 1]
    BY <1>3 DEF UnitAt
  <2>2. <<s[k]>> \in Seq(Char)
    BY <1>1
  <2> QED BY <1>1, <2>1, <2>2
<1>4. CASE ~Double /\ keys # {}
  <2>1. UnitAt(s, k) = [out |-> longest[2], take |-> Len(longest[1])]
    BY <1>4 DEF UnitAt
  <2>2. keys \subseteq TABLE
    BY DEF Candidates
  <2>3. longest \in keys
    <3> HIDE DEF keys
    <3> QED BY <1>4, <2>2, LongestKey
  <2>4. longest \in TABLE /\ k + Len(longest[1]) <= Len(s) + 1
    <3> HIDE DEF longest
    <3> QED BY <2>3 DEF Candidates
  <2> HIDE DEF longest
  <2>5. longest[2] \in Seq(Char) /\ Len(longest[1]) \in 1..3
    BY <2>4, TableAssumption
  <2> DEFINE l == Len(longest[1])
             o == longest[2]
  <2>6. UnitAt(s, k).out = o /\ UnitAt(s, k).take = l
    BY <2>1
  <2>6a. l \in 1..3 /\ k + l <= Len(s) + 1 /\ o \in Seq(Char)
    BY <2>4, <2>5
  <2> HIDE DEF l, o
  <2>7. k + l \in (k + 1)..(Len(s) + 1) /\ o \in Seq(Char)
    BY <1>1, <2>6a
  <2> QED BY <2>6, <2>6a, <2>7
<1> QED BY <1>2, <1>3, <1>4

\* The units from k on that fit in r bytes, with f for the ones behind the first.
UnitThen(s, k, r, f) ==
  IF Len(UnitAt(s, k).out) > r THEN <<>>
  ELSE UnitAt(s, k).out \o f[r - Len(UnitAt(s, k).out)]

\* The recursion of KanaFrom is well founded.
LEMMA KanaEquation ==
  ASSUME NEW s \in Seq(Char), NEW room \in Nat
  PROVE  /\ KanaFrom(s, room) \in [1..(Len(s) + 1) -> [0..room -> Seq(Char)]]
         /\ \A r \in 0..room : KanaFrom(s, room)[Len(s) + 1][r] = <<>>
         /\ \A k \in 1..Len(s), r \in 0..room :
              KanaFrom(s, room)[k][r]
                = UnitThen(s, k, r, KanaFrom(s, room)[k + UnitAt(s, k).take])
<1> DEFINE n == Len(s)
           R0 == 0..room
           V == [R0 -> Seq(Char)]
           base == [r \in R0 |-> <<>>]
           nxt == [k \in 1..n |-> k + UnitAt(s, k).take]
           step == [k \in 1..n |-> [v \in V |-> [r \in R0 |-> UnitThen(s, k, r, v)]]]
           G(f, k) == [r \in R0 |-> IF k > n THEN <<>>
                                    ELSE UnitThen(s, k, r, f[k + UnitAt(s, k).take])]
           R(f) == f = [k \in 1..(n + 1) |-> G(f, k)]
<1>1. n \in Nat /\ base \in V
  OBVIOUS
<1>2. Ahead(n, nxt)
  <2> SUFFICES ASSUME NEW k \in 1..n PROVE nxt[k] \in (k + 1)..(n + 1)
    BY DEF Ahead
  <2>1. nxt[k] = k + UnitAt(s, k).take
    OBVIOUS
  <2>2. k + UnitAt(s, k).take \in (k + 1)..(n + 1)
    BY UnitType
  <2> HIDE DEF nxt
  <2> QED BY <2>1, <2>2
<1>3. Steps(n, V, step)
  <2> SUFFICES ASSUME NEW k \in 1..n PROVE step[k] \in [V -> V]
    BY DEF Steps
  <2> DEFINE o == UnitAt(s, k).out
  <2>1. o \in Seq(Char) /\ Len(o) \in Nat
    BY UnitType
  <2>2. ASSUME NEW v \in V, NEW r \in R0 PROVE UnitThen(s, k, r, v) \in Seq(Char)
    <3>1. UnitThen(s, k, r, v) = IF Len(o) > r THEN <<>> ELSE o \o v[r - Len(o)]
      BY DEF UnitThen
    <3> HIDE DEF o
    <3>2. CASE Len(o) > r
      BY <3>1, <3>2
    <3>3. CASE ~(Len(o) > r)
      <4>1. r - Len(o) \in R0
        BY <2>1, <3>3
      <4>2. v[r - Len(o)] \in Seq(Char)
        BY <4>1
      <4> QED BY <2>1, <3>1, <3>3, <4>2
    <3> QED BY <3>2, <3>3
  <2>3. step[k] = [v \in V |-> [r \in R0 |-> UnitThen(s, k, r, v)]]
    OBVIOUS
  <2> HIDE DEF step, R0
  <2> QED BY <2>2, <2>3
<1>4. PICK f \in [1..(n + 1) -> V] : Recursion(f, n, base, nxt, step)
  <2> HIDE DEF n, V, base, nxt, step
  <2> QED BY <1>1, <1>2, <1>3, Backwards
<1>5. ASSUME NEW k \in 1..n PROVE f[k] = [r \in R0 |-> UnitThen(s, k, r, f[nxt[k]])]
  <2>1. nxt[k] \in (k + 1)..(n + 1)
    BY <1>2 DEF Ahead
  <2>2. nxt[k] \in 1..(n + 1)
    <3> DEFINE j == nxt[k]
    <3>1. j \in (k + 1)..(n + 1)
      BY <2>1
    <3> HIDE DEF j
    <3>2. j \in 1..(n + 1)
      BY <1>1, <3>1
    <3> QED BY <3>2 DEF j
  <2>3. f[nxt[k]] \in V
    <3> HIDE DEF nxt, V, n
    <3> QED BY <2>2
  <2>4. f[k] = step[k][f[nxt[k]]]
    BY <1>4 DEF Recursion
  <2>5. \A v \in V : step[k][v] = [r \in R0 |-> UnitThen(s, k, r, v)]
    <3> HIDE DEF V, R0
    <3> QED OBVIOUS
  <2> HIDE DEF step, nxt, V
  <2> QED BY <2>3, <2>4, <2>5
<1>6. f[n + 1] = base
  BY <1>4 DEF Recursion
<1>7. ASSUME NEW k \in 1..n PROVE nxt[k] = k + UnitAt(s, k).take
  OBVIOUS
<1>8. R(f)
  <2>1. f = [k \in 1..(n + 1) |-> f[k]]
    OBVIOUS
  <2>2. ASSUME NEW k \in 1..(n + 1) PROVE f[k] = G(f, k)
    <3>1. CASE k = n + 1
      <4>1. k > n
        BY <1>1, <3>1
      <4>2. G(f, k) = base
        BY <4>1
      <4> QED BY <3>1, <4>2, <1>6
    <3>2. CASE k # n + 1
      <4>1. k \in 1..n /\ ~(k > n)
        BY <3>2, <1>1
      <4>2. G(f, k) = [r \in R0 |-> UnitThen(s, k, r, f[k + UnitAt(s, k).take])]
        BY <4>1
      <4> HIDE DEF nxt, G, n
      <4> QED BY <4>1, <4>2, <1>5, <1>7
    <3> QED BY <3>1, <3>2
  <2> HIDE DEF G, n
  <2> QED BY <2>1, <2>2
<1> DEFINE g == CHOOSE h : R(h)
<1>9. R(g)
  <2> HIDE DEF R
  <2> QED BY <1>8
<1>10. KanaFrom(s, room) = g
  BY DEF KanaFrom, UnitThen
<1> HIDE DEF g
<1>11. DOMAIN g = 1..(n + 1) /\ g = [k \in 1..(n + 1) |-> g[k]]
  <2>1. g = [k \in 1..(n + 1) |-> G(g, k)]
    BY <1>9
  <2> HIDE DEF G, n
  <2> QED BY <2>1
<1>12. ASSUME NEW k \in 1..(n + 1) PROVE g[k] = G(g, k)
  <2>1. g = [x \in 1..(n + 1) |-> G(g, x)]
    BY <1>9
  <2> DEFINE H(x) == G(g, x)
  <2>2. g = [x \in 1..(n + 1) |-> H(x)]
    BY <2>1
  <2> HIDE DEF G, n, H
  <2>3. g[k] = H(k)
    BY <2>2
  <2> QED BY <2>3 DEF H
<1>13. g[n + 1] = base
  <2>1. n + 1 \in 1..(n + 1) /\ n + 1 > n
    BY <1>1
  <2>2. G(g, n + 1) = base
    BY <2>1
  <2> QED BY <2>1, <2>2, <1>12
<1>14. ASSUME NEW k \in 1..n
       PROVE  g[k] = [r \in R0 |-> UnitThen(s, k, r, g[nxt[k]])]
  <2>1. k \in 1..(n + 1) /\ ~(k > n)
    BY <1>1
  <2>2. G(g, k) = [r \in R0 |-> UnitThen(s, k, r, g[k + UnitAt(s, k).take])]
    BY <2>1
  <2> HIDE DEF nxt, G, n
  <2> QED BY <2>1, <2>2, <1>7, <1>12
<1>15. \A k \in 1..(n + 1) : f[k] = g[k]
  <2>1. ASSUME NEW k \in 1..n, f[nxt[k]] = g[nxt[k]] PROVE f[k] = g[k]
    <3> HIDE DEF nxt, n, R0
    <3> QED BY <2>1, <1>5, <1>14
  <2> HIDE DEF nxt, n, base
  <2>2. Alike(f, g, n, nxt)
    BY <2>1, <1>6, <1>13 DEF Alike
  <2> QED BY <1>1, <1>2, <2>2, SameBackwards
<1>16. g \in [1..(n + 1) -> V]
  <2>1. \A k \in 1..(n + 1) : g[k] \in V
    <3> HIDE DEF n, V
    <3> QED BY <1>15
  <2> HIDE DEF n, V
  <2> QED BY <2>1, <1>11
<1>17. \A r \in R0 : g[n + 1][r] = <<>>
  <2> HIDE DEF n
  <2> QED BY <1>13
<1>18. ASSUME NEW k \in 1..n, NEW r \in R0
       PROVE  g[k][r] = UnitThen(s, k, r, g[k + UnitAt(s, k).take])
  <2> DEFINE U(x) == UnitThen(s, k, x, g[nxt[k]])
  <2>1. g[k] = [x \in R0 |-> U(x)]
    BY <1>14
  <2>2. nxt[k] = k + UnitAt(s, k).take
    BY <1>7
  <2> HIDE DEF nxt, n, R0, U
  <2>3. g[k][r] = U(r)
    BY <2>1
  <2> QED BY <2>2, <2>3 DEF U
<1> QED BY <1>10, <1>16, <1>17, <1>18

-----------------------------------------------------------------------------
(* The loop stores the units of the reference. *)

\* The keys that a pass finds are the ones of the reference.
LEMMA SameKeys ==
  ASSUME TypeOK, i < Len(src)
  PROVE  Matches = Candidates(src, i + 1)
<1>1. src \in Seq(Char) /\ Len(src) \in Nat /\ i \in Nat
  BY InputAssumption DEF TypeOK
<1>2. ASSUME NEW e \in TABLE
      PROVE  e \in Matches <=> e \in Candidates(src, i + 1)
  <2> DEFINE key == e[1]
             n == Len(e[1])
  <2>1. key \in Seq(97..122) /\ n \in Nat /\ DOMAIN key = 1..n
    BY TableAssumption
  <2>2. e \in Matches <=> i + n <= Len(src) /\ key = [x \in 1..n |-> low(x - 1)]
    BY DEF Matches, KeyAt
  <2>3. e \in Candidates(src, i + 1)
          <=> (i + 1) + n <= Len(src) + 1 /\ \A x \in 1..n : LowerCase(src)[(i + 1) + x - 1] = key[x]
    BY <2>1 DEF Candidates
  <2> HIDE DEF key, n
  <2>4. i + n <= Len(src) <=> (i + 1) + n <= Len(src) + 1
    BY <1>1, <2>1
  <2>5. ASSUME i + n <= Len(src), NEW x \in 1..n
        PROVE  low(x - 1) = LowerCase(src)[(i + 1) + x - 1]
    <3>1. i + (x - 1) + 1 = i + x /\ (i + 1) + x - 1 = i + x /\ i + x \in 1..Len(src)
      BY <1>1, <2>1, <2>5
    <3>2. LowerCase(src)[i + x] = to_ascii_lowercase(src[i + x])
      BY <1>1, <3>1, LowerAt
    <3> QED BY <3>1, <3>2 DEF low
  <2>6. key = [x \in 1..n |-> low(x - 1)] <=> \A x \in 1..n : key[x] = low(x - 1)
    <3> DEFINE L(x) == low(x - 1)
    <3> HIDE DEF L
    <3>1. key = [x \in 1..n |-> key[x]]
      BY <2>1
    <3>2. key = [x \in 1..n |-> L(x)] <=> \A x \in 1..n : key[x] = L(x)
      BY <3>1
    <3> QED BY <3>2 DEF L
  <2> QED BY <2>2, <2>3, <2>4, <2>5, <2>6
<1>3. Matches \subseteq TABLE /\ Candidates(src, i + 1) \subseteq TABLE
  BY DEF Matches, Candidates
<1> QED BY <1>2, <1>3

\* So is the doubled consonant.
LEMMA SameDoubled ==
  ASSUME TypeOK, i < Len(src)
  PROVE  Doubled <=> /\ LowerCase(src)[i + 1] \notin {97, 105, 117, 101, 111, 110}
                     /\ i + 1 < Len(src) /\ LowerCase(src)[i + 1 + 1] = LowerCase(src)[i + 1]
<1>1. src \in Seq(Char) /\ Len(src) \in Nat /\ i \in Nat
  BY InputAssumption DEF TypeOK
<1>2. i + 1 \in 1..Len(src) /\ i + 0 + 1 = i + 1
  BY <1>1
<1>3. low(0) = LowerCase(src)[i + 1]
  BY <1>1, <1>2, LowerAt DEF low
<1>4. ASSUME i + 1 < Len(src) PROVE low(1) = LowerCase(src)[i + 1 + 1]
  <2>1. i + 1 + 1 \in 1..Len(src)
    BY <1>1, <1>4
  <2> QED BY <1>1, <2>1, LowerAt DEF low
<1> QED BY <1>3, <1>4 DEF Doubled, is_vowel_or_n

\* A pass appends the unit of the reference: of two longest keys at a position
\* both are the text there, so they are the same entry.
LEMMA PassAppendsUnit ==
  ASSUME TypeOK, PutSokuon \/ PutSyllable \/ PassThrough
  PROVE  i < Len(src) /\ append(UnitAt(src, i + 1).out, UnitAt(src, i + 1).take)
<1>1. i < Len(src) /\ src \in Seq(Char) /\ Len(src) \in Nat /\ i \in Nat
  BY InputAssumption DEF TypeOK, PutSokuon, PutSyllable, PassThrough, InLoop
<1> DEFINE k == i + 1
           c == LowerCase(src)[k]
           keys == Candidates(src, k)
           longest == CHOOSE e \in keys : \A other \in keys : Len(other[1]) <= Len(e[1])
           Double == /\ c \notin {97, 105, 117, 101, 111, 110}
                     /\ k < Len(src) /\ LowerCase(src)[k + 1] = c
<1>2. Doubled <=> Double
  BY <1>1, SameDoubled
<1>3. Matches = keys
  BY <1>1, SameKeys
<1>4. CASE PutSokuon
  <2>1. append(Sokuon, 1) /\ Double
    BY <1>2, <1>4 DEF PutSokuon
  <2>2. UnitAt(src, k) = [out |-> SmallTsu, take |-> 1]
    BY <2>1 DEF UnitAt
  <2>3. UnitAt(src, k).out = Sokuon /\ UnitAt(src, k).take = 1
    BY <2>2 DEF SmallTsu, Sokuon
  <2> QED BY <1>1, <2>1, <2>3
<1>5. CASE PutSyllable
  <2>1. PICK e \in keys : (\A f \in keys : Len(f[1]) <= Len(e[1])) /\ append(e[2], Len(e[1]))
    BY <1>3, <1>5 DEF PutSyllable, LongestFirst
  <2>2. ~Double
    BY <1>2, <1>5 DEF PutSyllable
  <2>3. keys \subseteq TABLE
    BY DEF Candidates
  <2>4. longest \in keys /\ \A other \in keys : Len(other[1]) <= Len(longest[1])
    <3> HIDE DEF keys
    <3> QED BY <2>1
  <2>5. keys # {}
    <3> HIDE DEF keys
    <3> QED BY <2>1
  <2>6. UnitAt(src, k) = [out |-> longest[2], take |-> Len(longest[1])]
    BY <2>2, <2>5 DEF UnitAt
  <2>7. e \in TABLE /\ longest \in TABLE
    <3> HIDE DEF keys, longest
    <3> QED BY <2>1, <2>3, <2>4
  <2>8. Len(longest[1]) = Len(e[1])
    <3>1. Len(e[1]) \in 1..3 /\ Len(longest[1]) \in 1..3
      <4> HIDE DEF longest
      <4> QED BY <2>7, TableAssumption
    <3>2. Len(e[1]) <= Len(longest[1]) /\ Len(longest[1]) <= Len(e[1])
      <4> HIDE DEF keys, longest
      <4> QED BY <2>1, <2>4
    <3> DEFINE x == Len(e[1])
               y == Len(longest[1])
    <3>3. x \in Int /\ y \in Int /\ x <= y /\ y <= x
      BY <3>1, <3>2
    <3> HIDE DEF x, y
    <3>4. x = y
      BY <3>3
    <3> QED BY <3>4 DEF x, y
  <2>9. longest[1] = KeyAt(Len(longest[1])) /\ e[1] = KeyAt(Len(e[1]))
    <3> HIDE DEF longest
    <3> QED BY <1>3, <2>1, <2>4 DEF Matches
  <2>10. longest = e
    <3> HIDE DEF longest, keys
    <3>1. longest[1] = e[1]
      BY <2>8, <2>9
    <3> QED BY <2>7, <3>1, KeyAssumption
  <2> HIDE DEF longest
  <2>11. UnitAt(src, k).out = e[2] /\ UnitAt(src, k).take = Len(e[1])
    BY <2>6, <2>10
  <2> QED BY <1>1, <2>1, <2>11
<1>6. CASE PassThrough
  <2>1. append(<<src[k]>>, 1) /\ ~Double /\ keys = {}
    BY <1>2, <1>3, <1>6 DEF PassThrough
  <2>2. UnitAt(src, k) = [out |-> <<src[k]>>, take |-> 1]
    BY <2>1 DEF UnitAt
  <2>3. UnitAt(src, k).out = <<src[k]>> /\ UnitAt(src, k).take = 1
    BY <2>2
  <2> QED BY <1>1, <2>1, <2>3
<1> QED BY <1>4, <1>5, <1>6

\* What is stored, as a sequence, and the room behind it.
LEMMA WrittenType ==
  ASSUME ConvInv, pc # "call", dst_size > 0
  PROVE  /\ Written \in Seq(Char) /\ Len(Written) = pos
         /\ dst_size - 1 \in Nat /\ pos \in Nat /\ dst_size - 1 - pos \in 0..(dst_size - 1)
<1>1. dst_size \in Nat /\ pos \in Nat /\ pos < dst_size
  BY InputAssumption DEF ConvInv, TypeOK, StringInBuffer
<1>2. ASSUME NEW k \in 1..pos PROVE dst[k - 1] \in Char
  <2>1. k - 1 \in 0..(dst_size - 1) /\ k - 1 \in 0..(pos - 1)
    BY <1>1
  <2>2. dst[k - 1] \in 0..255
    BY <2>1 DEF ConvInv, TypeOK
  <2>3. dst[k - 1] # 0
    BY <2>1 DEF ConvInv, StringInBuffer
  <2> QED BY <2>2, <2>3 DEF Char
<1>3. Written \in Seq(Char) /\ Len(Written) = pos
  <2> DEFINE D(k) == dst[k - 1]
  <2>1. \A k \in 1..pos : D(k) \in Char
    BY <1>2
  <2> HIDE DEF D
  <2>2. [k \in 1..pos |-> D(k)] \in Seq(Char) /\ Len([k \in 1..pos |-> D(k)]) = pos
    BY <1>1, <2>1
  <2> QED BY <2>2 DEF Written, D
<1> QED BY <1>1, <1>3

\* append adds s to what is stored.
LEMMA WrittenGrows ==
  ASSUME ConvInv, pc = "loop", NEW s \in Seq(Char), NEW take, Fits(Len(s)), append(s, take)
  PROVE  Written' = Written \o s
<1>1. dst_size > 0 /\ pos \in Nat /\ Len(s) \in Nat
  BY DEF ConvInv, Begun, TypeOK
<1>2. /\ pos' = pos + Len(s)
      /\ \A k \in 0..(pos - 1) : dst'[k] = dst[k]
      /\ \A k \in 1..Len(s) : dst'[pos + k - 1] = s[k]
  BY <1>1, StoredString, Zenon DEF ConvInv
<1> DEFINE w == Written
           v == Written'
           u == w \o s
<1>3. w \in Seq(Char) /\ Len(w) = pos
  BY <1>1, WrittenType
<1>4. u \in Seq(Char) /\ Len(u) = pos + Len(s) /\ DOMAIN u = 1..(pos + Len(s))
  <2> HIDE DEF w
  <2> QED BY <1>3
<1>5. v = [k \in 1..(pos + Len(s)) |-> dst'[k - 1]]
  BY <1>2 DEF Written
<1>6. ASSUME NEW k \in 1..(pos + Len(s)) PROVE v[k] = u[k]
  <2>1. CASE k <= pos
    <3>1. k \in 1..pos /\ k - 1 \in 0..(pos - 1)
      BY <1>1, <2>1
    <3>2. w[k] = dst[k - 1]
      BY <3>1 DEF Written
    <3>3. v[k] = dst'[k - 1]
      BY <1>5
    <3>4. u[k] = w[k]
      <4> HIDE DEF w
      <4> QED BY <1>3, <3>1
    <3> HIDE DEF u, v, w
    <3> QED BY <1>2, <3>1, <3>2, <3>3, <3>4
  <2>2. CASE k > pos
    <3>1. k - pos \in 1..Len(s) /\ pos + (k - pos) - 1 = k - 1
      BY <1>1, <2>2
    <3>2. u[k] = s[k - pos]
      <4> HIDE DEF w
      <4> QED BY <1>1, <1>3, <2>2
    <3>3. v[k] = dst'[k - 1]
      BY <1>5
    <3>4. dst'[pos + (k - pos) - 1] = s[k - pos]
      BY <1>2, <3>1
    <3>5. dst'[k - 1] = s[k - pos]
      <4> DEFINE x == pos + (k - pos) - 1
                 y == k - 1
      <4>1. x = y
        BY <3>1
      <4>2. dst'[x] = s[k - pos]
        BY <3>4
      <4> HIDE DEF x, y
      <4>3. dst'[y] = s[k - pos]
        BY <4>1, <4>2
      <4> QED BY <4>3 DEF y
    <3> HIDE DEF u, v, w
    <3> QED BY <3>2, <3>3, <3>5
  <2>3. k <= pos \/ k > pos
    BY <1>1
  <2> QED BY <2>1, <2>2, <2>3, Zenon
<1>7. v = [k \in 1..(pos + Len(s)) |-> v[k]] /\ u = [k \in 1..(pos + Len(s)) |-> u[k]]
  <2>1. u = [k \in 1..(pos + Len(s)) |-> u[k]]
    <3> HIDE DEF u
    <3> QED BY <1>4
  <2> QED BY <1>5, <2>1
<1> HIDE DEF u, v, w
<1>8. v = u
  BY <1>6, <1>7
<1> QED BY <1>8 DEF u, v, w

\* What is stored, followed by what the reference makes of the rest of src in
\* the room that is left, is the result of the reference.
RefInv ==
  dst_size > 0 =>
    /\ pc = "loop" => Written \o KanaFrom(src, dst_size - 1)[i + 1][dst_size - 1 - pos]
                        = KanaWithin(src, dst_size - 1)
    /\ MatchesReference

\* A unit that fits moves from the rest to what is stored; with one that does
\* not, nothing more fits in the reference either.
LEMMA RefAppend ==
  ASSUME ConvInv, RefInv, PutSokuon \/ PutSyllable \/ PassThrough
  PROVE  RefInv'
<1>1. pc = "loop" /\ dst_size > 0 /\ TypeOK
  BY DEF PutSokuon, PutSyllable, PassThrough, InLoop, ConvInv, Begun
<1>2. src \in Seq(Char) /\ Len(src) \in Nat /\ i \in Nat /\ dst_size \in Nat
  BY <1>1, InputAssumption DEF TypeOK
<1> DEFINE k == i + 1
           o == UnitAt(src, k).out
           take == UnitAt(src, k).take
           room == dst_size - 1
           left == room - pos
           F == KanaFrom(src, room)
<1>3. i < Len(src) /\ append(o, take)
  BY <1>1, PassAppendsUnit
<1>4. k \in 1..Len(src)
  BY <1>2, <1>3
<1>5. o \in Seq(Char) /\ k + take \in (k + 1)..(Len(src) + 1)
  BY <1>2, <1>4, UnitType
<1>6. Written \in Seq(Char) /\ room \in Nat /\ pos \in Nat /\ left \in 0..room
  BY <1>1, WrittenType
<1>7. src' = src /\ dst_size' = dst_size
  BY <1>3 DEF append
<1>8. Len(o) \in Nat
  BY <1>5
<1>9. F[k][left] = IF Len(o) > left THEN <<>> ELSE o \o F[k + take][left - Len(o)]
  <2>1. F[k][left] = UnitThen(src, k, left, F[k + take])
    BY <1>2, <1>4, <1>6, KanaEquation
  <2> QED BY <2>1 DEF UnitThen
<1>10. Written \o F[k][left] = KanaWithin(src, room)
  BY <1>1 DEF RefInv
<1>11. CASE Fits(Len(o))
  <2>1. pos' = pos + Len(o) /\ i' = i + take /\ pc' = "loop"
    BY <1>3, <1>11 DEF append
  <2>2. Written' = Written \o o
    <3> HIDE DEF o, take
    <3> QED BY <1>1, <1>3, <1>5, <1>11, WrittenGrows
  <2>3. ~(Len(o) > left) /\ left - Len(o) \in 0..room
    <3> HIDE DEF o
    <3> QED BY <1>2, <1>6, <1>8, <1>11 DEF Fits
  <2>4. k + take \in 1..(Len(src) + 1)
    <3> DEFINE m == k + take
    <3>1. m \in (k + 1)..(Len(src) + 1)
      BY <1>5
    <3> HIDE DEF m
    <3>2. m \in 1..(Len(src) + 1)
      BY <1>2, <3>1
    <3> QED BY <3>2 DEF m
  <2> DEFINE t == F[k + take][left - Len(o)]
  <2>5. t \in Seq(Char)
    <3>1. F \in [1..(Len(src) + 1) -> [0..room -> Seq(Char)]]
      BY <1>2, <1>6, KanaEquation
    <3>2. F[k + take] \in [0..room -> Seq(Char)]
      <4> HIDE DEF F, k, take, room
      <4> QED BY <2>4, <3>1
    <3> HIDE DEF F, k, take, room, left, o
    <3> QED BY <2>3, <3>2
  <2>6. Written' \o t = KanaWithin(src, room)
    <3>1. Written \o (o \o t) = KanaWithin(src, room)
      BY <1>9, <1>10, <2>3
    <3> DEFINE w == Written
    <3>2. w \in Seq(Char) /\ o \in Seq(Char) /\ t \in Seq(Char)
      BY <1>5, <1>6, <2>5
    <3> HIDE DEF w, o, t
    <3>3. (w \o o) \o t = w \o (o \o t)
      BY <3>2
    <3> QED BY <3>1, <3>3, <2>2 DEF w
  <2>7. i' + 1 = k + take /\ dst_size' - 1 = room /\ dst_size' - 1 - pos' = left - Len(o)
    <3>1. take \in Int
      <4>1. take \in 1..3
        BY <1>2, <1>4, UnitType
      <4> HIDE DEF take
      <4> QED BY <4>1
    <3> HIDE DEF o, take
    <3> QED BY <1>2, <1>6, <1>7, <1>8, <2>1, <3>1
  <2>8. pc' = "loop" /\ src' = src
    BY <1>7, <2>1
  <2> HIDE DEF F, k, take, o
  <2> QED BY <1>7, <2>6, <2>7, <2>8 DEF RefInv, MatchesReference, t, F
<1>12. CASE ~Fits(Len(o))
  <2>1. pc' = "failed" /\ UNCHANGED <<dst, pos, i>>
    BY <1>3, <1>12 DEF append, KeepNone
  <2>2. Len(o) > left
    <3> HIDE DEF o
    <3> QED BY <1>2, <1>6, <1>8, <1>12 DEF Fits
  <2>3. Written = KanaWithin(src, room)
    <3>1. Written \o <<>> = KanaWithin(src, room)
      BY <1>9, <1>10, <2>2
    <3>2. Written \o <<>> = Written
      BY <1>6
    <3> QED BY <3>1, <3>2
  <2>4. Written' = Written
    BY <2>1 DEF Written
  <2> QED BY <1>7, <2>1, <2>3, <2>4 DEF RefInv, MatchesReference
<1> QED BY <1>11, <1>12

\* Every step keeps the invariant.
LEMMA RefStep == ConvInv /\ RefInv /\ [Next]_vars => RefInv'
<1> SUFFICES ASSUME ConvInv, RefInv, [Next]_vars PROVE RefInv'
  OBVIOUS
<1>1. src \in Seq(Char) /\ Len(src) \in Nat /\ i \in Nat /\ dst_size \in Nat /\ pos \in Nat
  BY InputAssumption DEF ConvInv, TypeOK
<1>2. CASE Start
  <2> SUFFICES ASSUME dst_size > 0 PROVE RefInv'
    BY <1>2 DEF Start, RefInv
  <2>1. pc = "call" /\ pos = 0 /\ i = 0 /\ pc' = "loop" /\ UNCHANGED <<src, dst_size, pos, i>>
    BY <1>1, <1>2 DEF Start, ConvInv, Begun
  <2> DEFINE room == dst_size - 1
             t == KanaFrom(src, room)[1][room]
  <2>2. room \in Nat /\ 1 \in 1..(Len(src) + 1)
    BY <1>1
  <2>3. t \in Seq(Char)
    <3>1. KanaFrom(src, room) \in [1..(Len(src) + 1) -> [0..room -> Seq(Char)]]
      BY <1>1, <2>2, KanaEquation
    <3> HIDE DEF room
    <3> QED BY <2>2, <3>1
  <2>4. Written' = <<>>
    BY <2>1 DEF Written
  <2>5. Written' \o t = KanaWithin(src, room)
    <3> HIDE DEF t
    <3>1. Written' \o t = t
      BY <2>3, <2>4
    <3> QED BY <3>1 DEF t, KanaWithin
  <2>6. i' + 1 = 1 /\ dst_size' - 1 = room /\ dst_size' - 1 - pos' = room
    BY <1>1, <2>1
  <2> QED BY <2>1, <2>5, <2>6 DEF RefInv, MatchesReference
<1>3. CASE PutSokuon \/ PutSyllable \/ PassThrough
  BY <1>3, RefAppend
<1>4. CASE Return
  <2> SUFFICES ASSUME dst_size > 0 PROVE RefInv'
    BY <1>4 DEF Return, RefInv
  <2>1. pc = "loop" /\ pc' = "ok" /\ UNCHANGED <<src, dst_size, dst, pos, i>> /\ i >= Len(src)
    BY <1>4 DEF Return, AtEnd
  <2>2. i + 1 = Len(src) + 1
    BY <1>1, <2>1 DEF ConvInv, TypeOK
  <2>3. Written \in Seq(Char) /\ dst_size - 1 \in Nat /\ dst_size - 1 - pos \in 0..(dst_size - 1)
    BY <2>1, WrittenType
  <2>4. KanaFrom(src, dst_size - 1)[i + 1][dst_size - 1 - pos] = <<>>
    BY <1>1, <2>2, <2>3, KanaEquation
  <2>5. Written = KanaWithin(src, dst_size - 1)
    <3>1. Written \o <<>> = Written
      BY <2>3
    <3> QED BY <2>1, <2>4, <3>1 DEF RefInv
  <2>6. Written' = Written
    BY <2>1 DEF Written
  <2> QED BY <2>1, <2>5, <2>6 DEF RefInv, MatchesReference
<1>5. CASE UNCHANGED vars
  BY <1>5 DEF vars, RefInv, MatchesReference, Written
<1> QED BY <1>2, <1>3, <1>4, <1>5 DEF Next, to_kana

\* romaji_to_kana of romaji.rs computes what the one of romaji.c computes, for
\* every table, every input and every size of the buffer: all units if it
\* returns a length, and as many as fit if it returns -1.
THEOREM ConvMatchesReference == Spec => []MatchesReference
<1>1. Init => RefInv
  BY DEF Init, RefInv, MatchesReference
<1>2. RefInv => MatchesReference
  BY DEF RefInv, MatchesReference
<1> QED BY <1>1, <1>2, ConvCorrect, RefStep, PTL DEF Spec
=============================================================================
