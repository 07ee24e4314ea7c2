----------------------------- MODULE DictProofs -----------------------------
(***************************************************************************)
(* Theorems about module Dict, for every table, every set of queries and   *)
(* every size of the arrays.                                               *)
(*                                                                         *)
(* Sections: the rows a search matches (induction over the table, by its   *)
(* least counterexample), what one row leaves in a slot, the inductive     *)
(* invariant, the invariants it implies, and the refinement of DictService.*)
(***************************************************************************)
EXTENDS Dict, Lemmas

-----------------------------------------------------------------------------
(* The rows a search matches. *)

\* f is the recursive function of Matching, up to position m.
UpTo(b, c, m, f) ==
  f = [k \in 0..m |-> IF k = 0 THEN <<>>
                      ELSE IF Matches(b, c, Table[k]) THEN Append(f[k - 1], Table[k]) ELSE f[k - 1]]

\* There is such a function: one up to m - 1 can be extended to m.
LEMMA UpToExists ==
  ASSUME NEW b, NEW c, NEW m \in Nat
  PROVE  \E f : UpTo(b, c, m, f)
<1> DEFINE T == {x \in Nat : ~ \E f : UpTo(b, c, x, f)}
<1> SUFFICES ASSUME T # {} PROVE FALSE
  OBVIOUS
<1>1. PICK x \in T : \A y \in T : x <= y
  BY Least
<1>2. x # 0
  <2> DEFINE f == [k \in 0..0 |-> <<>>]
  <2>1. UpTo(b, c, 0, f)
    BY DEF UpTo
  <2> QED BY <2>1
<1>3. x - 1 \in Nat /\ x - 1 \notin T
  BY <1>1, <1>2
<1>4. PICK g : UpTo(b, c, x - 1, g)
  BY <1>3
<1> DEFINE Last == IF Matches(b, c, Table[x]) THEN Append(g[x - 1], Table[x]) ELSE g[x - 1]
           f == [k \in 0..x |-> IF k < x THEN g[k] ELSE Last]
           Value(k) == IF k = 0 THEN <<>>
                       ELSE IF Matches(b, c, Table[k]) THEN Append(f[k - 1], Table[k]) ELSE f[k - 1]
<1>5. \A k \in 0..(x - 1) : f[k] = g[k]
  BY <1>3
<1>6. \A k \in 0..(x - 1) :
        g[k] = IF k = 0 THEN <<>>
               ELSE IF Matches(b, c, Table[k]) THEN Append(g[k - 1], Table[k]) ELSE g[k - 1]
  BY <1>4 DEF UpTo
<1>7. ASSUME NEW k \in 0..x PROVE f[k] = Value(k)
  <2>1. CASE k < x
    <3>1. k \in 0..(x - 1) /\ (k = 0 \/ k - 1 \in 0..(x - 1))
      BY <2>1, <1>3
    <3> HIDE DEF f
    <3> QED BY <3>1, <1>5, <1>6
  <2>2. CASE k = x
    <3>1. f[x] = Last /\ f[x - 1] = g[x - 1]
      BY <1>3, <1>5
    <3> HIDE DEF f
    <3> QED BY <3>1, <2>2, <1>2
  <2> QED BY <2>1, <2>2, <1>3
<1>8. UpTo(b, c, x, f)
  <2>1. f = [k \in 0..x |-> f[k]]
    OBVIOUS
  <2> HIDE DEF f
  <2>2. f = [k \in 0..x |-> Value(k)]
    BY <2>1, <1>7
  <2> QED BY <2>2 DEF UpTo
<1> QED BY <1>1, <1>8

\* Matching is the last value of that function.
LEMMA MatchingValue ==
  ASSUME NEW b, NEW c
  PROVE  \E f : UpTo(b, c, Len(Table), f) /\ Matching(b, c) = f[Len(Table)]
<1>1. Len(Table) \in Nat
  BY TableAssumption
<1>2. \E f : UpTo(b, c, Len(Table), f)
  BY <1>1, UpToExists
<1>3. UpTo(b, c, Len(Table), CHOOSE f : UpTo(b, c, Len(Table), f))
  BY <1>2
<1>4. Matching(b, c) = (CHOOSE f : UpTo(b, c, Len(Table), f))[Len(Table)]
  BY DEF Matching, UpTo
<1> QED BY <1>3, <1>4

\* The rows of the table.
Rows == Elements(Table)

\* Every row a search matches is a row of the table, and every row that
\* the WHERE clause accepts is among them.
LEMMA MatchingRows ==
  ASSUME NEW b, NEW c
  PROVE  /\ Matching(b, c) \in Seq(Rows)
         /\ \A x \in DOMAIN Table : Matches(b, c, Table[x]) =>
              \E k \in DOMAIN Matching(b, c) : Matching(b, c)[k] = Table[x]
<1>1. PICK f : UpTo(b, c, Len(Table), f) /\ Matching(b, c) = f[Len(Table)]
  BY MatchingValue
<1> DEFINE Good(m) == /\ f[m] \in Seq(Rows)
                      /\ \A x \in 1..m : Matches(b, c, Table[x]) =>
                           \E k \in DOMAIN f[m] : f[m][k] = Table[x]
           T == {m \in 0..Len(Table) : ~Good(m)}
<1>2. Len(Table) \in Nat /\ DOMAIN Table = 1..Len(Table)
  BY TableAssumption
<1>3. \A m \in 0..Len(Table) :
        f[m] = IF m = 0 THEN <<>>
               ELSE IF Matches(b, c, Table[m]) THEN Append(f[m - 1], Table[m]) ELSE f[m - 1]
  BY <1>1 DEF UpTo
<1>4. T = {}
  <2> SUFFICES ASSUME T # {} PROVE FALSE
    OBVIOUS
  <2>0. T \in SUBSET Nat
    BY <1>2
  <2>1. PICK m \in T : \A y \in T : m <= y
    <3> HIDE DEF T
    <3> QED BY Least, <2>0
  <2>2. CASE m = 0
    <3>1. f[0] = <<>>
      BY <1>2, <1>3
    <3>2. Good(0)
      BY <3>1
    <3> QED BY <3>2, <2>1, <2>2
  <2>3. CASE m # 0
    <3>1. m \in 1..Len(Table) /\ m - 1 \in 0..Len(Table) /\ m - 1 \notin T
      BY <2>1, <2>3, <1>2
    <3>2. Good(m - 1)
      BY <3>1
    <3>3. Table[m] \in Rows
      BY <3>1, <1>2 DEF Rows, Elements
    <3>4. CASE Matches(b, c, Table[m])
      <4>1. f[m] = Append(f[m - 1], Table[m])
        BY <1>3, <3>1, <3>4, <2>1, <2>3
      <4>2. f[m] \in Seq(Rows)
        BY <4>1, <3>2, <3>3
      <4>3. ASSUME NEW x \in 1..m, Matches(b, c, Table[x])
            PROVE  \E k \in DOMAIN f[m] : f[m][k] = Table[x]
        <5>1. CASE x = m
          <6>1. Len(f[m - 1]) + 1 \in DOMAIN f[m] /\ f[m][Len(f[m - 1]) + 1] = Table[m]
            BY <4>1, <3>2
          <6> QED BY <6>1, <5>1
        <5>2. CASE x # m
          <6>1. x \in 1..(m - 1)
            BY <5>2, <3>1
          <6>2. PICK k \in DOMAIN f[m - 1] : f[m - 1][k] = Table[x]
            BY <6>1, <4>3, <3>2
          <6>3. k \in DOMAIN f[m] /\ f[m][k] = f[m - 1][k]
            BY <6>2, <4>1, <3>2
          <6> QED BY <6>2, <6>3
        <5> QED BY <5>1, <5>2
      <4> QED BY <4>2, <4>3, <2>1
    <3>5. CASE ~Matches(b, c, Table[m])
      <4>1. f[m] = f[m - 1]
        BY <1>3, <3>1, <3>5
      <4>2. \A x \in 1..m : Matches(b, c, Table[x]) => x \in 1..(m - 1)
        BY <3>1, <3>5
      <4> QED BY <4>1, <4>2, <3>2, <2>1
    <3> QED BY <3>4, <3>5
  <2> QED BY <2>2, <2>3
<1>5. Good(Len(Table))
  BY <1>4, <1>2
<1> QED BY <1>5, <1>1, <1>2

\* No row that the WHERE clause accepts is lost.
LEMMA NoMatchLost ==
  ASSUME NEW b, NEW c, NEW x \in DOMAIN Table, Matches(b, c, Table[x])
  PROVE  \E k \in DOMAIN Matching(b, c) : Matching(b, c)[k] = Table[x]
  BY MatchingRows

\* What a search gives back is made of rows of the table.
LEMMA LimitedRows ==
  ASSUME NEW b, NEW c
  PROVE  /\ Matching(b, c) \in Seq(Rows)
         /\ Limited(Matching(b, c)) \in Seq(Rows)
         /\ Len(Limited(Matching(b, c))) = Shorter(Len(Matching(b, c)), DICT_MAX_RESULTS)
         /\ \A k \in 1..Len(Limited(Matching(b, c))) :
              /\ k <= Len(Matching(b, c))
              /\ Limited(Matching(b, c))[k] = Matching(b, c)[k]
<1>1. Matching(b, c) \in Seq(Rows)
  BY MatchingRows
<1> QED BY <1>1, SizeAssumption DEF Limited, Shorter

-----------------------------------------------------------------------------
(* What one row leaves in a slot. *)

\* A row of the table is made of text, and its senses are one text at most.
LEMMA RowType ==
  ASSUME NEW row \in Rows
  PROVE  /\ row \in Row
         /\ \A e \in Elements(row.kanji) \cup Elements(row.readings) : e \in Seq(Byte) /\ Whole(e)
         /\ row.senses # <<>> =>
              /\ sanitize(row.senses[1]) \in Seq(Byte)
              /\ Len(sanitize(row.senses[1])) < DICT_DETAIL_LEN - 1 =>
                   Whole(sanitize(row.senses[1]))
<1>1. PICK k \in DOMAIN Table : row = Table[k]
  BY DEF Rows, Elements
<1>2. row \in Row
  BY <1>1, TableAssumption
<1>3. ASSUME NEW e \in Elements(row.kanji) \cup Elements(row.readings) PROVE e \in Seq(Byte)
  <2>1. e \in Seq(Byte \ {59})
    BY <1>2 DEF Row, Text, Elements
  <2> QED BY <2>1
<1>4. row.senses # <<>> => row.senses[1] \in Elements(row.senses)
  BY <1>2 DEF Row, Elements
<1> QED BY <1>1, <1>2, <1>3, <1>4, TableAssumption, TextAssumption

\* r is what appending an element to dst may give.
Appended(dst, r) ==
  /\ r \in Seq(Byte)
  /\ Len(r) >= Len(dst)
  /\ Len(r) <= DICT_WORD_LEN - 1 \/ r = dst
  /\ Whole(dst) => Whole(r) \/ Len(r) >= DICT_WORD_LEN - 1

\* Appending an element: the string grows to the end of word[] at most, and one
\* that does not reach it is whole if it was.
LEMMA AppendElement ==
  ASSUME NEW dst \in Seq(Byte), NEW src \in Text,
         \A e \in Elements(src) : e \in Seq(Byte) /\ Whole(e)
  PROVE  Appended(dst, append_first_element(dst, src))
<1> DEFINE r == append_first_element(dst, src)
<1>1. CASE src = <<>> \/ Len(dst) >= DICT_WORD_LEN - 1
  BY <1>1 DEF append_first_element, Appended
<1>2. CASE src # <<>> /\ Len(dst) < DICT_WORD_LEN - 1
  <2>1. src[1] \in Elements(src)
    BY <1>2 DEF Text, Elements
  <2>2. src[1] \in Seq(Byte) /\ Whole(src[1])
    BY <2>1
  <2> DEFINE e == src[1]
             room == DICT_WORD_LEN - Len(dst) - 1
  <2>3. room \in Nat \ {0}
    BY <1>2, SizeAssumption
  <2>4. r = dst \o SubSeq(e, 1, Shorter(Len(e), room))
    <3>1. ~(src = <<>> \/ Len(dst) >= DICT_WORD_LEN - 1)
      BY <1>2, SizeAssumption
    <3> QED BY <3>1, Zenon DEF append_first_element
  <2>5. CASE Len(e) <= room
    <3>1. r = dst \o e
      BY <2>2, <2>3, <2>4, <2>5 DEF Shorter
    <3>2. Whole(dst) => Whole(r)
      BY <3>1, <2>2, WholeConcat
    <3> QED BY <3>1, <3>2, <2>2, <2>3, <2>5, SizeAssumption DEF Appended
  <2>6. CASE Len(e) > room
    <3>1. r = dst \o SubSeq(e, 1, room)
      BY <2>2, <2>3, <2>4, <2>6 DEF Shorter
    <3>2. SubSeq(e, 1, room) \in Seq(Byte) /\ Len(SubSeq(e, 1, room)) = room
      BY <2>2, <2>3, <2>6
    <3> QED BY <3>1, <3>2, <2>3, SizeAssumption DEF Appended
  <2> QED BY <2>5, <2>6, <2>2, <2>3
<1> QED BY <1>1, <1>2, SizeAssumption

\* r is what copying an element may give.
Copied(r) ==
  /\ r \in Seq(Byte)
  /\ Len(r) <= DICT_WORD_LEN - 1
  /\ Whole(r) \/ Len(r) >= DICT_WORD_LEN - 1

\* Copying an element, in the library: there is room for its NUL.
LEMMA CopyElement ==
  ASSUME NEW src \in Text, \A e \in Elements(src) : e \in Seq(Byte) /\ Whole(e)
  PROVE  Copied(copy_first_element(src))
<1>1. CASE src = <<>>
  BY <1>1, SizeAssumption DEF copy_first_element, Whole, Copied
<1>2. CASE src # <<>>
  <2> DEFINE e == src[1]
             m == DICT_WORD_LEN - 1
  <2>1. e \in Elements(src)
    BY <1>2 DEF Text, Elements
  <2>2. e \in Seq(Byte) /\ Whole(e) /\ m \in Nat
    BY <2>1, SizeAssumption
  <2>3. copy_first_element(src) = SubSeq(e, 1, Shorter(Len(e), m))
    BY <1>2 DEF copy_first_element
  <2> HIDE DEF e, m
  <2>4. CASE Len(e) <= m
    <3>1. copy_first_element(src) = e
      BY <2>2, <2>3, <2>4 DEF Shorter
    <3> QED BY <3>1, <2>2, <2>4 DEF m, Copied
  <2>5. CASE Len(e) > m
    <3>1. copy_first_element(src) = SubSeq(e, 1, m)
      BY <2>2, <2>3, <2>5 DEF Shorter
    <3>2. SubSeq(e, 1, m) \in Seq(Byte) /\ Len(SubSeq(e, 1, m)) = m
      BY <2>2, <2>5
    <3> QED BY <3>1, <3>2, <2>2 DEF m, Copied
  <2> QED BY <2>4, <2>5, <2>2
<1> QED BY <1>1, <1>2

\* The brackets around a reading are text, and so is "NULL".
LEMMA Literals ==
  /\ Open \in Seq(Byte) /\ Len(Open) = 2 /\ Whole(Open)
  /\ Close \in Seq(Byte) /\ Len(Close) = 2 /\ Whole(Close)
  /\ NULLText \in Seq(Byte) /\ Len(NULLText) = 4 /\ Whole(NULLText)
<1>1. ASSUME NEW s, \A k \in 1..Len(s) : s[k] \in 0..127 PROVE Whole(s)
  <2>1. ASSUME NEW k \in 1..Len(s) PROVE WholeAt(s, k)
    <3> DEFINE x == s[k]
    <3>1. x \in 0..127
      BY <1>1
    <3> HIDE DEF x
    <3>2. x \notin 240..247 /\ x \notin 224..239 /\ x \notin 192..223
      BY <3>1
    <3>3. Continuing(x) = 0
      BY <3>2 DEF Continuing
    <3> QED BY <3>3 DEF WholeAt, x
  <2> QED BY <2>1 DEF Whole
<1>2. /\ \A k \in 1..Len(Open) : Open[k] \in 0..127
      /\ \A k \in 1..Len(Close) : Close[k] \in 0..127
      /\ \A k \in 1..Len(NULLText) : NULLText[k] \in 0..127
  BY DEF Open, Close, NULLText
<1>3. /\ Open \in Seq(Byte) /\ Len(Open) = 2
      /\ Close \in Seq(Byte) /\ Len(Close) = 2
      /\ NULLText \in Seq(Byte) /\ Len(NULLText) = 4
  BY DEF Open, Close, NULLText, Byte
<1> QED BY <1>1, <1>2, <1>3

\* w can be the word of a row.
WordFits(b, w) ==
  /\ w \in Seq(Byte)
  /\ Len(w) <= DICT_WORD_LEN + 3
  /\ b = "library" => Len(w) < DICT_WORD_LEN
  /\ Len(w) < DICT_WORD_LEN - 1 => Whole(w)

\* The word of a row: strcat takes it three bytes past word[] at most, and only
\* in the simulator; what does not fill word[] is whole.
LEMMA WordFacts ==
  ASSUME NEW b \in Builds, NEW row \in Rows
  PROVE  WordFits(b, WordOf(b, row))
<1>1. row.kanji \in Text /\ row.readings \in Text
  BY RowType DEF Row
<1>2. /\ \A e \in Elements(row.kanji) : e \in Seq(Byte) /\ Whole(e)
      /\ \A e \in Elements(row.readings) : e \in Seq(Byte) /\ Whole(e)
  BY RowType
<1> DEFINE hasKanji == row.kanji \notin {<<>>, <<<<>>>>}
           w == WordOf(b, row)
<1>3. b \in {"simulator", "library"}
  BY SizeAssumption
<1>4. <<>> \in Seq(Byte) /\ Len(<<>>) = 0 /\ Whole(<<>>)
  BY DEF Whole
<1>5. CASE b = "library"
  <2>1. w = copy_first_element(IF hasKanji THEN row.kanji ELSE row.readings)
    BY <1>5 DEF WordOf
  <2>2. CASE hasKanji
    <3>1. w = copy_first_element(row.kanji)
      BY <2>1, <2>2
    <3>2. Copied(w)
      BY <3>1, <1>1, <1>2, CopyElement
    <3> HIDE DEF w
    <3>3. WordFits(b, w)
      BY <3>2, SizeAssumption DEF Copied, WordFits
    <3> QED BY <3>3 DEF w
  <2>3. CASE ~hasKanji
    <3>1. w = copy_first_element(row.readings)
      BY <2>1, <2>3
    <3>2. Copied(w)
      BY <3>1, <1>1, <1>2, CopyElement
    <3> HIDE DEF w
    <3>3. WordFits(b, w)
      BY <3>2, SizeAssumption DEF Copied, WordFits
    <3> QED BY <3>3 DEF w
  <2> QED BY <2>2, <2>3
<1>6. CASE b = "simulator" /\ hasKanji
  <2> DEFINE k == append_first_element(<<>>, row.kanji)
             o == k \o Open
             r == append_first_element(o, row.readings)
  <2>1. w = r \o Close
    BY <1>6 DEF WordOf
  <2>2. k \in Seq(Byte) /\ Len(k) <= DICT_WORD_LEN - 1 /\ (Whole(k) \/ Len(k) >= DICT_WORD_LEN - 1)
    <3>1. Appended(<<>>, k)
      BY <1>1, <1>2, <1>4, AppendElement
    <3> HIDE DEF k
    <3> QED BY <3>1, <1>4, SizeAssumption DEF Appended
  <2> HIDE DEF k
  <2>3. /\ o \in Seq(Byte) /\ Len(o) = Len(k) + 2
        /\ Whole(k) => Whole(o)
    <3>1. o \in Seq(Byte) /\ Len(o) = Len(k) + 2
      BY <2>2, Literals, ConcatType
    <3>2. Whole(k) => Whole(o)
      BY <2>2, Literals, WholeConcat
    <3> QED BY <3>1, <3>2
  <2> HIDE DEF o
  <2>4. /\ r \in Seq(Byte) /\ Len(r) >= Len(o)
        /\ Len(r) <= DICT_WORD_LEN - 1 \/ r = o
        /\ Whole(o) => Whole(r) \/ Len(r) >= DICT_WORD_LEN - 1
    <3>1. Appended(o, r)
      BY <2>3, <1>1, <1>2, AppendElement
    <3> HIDE DEF r
    <3> QED BY <3>1 DEF Appended
  <2> HIDE DEF r
  <2>5. /\ w \in Seq(Byte) /\ Len(w) = Len(r) + 2
        /\ Whole(r) => Whole(w)
    <3>1. w \in Seq(Byte) /\ Len(w) = Len(r) + 2
      <4>1. r \o Close \in Seq(Byte) /\ Len(r \o Close) = Len(r) + Len(Close)
        BY <2>4, Literals, ConcatType
      <4> QED BY <4>1, <2>1, Literals
    <3>2. Whole(r) => Whole(w)
      BY <2>1, <2>4, Literals, WholeConcat
    <3> QED BY <3>1, <3>2
  <2> HIDE DEF w
  <2>6. Len(k) \in Nat /\ Len(o) \in Nat /\ Len(r) \in Nat
    BY <2>2, <2>3, <2>4
  <2>7. Len(w) <= DICT_WORD_LEN + 3
    BY <2>2, <2>3, <2>4, <2>5, <2>6, SizeAssumption
  <2>8. Len(w) < DICT_WORD_LEN - 1 => Whole(w)
    BY <2>2, <2>3, <2>4, <2>5, <2>6, SizeAssumption
  <2>9. WordFits(b, w)
    BY <2>5, <2>7, <2>8, <1>6 DEF WordFits
  <2> QED BY <2>9 DEF w
<1>7. CASE b = "simulator" /\ ~hasKanji
  <2>1. w = append_first_element(<<>>, row.readings)
    BY <1>7 DEF WordOf
  <2>2. Appended(<<>>, w)
    BY <2>1, <1>1, <1>2, <1>4, AppendElement
  <2> HIDE DEF w
  <2>3. WordFits(b, w)
    BY <2>2, <1>4, <1>7, SizeAssumption DEF Appended, WordFits
  <2> QED BY <2>3 DEF w
<1> QED BY <1>3, <1>5, <1>6, <1>7

\* d can be the detail of a row.
DetailFits(d) ==
  /\ d \in Seq(Byte)
  /\ Len(d) < DICT_DETAIL_LEN
  /\ Len(d) < DICT_DETAIL_LEN - 1 => Whole(d)

\* The detail of a row leaves room for its NUL and is whole if it does not fill
\* detail[].
LEMMA DetailFacts ==
  ASSUME NEW b \in Builds, NEW row \in Rows
  PROVE  DetailFits(DetailOf(b, row))
<1> DEFINE s == IF row.senses # <<>> THEN sanitize(row.senses[1])
                ELSE IF b = "library" THEN <<>> ELSE NULLText
           m == DICT_DETAIL_LEN - 1
<1>1. <<>> \in Seq(Byte) /\ Whole(<<>>)
  BY DEF Whole
<1>2. s \in Seq(Byte) /\ (Len(s) < m => Whole(s)) /\ m \in Nat
  BY <1>1, RowType, Literals, SizeAssumption
<1>3. DetailOf(b, row) = SubSeq(s, 1, Shorter(Len(s), m))
  BY DEF DetailOf
<1> HIDE DEF s, m
<1>4. CASE Len(s) <= m
  <2>1. DetailOf(b, row) = s
    BY <1>2, <1>3, <1>4 DEF Shorter
  <2> QED BY <2>1, <1>2, <1>4, SizeAssumption DEF m, DetailFits
<1>5. CASE Len(s) > m
  <2>1. DetailOf(b, row) = SubSeq(s, 1, m)
    BY <1>2, <1>3, <1>5 DEF Shorter
  <2>2. SubSeq(s, 1, m) \in Seq(Byte) /\ Len(SubSeq(s, 1, m)) = m
    BY <1>2, <1>5
  <2> QED BY <2>1, <2>2, <1>2, SizeAssumption DEF m, DetailFits
<1> QED BY <1>2, <1>4, <1>5

\* accent[0] = '\0' cuts a word that ran over and leaves the others alone.
LEMMA EndedFacts ==
  ASSUME NEW b, NEW w, WordFits(b, w)
  PROVE  WordFits(b, EndedAtAccent(w)) /\ Len(EndedAtAccent(w)) <= DICT_WORD_LEN
<1>1. w \in Seq(Byte) /\ Len(w) \in Nat /\ DICT_WORD_LEN \in Nat
  BY SizeAssumption DEF WordFits
<1>2. CASE Len(w) <= DICT_WORD_LEN
  <2>1. EndedAtAccent(w) = w
    BY <1>1, <1>2 DEF EndedAtAccent, Shorter
  <2> QED BY <2>1, <1>2
<1>3. CASE Len(w) > DICT_WORD_LEN
  <2>1. EndedAtAccent(w) = SubSeq(w, 1, DICT_WORD_LEN)
    BY <1>1, <1>3 DEF EndedAtAccent, Shorter
  <2>2. EndedAtAccent(w) \in Seq(Byte) /\ Len(EndedAtAccent(w)) = DICT_WORD_LEN
    BY <2>1, <1>1, <1>3
  <2> QED BY <2>2, <1>1, <1>3 DEF WordFits
<1> QED BY <1>1, <1>2, <1>3

-----------------------------------------------------------------------------
(* The inductive invariant. *)

\* The rows the latest search asked for.
Answer == Limited(Matching(build, call))

\* Every slot holds a word and a detail some row can have, and only the slot
\* that is being filled has a word that runs into accent[].
SlotsFit ==
  \A k \in Slot :
    /\ WordFits(build, g_results[k].word) /\ DetailFits(g_results[k].detail)
    /\ Len(g_results[k].word) <= DICT_WORD_LEN \/ (pc = "row" /\ k = n)

\* The slots below n hold the first n rows of the answer, in order.
Stored ==
  /\ n <= Len(Answer)
  /\ \A k \in 0..(n - 1) : g_results[k] = EntryOf(build, Answer[k + 1])

\* The statement still has the others, and slot n has the word of the next one
\* while pc is "row"; a search that is DONE has none left.
Progress ==
  /\ pc # "idle" => cursor = SubSeq(Answer, n + 1, Len(Answer))
  /\ pc = "row" => n < Len(Answer) /\ g_results[n].word = WordOf(build, Answer[n + 1])
  /\ (pc = "idle" /\ rc = "DONE") => n = Len(Answer)

Inv == TypeOK /\ SlotsFit /\ Stored /\ Progress

\* The answer is a sequence of rows of the table, capped.
LEMMA AnswerType ==
  /\ Answer \in Seq(Rows)
  /\ Len(Answer) \in Nat /\ Len(Answer) <= DICT_MAX_RESULTS
  /\ \A k \in 1..Len(Answer) : Answer[k] \in Rows
<1>1. Answer \in Seq(Rows) /\ Len(Answer) = Shorter(Len(Matching(build, call)), DICT_MAX_RESULTS)
  BY LimitedRows DEF Answer
<1>2. Matching(build, call) \in Seq(Rows)
  BY LimitedRows
<1>3. Len(Answer) <= DICT_MAX_RESULTS
  BY <1>1, <1>2, SizeAssumption DEF Shorter
<1> QED BY <1>1, <1>3

\* Rows of the table are rows.
LEMMA RowsAreRows == \A s \in Seq(Rows) : s \in Seq(Row)
<1>1. \A row \in Rows : row \in Row
  BY RowType
<1> QED BY <1>1

\* It holds at the start.
LEMMA InvInit == Init => Inv
<1> SUFFICES ASSUME Init PROVE Inv
  OBVIOUS
<1>1. <<>> \in Seq(Byte) /\ Len(<<>>) = 0 /\ Whole(<<>>)
  BY DEF Whole
<1>2. TypeOK
  BY <1>1, SizeAssumption DEF Init, TypeOK, Slot
<1>3. SlotsFit
  <2>1. WordFits(build, <<>>) /\ DetailFits(<<>>) /\ Len(<<>>) <= DICT_WORD_LEN
    BY <1>1, SizeAssumption DEF WordFits, DetailFits
  <2>2. \A k \in Slot : g_results[k].word = <<>> /\ g_results[k].detail = <<>>
    BY DEF Init
  <2> QED BY <2>1, <2>2 DEF SlotsFit
<1>4. Stored /\ Progress
  BY AnswerType DEF Init, Stored, Progress
<1> QED BY <1>2, <1>3, <1>4 DEF Inv

\* dict_open and dict_close leave the search and its slots alone.
LEMMA InvHandle == Inv /\ (dict_open \/ dict_close) => Inv'
<1> SUFFICES ASSUME Inv, dict_open \/ dict_close PROVE Inv'
  OBVIOUS
<1>1. /\ UNCHANGED <<build, g_results, pc, call, cursor, n, rc>>
      /\ g_db' \in {"NULL", "open", "failed"}
  BY DEF dict_open, dict_close, search
<1>2. Answer' = Answer
  BY <1>1 DEF Answer
<1> QED BY <1>1, <1>2 DEF Inv, TypeOK, SlotsFit, Stored, Progress

\* A new search forgets the rows of the one before.
LEMMA InvPrepare ==
  ASSUME NEW q \in Query, NEW en \in BOOLEAN, Inv, Prepare(q, en)
  PROVE  Inv'
<1>1. /\ UNCHANGED <<build, g_db, g_results>> /\ n' = 0
      /\ call' = [query |-> q, en |-> en] /\ pc = "idle"
      /\ \/ pc' = "scan" /\ cursor' = Limited(Matching(build, call')) /\ rc' = "none"
         \/ pc' = "idle" /\ cursor' = <<>> /\ rc' = "ERROR"
  BY DEF Prepare, ResetCount
<1>2. Answer' = Limited(Matching(build, call'))
  BY <1>1 DEF Answer
<1>3. Answer' \in Seq(Rows) /\ Len(Answer') \in Nat
  BY <1>2, LimitedRows
<1>4. TypeOK'
  <2>1. cursor' \in Seq(Row)
    <3>1. cursor' = Answer' \/ cursor' = <<>>
      BY <1>1, <1>2
    <3>2. <<>> \in Seq(Row)
      OBVIOUS
    <3> QED BY <3>1, <3>2, <1>3, RowsAreRows, Zenon
  <2>2. call' \in [query : {<<>>} \cup Query, en : BOOLEAN]
    BY <1>1
  <2> QED BY <1>1, <2>1, <2>2, SizeAssumption DEF Inv, TypeOK
<1>5. SlotsFit'
  BY <1>1 DEF Inv, SlotsFit
<1>6. Stored'
  BY <1>1, <1>3 DEF Stored
<1>7. Progress'
  <2>1. pc' # "idle" => cursor' = SubSeq(Answer', 1, Len(Answer'))
    BY <1>1, <1>2, <1>3
  <2> QED BY <1>1, <2>1 DEF Progress
<1> QED BY <1>4, <1>5, <1>6, <1>7 DEF Inv

\* The row a scan is at: the next one of the answer.
LEMMA NextRow ==
  ASSUME Inv, pc # "idle", cursor # <<>>
  PROVE  /\ n \in Slot /\ n < Len(Answer) /\ n \in Nat
         /\ Head(cursor) = Answer[n + 1] /\ Head(cursor) \in Rows
         /\ Tail(cursor) = SubSeq(Answer, n + 2, Len(Answer))
<1>1. n \in Nat /\ n <= Len(Answer) /\ cursor = SubSeq(Answer, n + 1, Len(Answer))
  BY DEF Inv, TypeOK, Stored, Progress
<1>2. n < Len(Answer)
  <2> SUFFICES ASSUME n = Len(Answer) PROVE FALSE
    BY <1>1, AnswerType
  <2> QED BY <1>1, AnswerType
<1>3. Head(cursor) = Answer[n + 1]
  BY <1>1, <1>2, AnswerType
<1>4. Tail(cursor) = SubSeq(Answer, n + 2, Len(Answer))
  BY <1>1, <1>2, AnswerType
<1>5. n \in Slot
  BY <1>1, <1>2, AnswerType, SizeAssumption DEF Slot
<1>6. n + 1 \in 1..Len(Answer)
  BY <1>1, <1>2, AnswerType
<1> QED BY <1>1, <1>2, <1>3, <1>4, <1>5, <1>6, AnswerType

\* The word of the next row goes into slot n, which no count covers yet.
LEMMA InvStoreWord == Inv /\ StoreWord => Inv'
<1> SUFFICES ASSUME Inv, StoreWord PROVE Inv'
  OBVIOUS
<1> DEFINE w == WordOf(build, Head(cursor))
<1>1. /\ UNCHANGED <<build, g_db, call, cursor, n, rc>>
      /\ pc = "scan" /\ pc' = "row" /\ cursor # <<>>
      /\ g_results' = [g_results EXCEPT ![n].word = w]
  BY DEF StoreWord, search
<1>2. /\ n \in Slot /\ n < Len(Answer) /\ n \in Nat
      /\ Head(cursor) = Answer[n + 1] /\ Head(cursor) \in Rows
  BY <1>1, NextRow
<1>3. Answer' = Answer
  BY <1>1 DEF Answer
<1>4. WordFits(build, w)
  BY <1>2, WordFacts DEF Inv, TypeOK
<1>5. w \in Seq(Byte) /\ w = WordOf(build, Answer[n + 1])
  BY <1>2, <1>4 DEF WordFits
<1> HIDE DEF w
<1>6. g_results \in [Slot -> [word : Seq(Byte), detail : Seq(Byte)]]
  BY DEF Inv, TypeOK
<1>7. /\ g_results' \in [Slot -> [word : Seq(Byte), detail : Seq(Byte)]]
      /\ g_results'[n].word = w /\ g_results'[n].detail = g_results[n].detail
      /\ \A k \in Slot : k # n => g_results'[k] = g_results[k]
  BY <1>1, <1>2, <1>5, <1>6
<1>8. TypeOK'
  BY <1>1, <1>7 DEF Inv, TypeOK
<1>9. SlotsFit'
  BY <1>1, <1>4, <1>7 DEF Inv, SlotsFit
<1>10. Stored'
  <2>1. \A k \in 0..(n - 1) : k \in Slot /\ k # n
    BY <1>2, SizeAssumption DEF Slot
  <2> QED BY <2>1, <1>1, <1>3, <1>7 DEF Inv, Stored
<1>11. Progress'
  BY <1>1, <1>2, <1>3, <1>5, <1>7 DEF Inv, Progress
<1> QED BY <1>8, <1>9, <1>10, <1>11 DEF Inv

\* The rest of the row goes into slot n, and the count covers it.
LEMMA InvStoreDetail == Inv /\ StoreDetail => Inv'
<1> SUFFICES ASSUME Inv, StoreDetail PROVE Inv'
  OBVIOUS
<1> DEFINE w == EndedAtAccent(g_results[n].word)
           d == DetailOf(build, Head(cursor))
<1>1. /\ UNCHANGED <<build, g_db, call, rc>>
      /\ pc = "row" /\ pc' = "scan" /\ n' = n + 1 /\ cursor' = Tail(cursor)
      /\ g_results' = [g_results EXCEPT ![n].detail = d, ![n].word = EndedAtAccent(@)]
  BY DEF StoreDetail, CountRow
<1>2. /\ n \in Nat /\ n < Len(Answer) /\ cursor = SubSeq(Answer, n + 1, Len(Answer))
      /\ g_results[n].word = WordOf(build, Answer[n + 1])
  BY <1>1 DEF Inv, TypeOK, Progress
<1>3. cursor # <<>>
  <2>1. Len(cursor) = Len(Answer) - n
    BY <1>2, AnswerType
  <2>2. Len(cursor) # 0
    BY <2>1, <1>2, AnswerType
  <2> QED BY <2>2
<1>4. /\ n \in Slot /\ Head(cursor) = Answer[n + 1] /\ Head(cursor) \in Rows
      /\ Tail(cursor) = SubSeq(Answer, n + 2, Len(Answer))
  BY <1>1, <1>3, NextRow
<1>5. Answer' = Answer
  BY <1>1 DEF Answer
<1>6. WordFits(build, w) /\ Len(w) <= DICT_WORD_LEN
  BY <1>4, EndedFacts DEF Inv, SlotsFit
<1>7. DetailFits(d)
  BY <1>4, DetailFacts DEF Inv, TypeOK
<1>8. [word |-> w, detail |-> d] = EntryOf(build, Answer[n + 1])
  BY <1>2, <1>4 DEF EntryOf
<1>9. w \in Seq(Byte) /\ d \in Seq(Byte)
  BY <1>6, <1>7 DEF WordFits, DetailFits
<1>10. g_results \in [Slot -> [word : Seq(Byte), detail : Seq(Byte)]]
  BY DEF Inv, TypeOK
<1>11. g_results' = [g_results EXCEPT ![n] = [word |-> w, detail |-> d]]
  <2> DEFINE first == [g_results EXCEPT ![n].detail = d]
  <2>1. g_results[n] \in [word : Seq(Byte), detail : Seq(Byte)]
    BY <1>4, <1>10
  <2>2. first[n] = [word |-> g_results[n].word, detail |-> d]
    BY <2>1, <1>4, <1>10
  <2>3. \A k \in Slot : k # n => first[k] = g_results[k]
    BY <1>4, <1>10
  <2>4. DOMAIN first = Slot
    BY <1>10
  <2>5. g_results' = [first EXCEPT ![n].word = EndedAtAccent(@)]
    BY <1>1
  <2> HIDE DEF first, d
  <2>6. g_results' = [k \in Slot |-> IF k = n THEN [first[n] EXCEPT !.word = w] ELSE first[k]]
    <3>1. EndedAtAccent(first[n].word) = w
      BY <2>2
    <3>2. g_results' = [k \in DOMAIN first |->
                          IF k = n THEN [first[n] EXCEPT !.word = EndedAtAccent(first[n].word)]
                          ELSE first[k]]
      BY <2>5, Zenon
    <3> QED BY <3>1, <3>2, <2>4
  <2> HIDE DEF w
  <2>7. [first[n] EXCEPT !.word = w] = [word |-> w, detail |-> d]
    BY <2>2
  <2> QED BY <2>3, <2>6, <2>7, <1>4, <1>10
<1> HIDE DEF w, d
<1>12. /\ g_results' \in [Slot -> [word : Seq(Byte), detail : Seq(Byte)]]
       /\ g_results'[n] = [word |-> w, detail |-> d]
       /\ \A k \in Slot : k # n => g_results'[k] = g_results[k]
  BY <1>4, <1>9, <1>10, <1>11
<1>13. TypeOK'
  <2>1. n' \in 0..DICT_MAX_RESULTS
    BY <1>1, <1>4, SizeAssumption DEF Slot
  <2>2. cursor' \in Seq(Row)
    BY <1>1, <1>3 DEF Inv, TypeOK
  <2> QED BY <1>1, <1>12, <2>1, <2>2 DEF Inv, TypeOK
<1>14. SlotsFit'
  <2> SUFFICES ASSUME NEW k \in Slot
               PROVE  /\ WordFits(build, g_results'[k].word) /\ DetailFits(g_results'[k].detail)
                      /\ Len(g_results'[k].word) <= DICT_WORD_LEN
    BY <1>1 DEF SlotsFit
  <2>1. CASE k = n
    BY <2>1, <1>6, <1>7, <1>12
  <2>2. CASE k # n
    BY <2>2, <1>12 DEF Inv, SlotsFit
  <2> QED BY <2>1, <2>2
<1>15. Stored'
  <2>1. n' <= Len(Answer')
    BY <1>1, <1>2, <1>5, AnswerType
  <2>2. ASSUME NEW k \in 0..(n' - 1) PROVE g_results'[k] = EntryOf(build', Answer'[k + 1])
    <3>1. CASE k = n
      BY <3>1, <1>1, <1>5, <1>8, <1>12
    <3>2. CASE k # n
      <4>1. k \in 0..(n - 1) /\ k \in Slot
        <5>1. n' - 1 = n
          BY <1>1, <1>2
        <5>2. k \in 0..n
          BY <5>1
        <5>3. k \in 0..(n - 1)
          BY <5>2, <3>2, <1>2
        <5> QED BY <5>3, <1>2, <1>4, SizeAssumption DEF Slot
      <4> QED BY <4>1, <3>2, <1>1, <1>5, <1>12 DEF Inv, Stored
    <3> QED BY <3>1, <3>2
  <2> QED BY <2>1, <2>2 DEF Stored
<1>16. Progress'
  <2>1. n' + 1 = n + 2
    BY <1>1, <1>2
  <2> QED BY <2>1, <1>1, <1>4, <1>5 DEF Progress
<1> QED BY <1>13, <1>14, <1>15, <1>16 DEF Inv

\* DONE comes when the statement has no row left.
LEMMA InvReturn == Inv /\ Return => Inv'
<1> SUFFICES ASSUME Inv, Return PROVE Inv'
  OBVIOUS
<1>1. /\ UNCHANGED <<build, g_db, g_results, call, cursor, n>>
      /\ pc = "scan" /\ pc' = "idle" /\ rc' \in {"DONE", "ERROR"}
      /\ rc' = "DONE" => cursor = <<>>
  BY DEF Return
<1>2. Answer' = Answer
  BY <1>1 DEF Answer
<1>3. rc' = "DONE" => n = Len(Answer)
  <2> SUFFICES ASSUME cursor = <<>> PROVE n = Len(Answer)
    BY <1>1
  <2>1. n \in Nat /\ n <= Len(Answer) /\ SubSeq(Answer, n + 1, Len(Answer)) = <<>>
    BY <1>1 DEF Inv, TypeOK, Stored, Progress
  <2>2. ASSUME n < Len(Answer) PROVE FALSE
    <3>1. Len(SubSeq(Answer, n + 1, Len(Answer))) = Len(Answer) - n
      BY <2>1, <2>2, AnswerType
    <3>2. Len(<<>>) = 0
      OBVIOUS
    <3>3. Len(Answer) - n = 0
      BY <3>1, <3>2, <2>1
    <3> QED BY <3>3, <2>1, <2>2, AnswerType
  <2> QED BY <2>1, <2>2, AnswerType
<1>4. TypeOK' /\ SlotsFit' /\ Stored'
  BY <1>1, <1>2 DEF Inv, TypeOK, SlotsFit, Stored
<1>5. Progress'
  BY <1>1, <1>2, <1>3 DEF Progress
<1> QED BY <1>4, <1>5 DEF Inv

\* Every step keeps it.
LEMMA InvNext == Inv /\ [Next]_vars => Inv'
<1> SUFFICES ASSUME Inv, [Next]_vars PROVE Inv'
  OBVIOUS
<1>1. CASE dict_open \/ dict_close
  BY <1>1, InvHandle
<1>2. CASE \E q \in Query, en \in BOOLEAN : Prepare(q, en)
  BY <1>2, InvPrepare
<1>3. CASE StoreWord
  BY <1>3, InvStoreWord
<1>4. CASE StoreDetail
  BY <1>4, InvStoreDetail
<1>5. CASE Return
  BY <1>5, InvReturn
<1>6. CASE UNCHANGED vars
  <2>1. UNCHANGED <<build, g_db, g_results, pc, call, cursor, n, rc>>
    BY <1>6 DEF vars, search
  <2>2. Answer' = Answer
    BY <2>1 DEF Answer
  <2> QED BY <2>1, <2>2 DEF Inv, TypeOK, SlotsFit, Stored, Progress
<1> QED BY <1>1, <1>2, <1>3, <1>4, <1>5, <1>6 DEF Next, Search

\* The invariant of every behaviour.
LEMMA Invariance == Spec => []Inv
  BY InvInit, InvNext, PTL DEF Spec

-----------------------------------------------------------------------------
(* What the runs check, for every table and every size. *)

\* Type correctness: the count stays in g_results and every slot holds strings.
THEOREM TypeCorrect == Spec => []TypeOK
  BY Invariance, PTL DEF Inv

\* strcat of dict.c never writes past accent[], at any moment of a search.
THEOREM NoOverrun == Spec => []WordStaysInSlot
<1>1. Inv => WordStaysInSlot
  <2> SUFFICES ASSUME Inv, NEW k \in Slot
               PROVE  Len(g_results[k].word) + 1 <= DICT_WORD_LEN + DICT_ACCENT_LEN
    BY DEF WordStaysInSlot
  <2>1. g_results[k].word \in Seq(Byte) /\ Len(g_results[k].word) <= DICT_WORD_LEN + 3
    BY DEF Inv, SlotsFit, WordFits
  <2> QED BY <2>1, SizeAssumption
<1> QED BY <1>1, Invariance, PTL

\* Between searches every string of a slot ends inside its array.
THEOREM EveryStringEnds == Spec => []StringsEnd
<1>1. Inv => StringsEnd
  BY DEF Inv, SlotsFit, WordFits, DetailFits, StringsEnd
<1> QED BY <1>1, Invariance, PTL

\* No character is cut in half but at the end of a full array.
THEOREM CutOnlyWhenFull == Spec => []WholeUnlessFull
<1>1. Inv => WholeUnlessFull
  BY DEF Inv, SlotsFit, WordFits, DetailFits, WholeUnlessFull
<1> QED BY <1>1, Invariance, PTL

\* The slots below the count are the answer to the latest query.
THEOREM LatestQueryAnswered == Spec => []AnswersLatestQuery
<1>1. Inv => AnswersLatestQuery
  <2> SUFFICES ASSUME Inv, NEW k \in 0..(n - 1)
               PROVE  /\ k + 1 <= Len(Matching(build, call))
                      /\ g_results[k] = EntryOf(build, Matching(build, call)[k + 1])
    BY DEF AnswersLatestQuery
  <2>1. k + 1 \in 1..Len(Answer)
    BY AnswerType DEF Inv, TypeOK, Stored
  <2>2. k + 1 <= Len(Matching(build, call)) /\ Answer[k + 1] = Matching(build, call)[k + 1]
    BY <2>1, LimitedRows DEF Answer
  <2> QED BY <2>2 DEF Inv, Stored
<1> QED BY <1>1, Invariance, PTL

\* A search that SQLite ends with DONE has every match, up to the cap.
THEOREM DoneIsComplete == Spec => []CompleteWhenDone
<1>1. Inv => CompleteWhenDone
  BY LimitedRows DEF Inv, Progress, CompleteWhenDone, Answer
<1> QED BY <1>1, Invariance, PTL

\* A scan that ended with DONE and is not full has a slot for every row of the
\* table that the WHERE clause accepts, for every table, query and build: by
\* induction over the table, no row is left out.
THEOREM NothingMissed ==
  Spec => []((pc = "idle" /\ rc = "DONE" /\ n < DICT_MAX_RESULTS) =>
               \A x \in DOMAIN Table : Matches(build, call, Table[x]) =>
                 \E k \in 0..(n - 1) : g_results[k] = EntryOf(build, Table[x]))
<1>1. ASSUME Inv, pc = "idle", rc = "DONE", n < DICT_MAX_RESULTS,
             NEW x \in DOMAIN Table, Matches(build, call, Table[x])
      PROVE  \E k \in 0..(n - 1) : g_results[k] = EntryOf(build, Table[x])
  <2> DEFINE M == Matching(build, call)
  <2>2. PICK k \in DOMAIN M : M[k] = Table[x]
    BY <1>1, NoMatchLost
  <2>3. M \in Seq(Rows) /\ Len(Answer) = Shorter(Len(M), DICT_MAX_RESULTS)
    BY LimitedRows DEF Answer
  <2>4. n = Len(Answer)
    BY <1>1 DEF Inv, Progress
  <2>5. n = Len(M) /\ n \in Nat
    BY <1>1, <2>3, <2>4, SizeAssumption DEF Shorter
  <2>6. k \in 1..n
    BY <2>2, <2>3, <2>5
  <2>7. Answer[k] = Table[x]
    BY <2>2, <2>4, <2>6, LimitedRows DEF Answer
  <2>8. k - 1 \in 0..(n - 1) /\ (k - 1) + 1 = k
    BY <2>5, <2>6
  <2>9. g_results[k - 1] = EntryOf(build, Answer[(k - 1) + 1])
    BY <1>1, <2>8 DEF Inv, Stored
  <2> QED BY <2>7, <2>8, <2>9
<1>2. Inv => ((pc = "idle" /\ rc = "DONE" /\ n < DICT_MAX_RESULTS) =>
                \A x \in DOMAIN Table : Matches(build, call, Table[x]) =>
                  \E k \in 0..(n - 1) : g_results[k] = EntryOf(build, Table[x]))
  BY <1>1
<1> QED BY <1>2, Invariance, PTL

-----------------------------------------------------------------------------
(* The search loop implements DictService. *)

\* The first n slots are the first n entries of the full answer.
LEMMA AnswerIsPrefix ==
  ASSUME Inv
  PROVE  LET full == FullAnswer([query |-> call.query, en |-> call.en, build |-> build])
         IN  /\ n \in 0..Len(full)
             /\ [k \in 1..n |-> g_results[k - 1]] = SubSeq(full, 1, n)
<1> DEFINE c == [query |-> call.query, en |-> call.en, build |-> build]
           full == FullAnswer(c)
<1>1. Matching(c.build, c) = Matching(build, call)
  BY DEF Matching, Matches
<1>2. full = [k \in DOMAIN Answer |-> EntryOf(build, Answer[k])]
  BY <1>1 DEF FullAnswer, Answer
<1>3. n \in Nat /\ n <= Len(Answer) /\ DOMAIN Answer = 1..Len(Answer) /\ Len(Answer) \in Nat
  BY AnswerType DEF Inv, TypeOK, Stored
<1> HIDE DEF c, full
<1>4. Len(full) = Len(Answer) /\ \A k \in 1..Len(Answer) : full[k] = EntryOf(build, Answer[k])
  BY <1>2, <1>3
<1>5. ASSUME NEW k \in 1..n PROVE g_results[k - 1] = full[k]
  <2>1. k - 1 \in 0..(n - 1) /\ (k - 1) + 1 = k /\ k \in 1..Len(Answer)
    BY <1>3
  <2>2. g_results[k - 1] = EntryOf(build, Answer[(k - 1) + 1])
    BY <2>1 DEF Inv, Stored
  <2> QED BY <2>1, <2>2, <1>4
<1>6. SubSeq(full, 1, n) = [k \in 1..n |-> full[k]]
  BY <1>2, <1>3, <1>4
<1> QED BY <1>3, <1>4, <1>5, <1>6 DEF c, full

\* A search, row by row and with its early ends, is one Ask and one Reply of
\* DictService; every other step stutters.
THEOREM RefinesDictService == Spec => ImplementsDictService
<1>1. Init => Service!Init
  BY DEF Init, Service!Init
<1>2. ASSUME Inv, [Next]_vars PROVE [Service!Next]_(Service!vars)
  <2>1. CASE dict_open \/ dict_close \/ StoreWord \/ StoreDetail \/ UNCHANGED vars
    <3>1. UNCHANGED <<build, call>> /\ (pc = "idle" <=> pc' = "idle")
      BY <2>1 DEF dict_open, dict_close, StoreWord, StoreDetail, vars, search
    <3>2. pc = "idle" => UNCHANGED <<n, g_results>>
      BY <2>1 DEF dict_open, dict_close, StoreWord, StoreDetail, vars, search
    <3> QED BY <3>1, <3>2 DEF Service!vars
  <2>2. CASE \E q \in Query, en \in BOOLEAN : Prepare(q, en)
    <3>1. PICK q \in Query, en \in BOOLEAN : Prepare(q, en)
      BY <2>2
    <3>2. /\ pc = "idle" /\ call' = [query |-> q, en |-> en] /\ n' = 0
          /\ build' = build /\ build \in Builds
      BY <3>1, <1>2 DEF Prepare, ResetCount, Inv, TypeOK
    <3>3. (IF pc' = "idle" THEN [k \in 1..n' |-> g_results'[k - 1]] ELSE <<>>) = <<>>
      BY <3>2
    <3>4. Service!Ask
      BY <3>2, <3>3 DEF Service!Ask
    <3> QED BY <3>4 DEF Service!Next
  <2>3. CASE Return
    <3>1. /\ pc = "scan" /\ pc' = "idle"
          /\ UNCHANGED <<build, call, n, g_results>>
      BY <2>3 DEF Return
    <3>2. Service!Reply
      BY <3>1, <1>2, AnswerIsPrefix DEF Service!Reply
    <3> QED BY <3>2 DEF Service!Next
  <2> QED BY <1>2, <2>1, <2>2, <2>3 DEF Next, Search
<1> QED BY <1>1, <1>2, Invariance, PTL DEF Spec, ImplementsDictService, Service!Spec
=============================================================================
