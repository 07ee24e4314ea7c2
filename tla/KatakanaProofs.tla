--------------------------- MODULE KatakanaProofs ---------------------------
(***************************************************************************)
(* Proofs that hira_to_kata, which is not told the length of its string,   *)
(* stays inside it, and that it computes what the C version computes, for  *)
(* every table, input and size of the buffer.                              *)
(*                                                                         *)
(* The conversion is taken as rewriting a text: the bytes stored so far    *)
(* followed by the bytes of src not yet read.  A pass replaces ASCII       *)
(* letters of the text by a kana, or moves one byte from src to dst, which *)
(* leaves the text as it is.  So its characters stay whole, although they  *)
(* are copied byte by byte.  The shift then goes from character to         *)
(* character of a whole text, and cannot miss the NUL.                     *)
(***************************************************************************)
EXTENDS Katakana, RomajiProofs

-----------------------------------------------------------------------------
(* Whole characters of one to four bytes. *)

\* The character that begins at k ends inside s, which has m bytes.
Closed(s, m, k) == \A j \in 1..Trail(s[k]) : k + j <= m /\ IsCont(s[k + j])

\* If k is not the first byte of a character, it belongs to one.
Owned(s, k) == IsCont(s[k]) => \E j \in 1..3 : k - j >= 1 /\ Trail(s[k - j]) >= j

\* The first m bytes of s are whole characters.
Parted(s, m) == \A k \in 1..m : Closed(s, m, k) /\ Owned(s, k)

\* A first byte is followed by at most three, any other by none.
LEMMA TrailType == \A b : Trail(b) \in 0..3 /\ (IsCont(b) => Trail(b) = 0)
  BY DEF Trail, IsCont

\* ASCII bytes of a whole text can be replaced by whole text.
LEMMA Replaced ==
  ASSUME NEW s, NEW t, NEW v,
         NEW la \in Nat, NEW lu \in Nat \ {0}, NEW lv \in Nat, NEW lb \in Nat,
         Parted(s, la + lu + lb), Parted(v, lv),
         \A k \in 1..lu : Trail(s[la + k]) = 0 /\ ~IsCont(s[la + k]),
         \A k \in 1..la : t[k] = s[k],
         \A k \in 1..lv : t[la + k] = v[k],
         \A k \in 1..lb : t[la + lv + k] = s[la + lu + k]
  PROVE  Parted(t, la + lv + lb)
<1> DEFINE m == la + lv + lb
<1>0. Trail(s[la + 1]) = 0 /\ ~IsCont(s[la + 1])
  OBVIOUS
<1>1. ASSUME NEW k \in 1..la PROVE Closed(t, m, k) /\ Owned(t, k)
  <2>1. k \in 1..(la + lu + lb) /\ t[k] = s[k] /\ Closed(s, la + lu + lb, k) /\ Owned(s, k)
    BY DEF Parted
  <2>2. ASSUME NEW j \in 1..Trail(t[k]) PROVE k + j <= m /\ IsCont(t[k + j])
    <3>1. j \in Nat /\ j >= 1 /\ IsCont(s[k + j])
      BY <2>1, TrailType DEF Closed
    <3>2. k + j <= la
      <4> SUFFICES ASSUME k + j > la PROVE FALSE
        BY <3>1
      <4>1. la + 1 - k \in 1..Trail(s[k])
        BY <2>1, <3>1, TrailType
      <4>2. k + (la + 1 - k) = la + 1
        OBVIOUS
      <4> QED BY <4>1, <4>2, <2>1, <1>0 DEF Closed
    <3>3. k + j \in 1..la
      BY <3>1, <3>2
    <3> QED BY <3>1, <3>2, <3>3
  <2>3. ASSUME IsCont(t[k]) PROVE \E j \in 1..3 : k - j >= 1 /\ Trail(t[k - j]) >= j
    <3>1. PICK j \in 1..3 : k - j >= 1 /\ Trail(s[k - j]) >= j
      BY <2>1, <2>3 DEF Owned
    <3>2. k - j \in 1..la
      BY <3>1
    <3> QED BY <3>1, <3>2
  <2> QED BY <2>2, <2>3 DEF Closed, Owned
<1>2. ASSUME NEW x \in 1..lv PROVE Closed(t, m, la + x) /\ Owned(t, la + x)
  <2>1. t[la + x] = v[x] /\ Closed(v, lv, x) /\ Owned(v, x)
    BY DEF Parted
  <2>2. ASSUME NEW j \in 1..Trail(t[la + x]) PROVE la + x + j <= m /\ IsCont(t[la + x + j])
    <3>1. j \in Nat /\ x + j <= lv /\ IsCont(v[x + j])
      BY <2>1, TrailType DEF Closed
    <3>2. x + j \in 1..lv /\ la + (x + j) = la + x + j
      BY <3>1
    <3> QED BY <3>1, <3>2
  <2>3. ASSUME IsCont(t[la + x])
        PROVE  \E j \in 1..3 : la + x - j >= 1 /\ Trail(t[la + x - j]) >= j
    <3>1. PICK j \in 1..3 : x - j >= 1 /\ Trail(v[x - j]) >= j
      BY <2>1, <2>3 DEF Owned
    <3>2. x - j \in 1..lv /\ la + (x - j) = la + x - j
      BY <3>1
    <3> QED BY <3>1, <3>2
  <2> QED BY <2>2, <2>3 DEF Closed, Owned
<1>3. ASSUME NEW x \in 1..lb PROVE Closed(t, m, la + lv + x) /\ Owned(t, la + lv + x)
  <2> DEFINE k == la + lu + x
  <2>1. /\ k \in 1..(la + lu + lb) /\ t[la + lv + x] = s[k]
        /\ Closed(s, la + lu + lb, k) /\ Owned(s, k)
    BY DEF Parted
  <2>2. ASSUME NEW j \in 1..Trail(t[la + lv + x])
        PROVE  la + lv + x + j <= m /\ IsCont(t[la + lv + x + j])
    <3>1. j \in Nat /\ k + j <= la + lu + lb /\ IsCont(s[k + j])
      BY <2>1, TrailType DEF Closed
    <3>2. x + j \in 1..lb /\ la + lv + (x + j) = la + lv + x + j /\ la + lu + (x + j) = k + j
      BY <3>1
    <3>3. t[la + lv + (x + j)] = s[la + lu + (x + j)]
      BY <3>2
    <3>4. la + lv + x + j <= m
      BY <3>2
    <3> HIDE DEF k, m
    <3> QED BY <3>1, <3>2, <3>3, <3>4
  <2>3. ASSUME IsCont(t[la + lv + x])
        PROVE  \E j \in 1..3 : la + lv + x - j >= 1 /\ Trail(t[la + lv + x - j]) >= j
    <3>1. PICK j \in 1..3 : k - j >= 1 /\ Trail(s[k - j]) >= j
      BY <2>1, <2>3 DEF Owned
    <3>2. x - j >= 1
      <4> SUFFICES ASSUME x - j < 1 PROVE FALSE
        OBVIOUS
      <4>1. CASE k - j > la
        <5>1. k - j - la \in 1..lu /\ la + (k - j - la) = k - j
          BY <4>1
        <5>2. Trail(s[k - j]) = 0
          BY <5>1
        <5> QED BY <5>2, <3>1
      <4>2. CASE k - j <= la
        <5> DEFINE o == k - j
        <5>1. o \in 1..(la + lu + lb) /\ Closed(s, la + lu + lb, o)
          BY <3>1, <4>2 DEF Parted
        <5>2. la + 1 - o \in 1..Trail(s[o]) /\ o + (la + 1 - o) = la + 1
          BY <3>1, <4>2, TrailType
        <5> QED BY <5>1, <5>2, <1>0 DEF Closed
      <4> QED BY <4>1, <4>2
    <3>3. x - j \in 1..lb /\ la + lv + (x - j) = la + lv + x - j /\ la + lu + (x - j) = k - j
      BY <3>2
    <3>4. t[la + lv + (x - j)] = s[la + lu + (x - j)]
      BY <3>3
    <3>5. la + lv + x - j >= 1
      BY <3>3
    <3>6. Trail(t[la + lv + x - j]) >= j
      <4> HIDE DEF k
      <4> QED BY <3>1, <3>3, <3>4
    <3> QED BY <3>5, <3>6
  <2> QED BY <2>2, <2>3 DEF Closed, Owned
<1>4. ASSUME NEW k \in 1..m PROVE Closed(t, m, k) /\ Owned(t, k)
  <2>1. CASE k <= la
    BY <2>1, <1>1
  <2>2. CASE k > la /\ k <= la + lv
    <3>1. k - la \in 1..lv /\ la + (k - la) = k
      BY <2>2
    <3> QED BY <3>1, <1>2
  <2>3. CASE k > la + lv
    <3>1. k - la - lv \in 1..lb /\ la + lv + (k - la - lv) = k
      BY <2>3
    <3> QED BY <3>1, <1>3
  <2> QED BY <2>1, <2>2, <2>3
<1> QED BY <1>4 DEF Parted

\* Whether a text is whole depends on the kinds of its bytes only.
LEMMA SameKinds ==
  ASSUME NEW s, NEW t, NEW m \in Nat, Parted(s, m),
         \A k \in 1..m : Trail(t[k]) = Trail(s[k]) /\ (IsCont(t[k]) <=> IsCont(s[k]))
  PROVE  Parted(t, m)
<1> SUFFICES ASSUME NEW k \in 1..m PROVE Closed(t, m, k) /\ Owned(t, k)
  BY DEF Parted
<1>1. Closed(s, m, k) /\ Owned(s, k)
  BY DEF Parted
<1>2. ASSUME NEW j \in 1..Trail(t[k]) PROVE k + j <= m /\ IsCont(t[k + j])
  <2>1. j \in Nat /\ k + j <= m /\ IsCont(s[k + j])
    BY <1>1, TrailType DEF Closed
  <2>2. k + j \in 1..m
    BY <2>1
  <2> QED BY <2>1, <2>2
<1>3. ASSUME IsCont(t[k]) PROVE \E j \in 1..3 : k - j >= 1 /\ Trail(t[k - j]) >= j
  <2>1. PICK j \in 1..3 : k - j >= 1 /\ Trail(s[k - j]) >= j
    BY <1>1, <1>3 DEF Owned
  <2>2. k - j \in 1..m
    BY <2>1
  <2> QED BY <2>1, <2>2
<1> QED BY <1>2, <1>3 DEF Closed, Owned

\* Behind a whole character another one begins.
LEMMA NextBegins ==
  ASSUME NEW s, NEW m \in Nat, Parted(s, m), NEW k \in 1..m, ~IsCont(s[k]),
         k + Trail(s[k]) + 1 <= m
  PROVE  ~IsCont(s[k + Trail(s[k]) + 1])
<1> DEFINE n == k + Trail(s[k]) + 1
<1> SUFFICES ASSUME IsCont(s[n]) PROVE FALSE
  OBVIOUS
<1>1. Trail(s[k]) \in 0..3 /\ n \in 1..m /\ Closed(s, m, k) /\ Owned(s, n)
  BY TrailType DEF Parted
<1>2. PICK j \in 1..3 : n - j >= 1 /\ Trail(s[n - j]) >= j
  BY <1>1 DEF Owned
<1> DEFINE o == n - j
<1>3. o \in 1..m /\ Closed(s, m, o) /\ Trail(s[o]) \in 0..3
  BY <1>1, <1>2, TrailType DEF Parted
<1>4. CASE o > k
  <2>1. o - k \in 1..Trail(s[k]) /\ k + (o - k) = o
    BY <1>1, <1>4
  <2>2. IsCont(s[o])
    BY <1>1, <2>1 DEF Closed
  <2> QED BY <2>2, <1>2, TrailType
<1>5. CASE o = k
  BY <1>1, <1>2, <1>5
<1>6. CASE o < k
  <2> DEFINE tk == Trail(s[k])
             to == Trail(s[o])
  <2>1. tk \in 0..3 /\ to \in 0..3 /\ o \in Nat /\ o + j = k + tk + 1 /\ to >= j
    BY <1>1, <1>2, <1>3
  <2>2. k - o \in 1..to /\ o + (k - o) = k
    <3> HIDE DEF tk, to, o
    <3> QED BY <2>1, <1>6
  <2> QED BY <1>3, <2>2 DEF Closed
<1> QED BY <1>3, <1>4, <1>5, <1>6

\* A kana of the table, and the small tsu, are whole.
LEMMA WellFormedParted ==
  ASSUME NEW s \in Seq(Char), WellFormed(s)
  PROVE  Parted(s, Len(s))
<1>1. Len(s) \in Nat /\ DOMAIN s = 1..Len(s)
  OBVIOUS
<1> SUFFICES ASSUME NEW k \in 1..Len(s) PROVE Closed(s, Len(s), k) /\ Owned(s, k)
  BY DEF Parted
<1>2. /\ s[k] \in 0..127 \/ IsLead(s[k]) \/ IsCont(s[k])
      /\ IsLead(s[k]) => /\ k + 2 \in DOMAIN s
                         /\ IsCont(s[k + 1]) /\ IsCont(s[k + 2])
      /\ IsCont(s[k]) => \/ k > 1 /\ IsLead(s[k - 1])
                         \/ k > 2 /\ IsLead(s[k - 2]) /\ IsCont(s[k - 1])
  BY <1>1 DEF WellFormed
<1>3. \A b : IsLead(b) => Trail(b) = 2
  BY DEF IsLead, Trail
<1>4. \A b \in 0..191 : Trail(b) = 0
  BY DEF Trail
<1>5. Closed(s, Len(s), k)
  <2> SUFFICES ASSUME NEW j \in 1..Trail(s[k]) PROVE k + j <= Len(s) /\ IsCont(s[k + j])
    BY DEF Closed
  <2>1. IsLead(s[k]) /\ j \in 1..2
    <3>1. Trail(s[k]) # 0
      OBVIOUS
    <3>2. IsLead(s[k])
      <4>1. s[k] \notin 0..191
        BY <1>4, <3>1
      <4> QED BY <1>2, <4>1 DEF IsCont
    <3> QED BY <1>3, <3>2
  <2> QED BY <2>1, <1>1, <1>2
<1>6. ASSUME IsCont(s[k]) PROVE \E j \in 1..3 : k - j >= 1 /\ Trail(s[k - j]) >= j
  <2>1. CASE k > 1 /\ IsLead(s[k - 1])
    <3>1. 1 \in 1..3 /\ k - 1 >= 1 /\ Trail(s[k - 1]) >= 1
      BY <2>1, <1>3
    <3> QED BY <3>1
  <2>2. CASE k > 2 /\ IsLead(s[k - 2])
    <3>1. 2 \in 1..3 /\ k - 2 >= 1 /\ Trail(s[k - 2]) >= 2
      BY <2>2, <1>3
    <3> QED BY <3>1
  <2> QED BY <1>2, <1>6, <2>1, <2>2
<1> QED BY <1>5, <1>6 DEF Owned

\* So is a clean src.
LEMMA CleanParted ==
  ASSUME NEW s \in Seq(Char), Clean(s)
  PROVE  Parted(s, Len(s))
<1>1. Len(s) \in Nat /\ DOMAIN s = 1..Len(s)
  OBVIOUS
<1> SUFFICES ASSUME NEW k \in 1..Len(s) PROVE Closed(s, Len(s), k) /\ Owned(s, k)
  BY DEF Parted
<1>2. /\ \A j \in 1..Trail(s[k]) : k + j \in DOMAIN s /\ IsCont(s[k + j])
      /\ IsCont(s[k]) => \E j \in 1..3 : k - j \in DOMAIN s /\ Trail(s[k - j]) >= j
  BY <1>1 DEF Clean
<1>3. ASSUME NEW j \in 1..Trail(s[k]) PROVE k + j <= Len(s) /\ IsCont(s[k + j])
  <2>1. k + j \in DOMAIN s /\ IsCont(s[k + j])
    BY <1>2
  <2> QED BY <2>1, <1>1
<1>4. ASSUME IsCont(s[k]) PROVE \E j \in 1..3 : k - j >= 1 /\ Trail(s[k - j]) >= j
  <2>1. PICK j \in 1..3 : k - j \in DOMAIN s /\ Trail(s[k - j]) >= j
    BY <1>2, <1>4
  <2> QED BY <2>1, <1>1
<1> QED BY <1>3, <1>4 DEF Closed, Owned

-----------------------------------------------------------------------------
(* The conversion rewrites a text. *)

\* What is stored, followed by what is not yet read.
Text == [x \in 1..(pos + Len(src) - i) |-> IF x <= pos THEN dst[x - 1] ELSE src[x - pos + i]]

\* Behind the NUL the buffer is as it was.
Behind == \A k \in 0..(dst_size - 1) : (pc = "call" \/ k > pos) => dst[k] \in Junk

TextInv == Clean(src) => Parted(Text, pos + Len(src) - i)

\* The call succeeds when src has been read to its end.
ReadAll == pc = "ok" => i = Len(src)

CInv == ConvInv /\ ReadAll /\ Behind /\ TextInv

\* s is the next byte of src.
Moves(s, take) == s = <<src[i + 1]>> /\ take = 1

\* s is whole, and stands for ASCII bytes.
Rewrites(s, take) == Parted(s, Len(s)) /\ \A k \in 1..take : src[i + k] < 128

\* A letter of a key is an ASCII letter of src, in either case.
LEMMA KeyIsAscii == \A c \in Char : to_ascii_lowercase(c) \in 97..122 => c < 128
  BY DEF to_ascii_lowercase, Char

\* Only ASCII bytes and bytes standing next to an equal one are doubled.
LEMMA EqualBytes ==
  \A b \in Char, c \in Char :
    (to_ascii_lowercase(b) = to_ascii_lowercase(c) /\ b >= 128) => b = c
  BY DEF to_ascii_lowercase, Char

\* Every pass over a clean src moves a byte or rewrites ASCII bytes: the equal
\* bytes PutSokuon looks for are letters or signs, never parts of a character.
LEMMA PassRewrites ==
  ASSUME TypeOK, Clean(src), PutSokuon \/ PutSyllable \/ PassThrough
  PROVE  \E s \in Seq(Char), take \in 1..3 :
           append(s, take) /\ Storable(s, take) /\ (Moves(s, take) \/ Rewrites(s, take))
<1>1. /\ src \in Seq(Char) /\ i \in Nat /\ Len(src) \in Nat /\ DOMAIN src = 1..Len(src)
      /\ InLoop /\ i < Len(src)
  BY InputAssumption DEF TypeOK, InLoop, PutSokuon, PutSyllable, PassThrough
<1>2. \A k \in 1..Len(src) : src[k] \in Char
  BY <1>1
<1>3. CASE PutSokuon
  <2>1. Sokuon \in Seq(Char) /\ Len(Sokuon) = 3
    BY DEF Sokuon, Char
  <2>2. WellFormed(Sokuon)
    BY DEF Sokuon, WellFormed, IsLead, IsCont
  <2>3. Parted(Sokuon, Len(Sokuon))
    BY <2>1, <2>2, WellFormedParted
  <2>4. Storable(Sokuon, 1) /\ append(Sokuon, 1) /\ 1 \in 1..3
    BY <1>1, <1>3, <2>1, <2>2 DEF PutSokuon, Storable
  <2>5. src[i + 1] < 128
    <3>1. i + 1 \in 1..Len(src) /\ i + 2 \in 1..Len(src)
      BY <1>1, <1>3 DEF PutSokuon, Doubled
    <3>2. i + 0 + 1 = i + 1 /\ i + 1 + 1 = i + 2
      BY <1>1
    <3>3. to_ascii_lowercase(src[i + 2]) = to_ascii_lowercase(src[i + 1])
      BY <1>3, <3>2 DEF PutSokuon, Doubled, low
    <3> DEFINE b == src[i + 1]
               c == src[i + 2]
    <3>4. b \in Char /\ c \in Char
      BY <1>2, <3>1
    <3>5. b >= 128 => b # c
      <4>1. (src[i + 1] >= 128 /\ i + 1 < Len(src)) => src[i + 1] # src[i + 1 + 1]
        BY <1>1, <3>1 DEF Clean
      <4> QED BY <4>1, <3>1, <3>2, <1>1
    <3> HIDE DEF b, c
    <3>6. to_ascii_lowercase(b) = to_ascii_lowercase(c)
      BY <3>3 DEF b, c
    <3>7. ~(b >= 128)
      BY <3>4, <3>5, <3>6, EqualBytes
    <3>8. b < 128
      BY <3>4, <3>7 DEF Char
    <3> QED BY <3>8 DEF b
  <2>6. Rewrites(Sokuon, 1)
    BY <2>3, <2>5 DEF Rewrites
  <2> QED BY <2>1, <2>4, <2>6
<1>4. CASE PutSyllable
  <2>1. PICK e \in Matches : append(e[2], Len(e[1]))
    BY <1>4 DEF PutSyllable
  <2>2. e \in TABLE /\ i + Len(e[1]) <= Len(src) /\ e[1] = KeyAt(Len(e[1]))
    BY <2>1 DEF Matches
  <2>3. /\ e[1] \in Seq(97..122) /\ e[2] \in Seq(Char) /\ Len(e[1]) \in 1..3
        /\ WellFormed(e[2]) /\ Len(e[2]) <= 3 * Len(e[1])
    BY <2>2, TableAssumption
  <2>4. Storable(e[2], Len(e[1]))
    BY <2>2, <2>3 DEF Storable
  <2>5. ASSUME NEW k \in 1..Len(e[1]) PROVE src[i + k] < 128
    <3>1. i + k \in 1..Len(src) /\ i + (k - 1) + 1 = i + k
      BY <1>1, <2>2, <2>3
    <3>2. e[1][k] = low(k - 1) /\ e[1][k] \in 97..122
      <4> DEFINE key == e[1]
                 n == Len(e[1])
      <4>1. key = [x \in 1..n |-> low(x - 1)] /\ k \in 1..n
        BY <2>2 DEF KeyAt
      <4>2. key \in Seq(97..122) /\ n = Len(key)
        BY <2>3
      <4> HIDE DEF key, n
      <4>3. key[k] \in 97..122
        BY <4>1, <4>2, ElementOfSeq
      <4>4. key[k] = low(k - 1)
        BY <4>1
      <4> QED BY <4>4, <4>3 DEF key
    <3>3. to_ascii_lowercase(src[i + k]) \in 97..122
      BY <3>1, <3>2 DEF low
    <3> QED BY <3>1, <3>3, <1>2, KeyIsAscii
  <2>6. Rewrites(e[2], Len(e[1]))
    BY <2>3, <2>5, WellFormedParted DEF Rewrites
  <2> QED BY <2>1, <2>3, <2>4, <2>6
<1>5. CASE PassThrough
  <2>1. append(<<src[i + 1]>>, 1) /\ Moves(<<src[i + 1]>>, 1)
    BY <1>5 DEF PassThrough, Moves
  <2> DEFINE b == src[i + 1]
  <2>2. i + 1 \in 1..Len(src) /\ b \in Char
    BY <1>1, <1>2
  <2>3. (\A k \in DOMAIN src : src[k] < 128) => b < 128
    BY <1>1, <2>2
  <2> HIDE DEF b
  <2>4. <<b>> \in Seq(Char) /\ Len(<<b>>) = 1 /\ <<b>>[1] = b /\ DOMAIN <<b>> = {1}
    BY <2>2
  <2>5. ASSUME b < 128 PROVE WellFormed(<<b>>)
    <3>1. b \in 0..127 /\ ~IsLead(b) /\ ~IsCont(b)
      BY <2>2, <2>5 DEF IsLead, IsCont, Char
    <3> QED BY <2>4, <3>1 DEF WellFormed
  <2>6. Storable(<<b>>, 1)
    BY <1>1, <2>2, <2>3, <2>4, <2>5 DEF Storable
  <2>7. append(<<b>>, 1) /\ Moves(<<b>>, 1) /\ 1 \in 1..3
    BY <2>1 DEF b
  <2> QED BY <2>4, <2>6, <2>7
<1> QED BY <1>3, <1>4, <1>5

\* append leaves the bytes behind its NUL as they are.
LEMMA BehindStep ==
  ASSUME TypeOK, Behind, pc = "loop", NEW s \in Seq(Char), NEW take \in 1..3, append(s, take)
  PROVE  Behind'
<1>1. dst_size \in Nat /\ pos \in Nat /\ Len(s) \in Nat /\ DOMAIN dst = 0..(dst_size - 1)
  BY InputAssumption DEF TypeOK
<1>2. CASE Fits(Len(s))
  <2>1. pos' = pos + Len(s) /\ dst' = Stored(s) /\ dst_size' = dst_size /\ pc' = "loop"
    BY <1>2 DEF append, KeepNone
  <2>2. ASSUME NEW k \in 0..(dst_size - 1), k > pos' PROVE dst'[k] \in Junk
    <3>1. k > pos /\ k - pos \notin 0..(Len(s) - 1) /\ k # pos + Len(s)
      BY <1>1, <2>1, <2>2
    <3>2. dst'[k] = dst[k]
      BY <1>1, <2>1, <3>1 DEF Stored
    <3> QED BY <3>1, <3>2 DEF Behind
  <2> QED BY <2>1, <2>2 DEF Behind
<1>3. CASE ~Fits(Len(s))
  BY <1>3 DEF append, KeepNone, Behind
<1> QED BY <1>2, <1>3

\* A byte below 128 is a character of its own.
LEMMA AsciiAlone == \A b \in Char : b < 128 => Trail(b) = 0 /\ ~IsCont(b)
  BY DEF Trail, IsCont, Char

\* A pass keeps the characters of the text whole.
LEMMA TextStep ==
  ASSUME ConvInv, TextInv, InLoop, Clean(src),
         NEW s \in Seq(Char), NEW take \in 1..3, Storable(s, take), append(s, take),
         Moves(s, take) \/ Rewrites(s, take)
  PROVE  TextInv'
<1>1. /\ src \in Seq(Char) /\ dst_size \in Nat /\ pos \in Nat /\ i \in Nat /\ Len(src) \in Nat
      /\ Len(s) \in Nat /\ pc = "loop" /\ dst_size > 0 /\ src' = src
      /\ i + take <= Len(src) /\ TypeOK /\ StringInBuffer
  BY InputAssumption DEF ConvInv, Begun, TypeOK, InLoop, Storable, append, KeepNone
<1> DEFINE m == pos + Len(src) - i
<1>2. Parted(Text, m) /\ m \in Nat
  BY <1>1 DEF TextInv
<1>3. CASE ~Fits(Len(s))
  <2>1. UNCHANGED <<pos, src, i, dst>>
    BY <1>3 DEF append, KeepNone
  <2> QED BY <2>1, <1>2 DEF TextInv, Text
<1>4. CASE Fits(Len(s))
  <2>1. i' = i + take
    BY <1>4 DEF append, KeepNone
  <2>2. /\ pos' = pos + Len(s)
        /\ \A k \in 0..(pos - 1) : dst'[k] = dst[k]
        /\ \A k \in 1..Len(s) : dst'[pos + k - 1] = s[k]
    BY <1>1, <1>4, StoredString, Zenon
  <2> DEFINE n == pos' + Len(src) - i'
             lb == Len(src) - i - take
  <2>3. n \in Nat /\ lb \in Nat /\ n = pos + Len(s) + lb /\ m = pos + take + lb
    BY <1>1, <2>1, <2>2
  <2>4. \A x \in 1..m : Text[x] = IF x <= pos THEN dst[x - 1] ELSE src[x - pos + i]
    BY DEF Text
  <2>5. \A x \in 1..n : Text'[x] = IF x <= pos' THEN dst'[x - 1] ELSE src[x - pos' + i']
    BY <1>1 DEF Text
  <2> DEFINE u == Text
             v == Text'
  <2>6. \A k \in 1..pos : v[k] = u[k]
    <3> SUFFICES ASSUME NEW k \in 1..pos PROVE v[k] = u[k]
      OBVIOUS
    <3>1. k \in 1..m /\ k \in 1..n /\ k <= pos /\ k <= pos' /\ k - 1 \in 0..(pos - 1)
      BY <1>1, <2>1, <2>2, <2>3
    <3>2. u[k] = dst[k - 1] /\ v[k] = dst'[k - 1]
      BY <2>4, <2>5, <3>1
    <3> QED BY <2>2, <3>1, <3>2
  <2>7. \A k \in 1..Len(s) : v[pos + k] = s[k]
    <3> SUFFICES ASSUME NEW k \in 1..Len(s) PROVE v[pos + k] = s[k]
      OBVIOUS
    <3> DEFINE x == pos + k
    <3>1. x \in 1..n /\ x <= pos' /\ x - 1 = pos + k - 1
      BY <1>1, <2>1, <2>2, <2>3
    <3>2. dst'[pos + k - 1] = s[k]
      BY <2>2
    <3> HIDE DEF n, v, x
    <3>3. v[x] = dst'[x - 1]
      BY <2>5, <3>1 DEF v
    <3>4. v[x] = s[k]
      BY <3>1, <3>2, <3>3
    <3> QED BY <3>4 DEF x
  <2>8. \A k \in 1..lb : v[pos + Len(s) + k] = u[pos + take + k]
    <3> SUFFICES ASSUME NEW k \in 1..lb PROVE v[pos + Len(s) + k] = u[pos + take + k]
      OBVIOUS
    <3> DEFINE x == pos + Len(s) + k
               y == pos + take + k
    <3>1. x \in 1..n /\ ~(x <= pos') /\ x - pos' + i' = i + take + k
      BY <1>1, <2>1, <2>2, <2>3
    <3>2. y \in 1..m /\ ~(y <= pos) /\ y - pos + i = i + take + k
      BY <1>1, <2>1, <2>2, <2>3
    <3> HIDE DEF x, y, m, n, u, v
    <3>3. v[x] = src[x - pos' + i'] /\ u[y] = src[y - pos + i]
      BY <2>4, <2>5, <3>1, <3>2 DEF u, v
    <3>4. v[x] = u[y]
      BY <3>1, <3>2, <3>3
    <3> QED BY <3>4 DEF x, y
  <2>9. \A k \in 1..take : u[pos + k] = src[i + k]
    <3> SUFFICES ASSUME NEW k \in 1..take PROVE u[pos + k] = src[i + k]
      OBVIOUS
    <3> DEFINE x == pos + k
    <3>1. x \in 1..m /\ ~(x <= pos) /\ x - pos + i = i + k
      BY <1>1, <2>3
    <3> HIDE DEF m, u, x
    <3>2. u[x] = src[x - pos + i]
      BY <2>4, <3>1 DEF u
    <3>3. u[x] = src[i + k]
      BY <3>1, <3>2
    <3> QED BY <3>3 DEF x
  <2>10. Parted(u, m)
    BY <1>2
  <2> HIDE DEF u, v
  <2>11. CASE Moves(s, take)
    <3>1. s = <<src[i + 1]>> /\ take = 1
      BY <2>11 DEF Moves
    <3>2. Len(s) = 1 /\ s[1] = src[i + 1] /\ n = m
      BY <3>1, <2>3
    <3>3. ASSUME NEW k \in 1..m PROVE v[k] = u[k]
      <4>1. CASE k <= pos
        BY <4>1, <2>6
      <4>2. CASE k = pos + 1
        BY <4>2, <2>7, <2>9, <3>1, <3>2
      <4>3. CASE k > pos + 1
        <5>1. k - pos - 1 \in 1..lb /\ pos + 1 + (k - pos - 1) = k
          BY <4>3, <1>1, <2>3, <3>1
        <5> QED BY <5>1, <2>8, <3>1, <3>2
      <4> QED BY <1>1, <4>1, <4>2, <4>3
    <3>4. Parted(v, m)
      BY <1>2, <2>10, <3>3, SameKinds
    <3> QED BY <3>2, <3>4, <1>1 DEF TextInv, v
  <2>12. CASE Rewrites(s, take)
    <3>1. Parted(s, Len(s)) /\ \A k \in 1..take : src[i + k] < 128
      BY <2>12 DEF Rewrites
    <3>2. \A k \in 1..take : Trail(u[pos + k]) = 0 /\ ~IsCont(u[pos + k])
      <4> SUFFICES ASSUME NEW k \in 1..take
                   PROVE  Trail(u[pos + k]) = 0 /\ ~IsCont(u[pos + k])
        OBVIOUS
      <4>1. i + k \in 1..Len(src)
        BY <1>1
      <4>2. src[i + k] \in Char /\ src[i + k] < 128
        BY <1>1, <3>1, <4>1, ElementOfSeq
      <4> QED BY <4>2, <2>9, AsciiAlone
    <3>3. Parted(u, pos + take + lb)
      BY <2>3, <2>10
    <3>4. take \in Nat \ {0} /\ lb \in Nat
      BY <2>3
    <3> HIDE DEF lb
    <3>5. Parted(v, pos + Len(s) + lb)
      BY <1>1, <2>6, <2>7, <2>8, <3>1, <3>2, <3>3, <3>4, Replaced
    <3> QED BY <2>3, <3>5, <1>1 DEF TextInv, v
  <2> QED BY <2>11, <2>12
<1> QED BY <1>3, <1>4

\* One step of the conversion keeps it.
LEMMA CStep == CInv /\ [Next]_vars => CInv'
<1> SUFFICES ASSUME CInv, [Next]_vars PROVE ReadAll' /\ Behind' /\ TextInv'
  BY ConvStep DEF CInv
<1>1. dst_size \in Nat /\ pos \in Nat /\ i \in Nat /\ Len(src) \in Nat
  BY InputAssumption DEF CInv, ConvInv, TypeOK
<1>2. CASE Start
  <2>1. pos = 0 /\ i = 0 /\ UNCHANGED <<src, pos, i, dst_size>> /\ pc = "call"
    BY <1>2 DEF Start, CInv, ConvInv, Begun
  <2>2. \A k \in 0..(dst_size - 1) : k > 0 => dst'[k] = dst[k]
    BY <1>1, <1>2 DEF Start, CInv, ConvInv, TypeOK
  <2>3. pc' # "call" /\ pc' # "ok"
    BY <1>2 DEF Start
  <2>4. Behind'
    BY <2>1, <2>2, <2>3 DEF Behind, CInv
  <2>5. Text' = Text
    BY <2>1, <1>1 DEF Text
  <2> QED BY <2>1, <2>3, <2>4, <2>5 DEF CInv, TextInv, ReadAll
<1>3. CASE PutSokuon \/ PutSyllable \/ PassThrough
  <2>1. InLoop /\ pc = "loop" /\ TypeOK
    BY <1>3 DEF PutSokuon, PutSyllable, PassThrough, InLoop, CInv, ConvInv
  <2>2. CASE Clean(src)
    <3>1. PICK s \in Seq(Char), take \in 1..3 :
            append(s, take) /\ Storable(s, take) /\ (Moves(s, take) \/ Rewrites(s, take))
      BY <1>3, <2>1, <2>2, PassRewrites
    <3> QED BY <2>1, <2>2, <3>1, BehindStep, TextStep DEF CInv, ReadAll, append
  <2>3. CASE ~Clean(src)
    <3>1. PICK s \in Seq(Char), take \in 1..3 : Storable(s, take) /\ append(s, take)
      BY <1>3, <2>1, PassAppends
    <3>2. src' = src
      BY <3>1 DEF append
    <3> QED BY <2>1, <2>3, <3>1, <3>2, BehindStep DEF CInv, TextInv, Clean, ReadAll, append
  <2> QED BY <2>2, <2>3
<1>4. CASE Return
  BY <1>1, <1>4 DEF Return, AtEnd, CInv, ConvInv, TypeOK, ReadAll, Behind, TextInv, Text
<1>5. CASE UNCHANGED vars
  BY <1>5 DEF vars, CInv, ReadAll, Behind, TextInv, Text
<1> QED BY <1>2, <1>3, <1>4, <1>5 DEF Next, to_kana

\* It holds when the call is made: the text is src.
LEMMA CStart == Init => CInv
<1> SUFFICES ASSUME Init PROVE ReadAll /\ Behind /\ TextInv
  BY ConvInit DEF CInv
<1>1. src \in Seq(Char) /\ Len(src) \in Nat /\ pos = 0 /\ i = 0
  BY InputAssumption DEF Init
<1>2. Behind
  BY DEF Init, Behind
<1>3. ASSUME Clean(src) PROVE Parted(Text, Len(src))
  <2>1. Parted(src, Len(src))
    BY <1>1, <1>3, CleanParted
  <2>2. \A k \in 1..Len(src) : Text[k] = src[k]
    BY <1>1 DEF Text
  <2> QED BY <1>1, <2>1, <2>2, SameKinds
<1>4. ReadAll
  BY DEF Init, ReadAll
<1> QED BY <1>1, <1>2, <1>3, <1>4 DEF TextInv

-----------------------------------------------------------------------------
(* The shift goes from character to character. *)

\* p is at the beginning of a character of the string, or at its NUL.
SInv ==
  /\ dst \in [0..(dst_size - 1) -> 0..255]
  /\ pc = "ok" /\ pos < dst_size /\ dst[pos] = 0
  /\ \A k \in 0..(pos - 1) : dst[k] # 0
  /\ Behind
  /\ Parted(Written, pos)
  /\ p \in 0..pos
  /\ p < pos => ~IsCont(dst[p])

KInv ==
  /\ at \in {"convert", "shift", "done"}
  /\ at = "convert" => p = 0 /\ CInv
  /\ at # "convert" => /\ src \in Seq(Char) /\ dst_size \in Nat /\ pos \in Nat
                       /\ pc \in {"ok", "failed"}
                       /\ (pc = "ok" /\ Clean(src)) => SInv

\* A shifted kana has the bytes of a three-byte character.
LEMMA EncodeKinds ==
  \A cp \in Hiragana : /\ IsLead(Encode(cp + 96)[1])
                       /\ IsCont(Encode(cp + 96)[2])
                       /\ IsCont(Encode(cp + 96)[3])
<1> SUFFICES ASSUME NEW cp \in Hiragana
             PROVE  /\ IsLead(Encode(cp + 96)[1])
                    /\ IsCont(Encode(cp + 96)[2])
                    /\ IsCont(Encode(cp + 96)[3])
  OBVIOUS
<1> DEFINE x == cp + 96
           h == x \div 4096
           q == x \div 64
<1>1. x \in Nat /\ x >= 12288 /\ x < 16384
  BY DEF Hiragana
<1>2. h = 3
  BY <1>1
<1>3. q \in Nat
  BY <1>1
<1>4. Encode(x) = <<224 + h, 128 + (q % 64), 128 + (x % 64)>>
  BY DEF Encode
<1>5. q % 64 \in 0..63 /\ x % 64 \in 0..63
  BY <1>1, <1>3
<1> HIDE DEF x, h, q
<1>6. /\ Encode(x)[1] = 227 /\ Encode(x)[2] = 128 + (q % 64) /\ Encode(x)[3] = 128 + (x % 64)
  BY <1>2, <1>4
<1>7. IsLead(Encode(x)[1]) /\ IsCont(Encode(x)[2]) /\ IsCont(Encode(x)[3])
  BY <1>5, <1>6 DEF IsLead, IsCont
<1> QED BY <1>7 DEF x

\* Where the loop reads a byte that is not NUL, it is at the beginning of a
\* whole character, and the next one begins behind it.
LEMMA AtCharacter ==
  ASSUME dst_size \in Nat, pos \in Nat, SInv, Reading
  PROVE  /\ p < pos /\ dst[p] \in 0..255 /\ ~IsCont(dst[p])
         /\ p + Trail(dst[p]) + 1 \in 0..pos
         /\ \A j \in 1..Trail(dst[p]) : IsCont(dst[p + j])
         /\ p + Trail(dst[p]) + 1 < pos => ~IsCont(dst[p + Trail(dst[p]) + 1])
<1> DEFINE b == dst[p]
           t == Trail(b)
<1>1. p \in Nat /\ p < pos /\ b \in 0..255 /\ ~IsCont(b)
  BY DEF SInv, Reading
<1>2. \A x \in 0..(pos - 1) : Written[x + 1] = dst[x]
  <2> SUFFICES ASSUME NEW x \in 0..(pos - 1) PROVE Written[x + 1] = dst[x]
    OBVIOUS
  <2>1. x + 1 \in 1..pos /\ (x + 1) - 1 = x
    OBVIOUS
  <2> QED BY <2>1 DEF Written
<1>3. p + 1 \in 1..pos /\ p \in 0..(pos - 1)
  BY <1>1
<1>4. Written[p + 1] = b
  BY <1>2, <1>3
<1>5. t \in 0..3
  BY TrailType
<1>6. \A j \in 1..t : p + 1 + j <= pos /\ IsCont(Written[p + 1 + j])
  BY <1>3, <1>4 DEF SInv, Parted, Closed
<1>7. p + t + 1 \in 0..pos
  <2>1. CASE t = 0
    BY <1>1, <2>1
  <2>2. CASE t # 0
    <3>1. t \in 1..t
      BY <1>5, <2>2
    <3>2. p + 1 + t <= pos
      BY <1>6, <3>1
    <3> QED BY <1>1, <1>5, <3>2
  <2> QED BY <2>1, <2>2
<1>8. ASSUME NEW j \in 1..t PROVE IsCont(dst[p + j])
  <2>1. j \in Nat /\ j >= 1 /\ p + 1 + j <= pos
    BY <1>5, <1>6
  <2>2. p + j \in 0..(pos - 1) /\ p + 1 + j = p + j + 1
    BY <1>1, <2>1
  <2>3. Written[p + j + 1] = dst[p + j]
    BY <1>2, <2>2
  <2> QED BY <1>6, <2>2, <2>3
<1>9. ASSUME p + t + 1 < pos PROVE ~IsCont(dst[p + t + 1])
  <2> DEFINE w == Written
             k == p + 1
  <2>1. Parted(w, pos) /\ k \in 1..pos /\ ~IsCont(w[k]) /\ Trail(w[k]) = t
    BY <1>1, <1>3, <1>4 DEF SInv
  <2>2. k + t + 1 <= pos
    BY <1>1, <1>5, <1>9
  <2> HIDE DEF w, k, t
  <2>3. ~IsCont(w[k + t + 1])
    BY <2>1, <2>2, NextBegins
  <2>4. p + t + 1 \in 0..(pos - 1) /\ k + t + 1 = p + t + 1 + 1
    BY <1>1, <1>5, <2>2 DEF k
  <2>5. w[p + t + 1 + 1] = dst[p + t + 1]
    BY <1>2, <2>4 DEF w
  <2> QED BY <2>3, <2>4, <2>5
<1> QED BY <1>1, <1>7, <1>8, <1>9

\* For a byte that begins a character, the step is the length of it.
LEMMA StepIsWidth ==
  \A b \in 0..255 : /\ ~IsCont(b) /\ ~IsLead(b) => Width(b) = Trail(b) + 1
                    /\ IsLead(b) => Trail(b) = 2 /\ ~IsCont(b)
  BY DEF Width, Trail, IsCont, IsLead

\* The shift replaces three bytes by three of the same kinds.
LEMMA ShiftStep ==
  ASSUME dst_size \in Nat, pos \in Nat, SInv, Shift
  PROVE  SInv'
<1>1. Reading /\ IsLead(dst[p]) /\ UNCHANGED <<src, dst_size, pos, i, pc, at>> /\ p' = p + 3
  BY DEF Shift, Kana3, Step
<1>2. /\ p \in Nat /\ p < pos /\ pos < dst_size /\ dst[p] \in 0..255
      /\ dst \in [0..(dst_size - 1) -> 0..255]
  <2>1. p < pos /\ dst[p] \in 0..255
    BY <1>1, AtCharacter
  <2> QED BY <2>1 DEF SInv
<1>3. Trail(dst[p]) = 2
  BY <1>1, <1>2, StepIsWidth
<1>4. p + 3 \in 0..pos
  <2>1. p + 2 + 1 \in 0..pos
    BY <1>1, <1>3, AtCharacter
  <2> QED BY <2>1, <1>2
<1>5. IsCont(dst[p + 1]) /\ IsCont(dst[p + 2])
  BY <1>1, <1>3, AtCharacter
<1>6. p + 3 < pos => ~IsCont(dst[p + 3])
  <2>1. p + 2 + 1 < pos => ~IsCont(dst[p + 2 + 1])
    BY <1>1, <1>3, AtCharacter
  <2>2. p + 2 + 1 = p + 3
    BY <1>2
  <2> QED BY <2>1, <2>2
<1> DEFINE cp == Decode(dst[p], dst[p + 1], dst[p + 2])
<1>7. CASE cp \notin Hiragana
  <2>1. dst' = dst
    BY <1>7 DEF Shift
  <2>2. Written' = Written
    BY <1>1, <2>1 DEF Written
  <2> QED BY <1>1, <1>4, <1>6, <2>1, <2>2 DEF SInv, Behind
<1>8. CASE cp \in Hiragana
  <2> DEFINE e == Encode(cp + 96)
  <2>1. dst' = [dst EXCEPT ![p] = e[1], ![p + 1] = e[2], ![p + 2] = e[3]]
    BY <1>8 DEF Shift
  <2>2. IsLead(e[1]) /\ IsCont(e[2]) /\ IsCont(e[3])
    BY <1>8, EncodeKinds
  <2> HIDE DEF e, cp
  <2>3. e[1] \in 224..239 /\ e[2] \in 128..191 /\ e[3] \in 128..191
    BY <2>2 DEF IsLead, IsCont
  <2>4. p \in 0..(dst_size - 1) /\ p + 1 \in 0..(dst_size - 1) /\ p + 2 \in 0..(dst_size - 1)
    BY <1>2, <1>4
  <2>5. /\ dst' \in [0..(dst_size - 1) -> 0..255]
        /\ dst'[p] = e[1] /\ dst'[p + 1] = e[2] /\ dst'[p + 2] = e[3]
        /\ \A k \in 0..(dst_size - 1) : k \notin p..(p + 2) => dst'[k] = dst[k]
    <3>1. /\ DOMAIN dst' = 0..(dst_size - 1) /\ p # p + 1 /\ p # p + 2 /\ p + 1 # p + 2
          /\ dst' = [k \in DOMAIN dst' |-> dst'[k]]
      <4> DEFINE d1 == [dst EXCEPT ![p] = e[1]]
                 d2 == [d1 EXCEPT ![p + 1] = e[2]]
                 d3 == [d2 EXCEPT ![p + 2] = e[3]]
      <4>1. dst' = d3
        BY <2>1
      <4>2. DOMAIN d3 = 0..(dst_size - 1) /\ d3 = [k \in DOMAIN d3 |-> d3[k]]
        BY <1>2
      <4>3. p # p + 1 /\ p # p + 2 /\ p + 1 # p + 2
        BY <1>2
      <4> HIDE DEF d3
      <4> QED BY <4>1, <4>2, <4>3
    <3>2. dst'[p] = e[1] /\ dst'[p + 1] = e[2] /\ dst'[p + 2] = e[3]
      BY <1>2, <2>1, <2>4, <3>1
    <3>3. ASSUME NEW k \in 0..(dst_size - 1), k \notin p..(p + 2) PROVE dst'[k] = dst[k]
      <4>1. k # p /\ k # p + 1 /\ k # p + 2
        BY <1>2, <3>3
      <4> QED BY <1>2, <2>1, <4>1
    <3>4. ASSUME NEW k \in 0..(dst_size - 1) PROVE dst'[k] \in 0..255
      <4>1. CASE k \in p..(p + 2)
        <5>1. k = p \/ k = p + 1 \/ k = p + 2
          BY <1>2, <4>1
        <5> QED BY <5>1, <3>2, <2>3
      <4>2. CASE k \notin p..(p + 2)
        BY <4>2, <3>3, <1>2
      <4> QED BY <4>1, <4>2
    <3> QED BY <3>1, <3>2, <3>3, <3>4
  <2>6. dst'[pos] = 0
    <3>1. pos \in 0..(dst_size - 1) /\ pos \notin p..(p + 2)
      BY <1>2, <1>4
    <3> QED BY <2>5, <3>1 DEF SInv
  <2>7. \A k \in 0..(pos - 1) : dst'[k] # 0
    <3> SUFFICES ASSUME NEW k \in 0..(pos - 1) PROVE dst'[k] # 0
      OBVIOUS
    <3>1. k \in 0..(dst_size - 1)
      BY <1>2
    <3>2. CASE k \in p..(p + 2)
      <4>1. k = p \/ k = p + 1 \/ k = p + 2
        BY <1>2, <3>2
      <4>2. dst'[k] \in {e[1], e[2], e[3]}
        BY <4>1, <2>5
      <4> QED BY <4>2, <2>3
    <3>3. CASE k \notin p..(p + 2)
      BY <2>5, <3>1, <3>3 DEF SInv
    <3> QED BY <3>2, <3>3
  <2>8. Behind'
    <3> SUFFICES ASSUME NEW k \in 0..(dst_size - 1), pc = "call" \/ k > pos PROVE dst'[k] \in Junk
      BY <1>1 DEF Behind
    <3>0. k > pos
      BY DEF SInv
    <3>1. dst[k] \in Junk
      BY DEF SInv, Behind
    <3>2. k \notin p..(p + 2)
      BY <1>1, <1>2, <1>4, <3>0
    <3> QED BY <3>1, <3>2, <2>5
  <2>9. Parted(Written', pos)
    <3> DEFINE w == Written
               v == Written'
    <3>1. \A k \in 1..pos : w[k] = dst[k - 1] /\ v[k] = dst'[k - 1]
      BY <1>1 DEF Written
    <3>2. Parted(w, pos)
      BY DEF SInv
    <3> HIDE DEF w, v
    <3>3. ASSUME NEW k \in 1..pos
          PROVE  Trail(v[k]) = Trail(w[k]) /\ (IsCont(v[k]) <=> IsCont(w[k]))
      <4>0. k - 1 \in 0..(dst_size - 1)
        BY <1>2
      <4>1. CASE k - 1 = p
        <5>1. w[k] = dst[p] /\ v[k] = e[1]
          BY <3>1, <4>1, <2>5
        <5>2. e[1] \in 0..255
          BY <2>3
        <5> QED BY <5>1, <5>2, <1>1, <1>2, <2>2, StepIsWidth
      <4>2. CASE k - 1 = p + 1
        BY <3>1, <4>2, <2>5, <1>5, <2>2, TrailType
      <4>3. CASE k - 1 = p + 2
        BY <3>1, <4>3, <2>5, <1>5, <2>2, TrailType
      <4>4. CASE k - 1 \notin p..(p + 2)
        BY <3>1, <4>4, <4>0, <2>5
      <4>5. k - 1 \in p..(p + 2) => k - 1 = p \/ k - 1 = p + 1 \/ k - 1 = p + 2
        BY <1>2
      <4> QED BY <4>1, <4>2, <4>3, <4>4, <4>5
    <3>4. Parted(v, pos)
      BY <3>2, <3>3, SameKinds
    <3> QED BY <3>4 DEF v
  <2>10. p + 3 < pos => ~IsCont(dst'[p + 3])
    <3>1. p + 3 \notin p..(p + 2)
      BY <1>2
    <3>2. p + 3 < pos => p + 3 \in 0..(dst_size - 1)
      BY <1>2
    <3> QED BY <1>6, <2>5, <3>1, <3>2
  <2> QED BY <1>1, <1>2, <1>4, <2>5, <2>6, <2>7, <2>8, <2>9, <2>10 DEF SInv
<1> QED BY <1>7, <1>8

\* Any other character is stepped over.
LEMMA SkipStep ==
  ASSUME dst_size \in Nat, pos \in Nat, SInv, Skip
  PROVE  SInv'
<1>1. Reading /\ ~IsLead(dst[p]) /\ UNCHANGED <<vars, at>> /\ p' = p + Width(dst[p])
  BY DEF Skip
<1> DEFINE t == Trail(dst[p])
<1>2. /\ p < pos /\ dst[p] \in 0..255 /\ ~IsCont(dst[p]) /\ p + t + 1 \in 0..pos
      /\ p + t + 1 < pos => ~IsCont(dst[p + t + 1])
  BY <1>1, AtCharacter
<1>3. t \in 0..3 /\ p \in Nat
  BY TrailType DEF SInv
<1>4. Width(dst[p]) = t + 1
  BY <1>1, <1>2, StepIsWidth
<1>5. p' = p + t + 1
  <2> HIDE DEF t
  <2> QED BY <1>1, <1>3, <1>4
<1> HIDE DEF t
<1>6. p' \in 0..pos /\ (p' < pos => ~IsCont(dst[p']))
  BY <1>2, <1>5
<1> QED BY <1>1, <1>6 DEF vars, SInv, Behind, Written

\* The string of the conversion is where the shift begins.
LEMMA ShiftBegins ==
  ASSUME CInv, pc = "ok", p = 0, Clean(src)
  PROVE  SInv
<1>1. /\ dst_size \in Nat /\ pos \in Nat /\ src \in Seq(Char) /\ Len(src) \in Nat
      /\ dst \in [0..(dst_size - 1) -> 0..255]
  BY InputAssumption DEF CInv, ConvInv, TypeOK
<1>2. pos < dst_size /\ dst[pos] = 0 /\ \A k \in 0..(pos - 1) : dst[k] # 0
  BY DEF CInv, ConvInv, Begun, StringInBuffer
<1>3. i = Len(src)
  BY DEF CInv, ReadAll
<1>4. Parted(Text, pos)
  <2>1. pos + Len(src) - i = pos
    BY <1>1, <1>3
  <2> QED BY <2>1 DEF CInv, TextInv
<1>5. \A k \in 1..pos : Written[k] = Text[k]
  BY <1>1, <1>3 DEF Written, Text
<1>6. Parted(Written, pos)
  BY <1>1, <1>4, <1>5, SameKinds
<1>7. 0 < pos => ~IsCont(dst[0])
  <2> SUFFICES ASSUME 0 < pos, IsCont(dst[0]) PROVE FALSE
    OBVIOUS
  <2>1. 1 \in 1..pos /\ Written[1] = dst[0]
    BY <1>1 DEF Written
  <2>2. Owned(Written, 1)
    BY <1>6, <2>1 DEF Parted
  <2> QED BY <2>1, <2>2 DEF Owned
<1> QED BY <1>1, <1>2, <1>6, <1>7 DEF SInv, CInv

\* Every step of romaji_to_katakana keeps the invariant.
LEMMA KStep == KInv /\ [KNext]_kvars => KInv'
<1> SUFFICES ASSUME KInv, [KNext]_kvars PROVE KInv'
  OBVIOUS
<1>1. CASE Convert
  <2>1. at = "convert" /\ Next /\ UNCHANGED <<p, at>> /\ CInv /\ p = 0
    BY <1>1 DEF Convert, KInv
  <2>2. CInv'
    BY <2>1, CStep
  <2> QED BY <2>1, <2>2 DEF KInv
<1>2. CASE Converted
  <2>1. /\ at = "convert" /\ pc \in {"ok", "failed"} /\ at' \in {"shift", "done"}
        /\ UNCHANGED <<vars, p>> /\ CInv /\ p = 0
    BY <1>2 DEF Converted, KInv
  <2>2. src \in Seq(Char) /\ dst_size \in Nat /\ pos \in Nat
    BY <2>1, InputAssumption DEF CInv, ConvInv, TypeOK
  <2>3. (pc = "ok" /\ Clean(src)) => SInv
    BY <2>1, ShiftBegins
  <2> QED BY <2>1, <2>2, <2>3 DEF KInv, vars, SInv, Behind, Written, Clean
<1>3. ASSUME Shift \/ Skip \/ EndShift PROVE KInv'
  <2>1. at # "convert" /\ at' \in {"shift", "done"} /\ UNCHANGED <<src, dst_size, pos, pc>>
    BY <1>3 DEF Shift, Skip, EndShift, Reading, vars
  <2>2. /\ src \in Seq(Char) /\ dst_size \in Nat /\ pos \in Nat /\ pc \in {"ok", "failed"}
        /\ (pc = "ok" /\ Clean(src)) => SInv
    BY <2>1 DEF KInv
  <2>3. SInv => SInv'
    <3>1. EndShift => UNCHANGED <<vars, p>>
      BY DEF EndShift
    <3>2. SInv /\ UNCHANGED <<vars, p>> => SInv'
      BY DEF vars, SInv, Behind, Written
    <3> QED BY <1>3, <2>2, <3>1, <3>2, ShiftStep, SkipStep
  <2>4. Clean(src') <=> Clean(src)
    BY <2>1
  <2> QED BY <2>1, <2>2, <2>3, <2>4 DEF KInv
<1>4. CASE UNCHANGED kvars
  BY <1>4 DEF kvars, vars, KInv, CInv, ConvInv, TypeOK, Begun, Expansion, StringInBuffer,
              FitsBuffer, Behind, TextInv, Text, ReadAll, SInv, Written, Clean
<1> QED BY <1>1, <1>2, <1>3, <1>4 DEF KNext, hira_to_kata

\* "3-byte sequences stay 3 bytes so length is unchanged": for every table,
\* every clean input and every buffer, when the conversion has succeeded the
\* buffer holds a string of exactly pos bytes before, during and after the
\* shift, the shift stays inside it, and nothing is written behind it.
THEOREM ShiftKeepsLength == KSpec => []LengthKept
<1>1. KInit => KInv
  BY CStart DEF KInit, KInv
<1>2. KInv => LengthKept
  <2> SUFFICES ASSUME KInv, Clean(src), pc = "ok"
               PROVE  /\ dst[pos] = 0
                      /\ \A k \in 0..(pos - 1) : dst[k] # 0
                      /\ p <= pos
                      /\ \A k \in (pos + 1)..(dst_size - 1) : dst[k] \in Junk
    BY DEF LengthKept
  <2>1. SInv
    BY ShiftBegins DEF KInv
  <2>2. pos \in Nat /\ dst_size \in Nat
    BY InputAssumption DEF KInv, CInv, ConvInv, TypeOK
  <2> QED BY <2>1, <2>2 DEF SInv, Behind
<1> QED BY <1>1, <1>2, KStep, PTL DEF KSpec

-----------------------------------------------------------------------------
(* The reference: characters, and the recursion over them. *)

\* The end of a character is a position of s from k on.
LEMMA CharEndType ==
  ASSUME NEW s \in Seq(Char), NEW k \in 1..Len(s)
  PROVE  CharEnd(s, k) \in k..Len(s)
<1> DEFINE n == Len(s)
           b == s[k]
           take == IF b < 128 THEN 1
                   ELSE IF b \in 192..223 THEN 2 ELSE IF b \in 224..239 THEN 3 ELSE 4
<1>1. n \in Nat /\ k \in 1..n
  OBVIOUS
<1>2. take \in 1..4
  OBVIOUS
<1>3. CharEnd(s, k) = IF k + take <= n THEN k + take - 1 ELSE n
  BY DEF CharEnd
<1> HIDE DEF n, take
<1>4. CharEnd(s, k) \in k..n
  BY <1>1, <1>2, <1>3
<1> QED BY <1>4 DEF n

\* A shifted kana is written alike by both versions.
LEMMA SameEncoding == \A cp : Utf8(cp) = Encode(cp)
  BY DEF Utf8, Encode

\* It has three bytes.
LEMMA EncodeType ==
  ASSUME NEW cp \in Hiragana
  PROVE  Encode(cp + 96) \in Seq(Char) /\ Len(Encode(cp + 96)) = 3
<1> DEFINE e == Encode(cp + 96)
<1>1. IsLead(e[1]) /\ IsCont(e[2]) /\ IsCont(e[3])
  BY EncodeKinds
<1>2. e[1] \in Char /\ e[2] \in Char /\ e[3] \in Char
  <2> HIDE DEF e
  <2> QED BY <1>1 DEF IsLead, IsCont, Char
<1>3. e = <<e[1], e[2], e[3]>>
  BY DEF Encode
<1> HIDE DEF e
<1>4. e \in Seq(Char) /\ Len(e) = 3
  <2> DEFINE x == e[1]
             y == e[2]
             z == e[3]
  <2>1. x \in Char /\ y \in Char /\ z \in Char /\ e = <<x, y, z>>
    BY <1>2, <1>3
  <2> HIDE DEF x, y, z
  <2> QED BY <2>1
<1> QED BY <1>4 DEF e

\* What a character becomes is text.
LEMMA KataAtType ==
  ASSUME NEW s \in Seq(Char), NEW k \in 1..Len(s)
  PROVE  KataAt(s, k) \in Seq(Char)
<1> DEFINE cp == CodeAt(s, k)
           q == CharEnd(s, k)
<1>1. CASE s[k] \in 224..239 /\ cp \in Hiragana
  <2>1. KataAt(s, k) = Encode(cp + 96)
    BY <1>1, SameEncoding DEF KataAt, Hiragana
  <2> HIDE DEF cp
  <2> QED BY <1>1, <2>1, EncodeType
<1>2. CASE ~(s[k] \in 224..239 /\ cp \in Hiragana)
  <2>1. KataAt(s, k) = SubSeq(s, k, q)
    <3> DEFINE hira == s[k] \in 224..239 /\ CodeAt(s, k) \in \h3041..\h3096
    <3>1. ~hira
      BY <1>2 DEF Hiragana
    <3>2. KataAt(s, k) = IF hira THEN Utf8(CodeAt(s, k) + 96) ELSE SubSeq(s, k, CharEnd(s, k))
      BY DEF KataAt
    <3> HIDE DEF hira
    <3> QED BY <3>1, <3>2
  <2>2. q \in k..Len(s)
    BY CharEndType
  <2> HIDE DEF q
  <2> QED BY <2>1, <2>2
<1> QED BY <1>1, <1>2

\* The recursion of KataFrom is well founded.
LEMMA KataEquation ==
  ASSUME NEW s \in Seq(Char)
  PROVE  /\ KataFrom(s) \in [1..(Len(s) + 1) -> Seq(Char)]
         /\ KataFrom(s)[Len(s) + 1] = <<>>
         /\ \A k \in 1..Len(s) : KataFrom(s)[k] = KataAt(s, k) \o KataFrom(s)[CharEnd(s, k) + 1]
<1> DEFINE n == Len(s)
           V == Seq(Char)
           base == <<>>
           nxt == [k \in 1..n |-> CharEnd(s, k) + 1]
           step == [k \in 1..n |-> [v \in V |-> KataAt(s, k) \o v]]
           G(f, k) == IF k > n THEN <<>> ELSE KataAt(s, k) \o f[CharEnd(s, k) + 1]
           R(f) == f = [k \in 1..(n + 1) |-> G(f, k)]
<1>1. n \in Nat /\ base \in V
  OBVIOUS
<1>2. Ahead(n, nxt)
  <2> SUFFICES ASSUME NEW k \in 1..n PROVE nxt[k] \in (k + 1)..(n + 1)
    BY DEF Ahead
  <2> DEFINE q == CharEnd(s, k)
  <2>1. nxt[k] = q + 1
    OBVIOUS
  <2>2. q \in k..n
    BY CharEndType
  <2> HIDE DEF nxt, q, n
  <2> QED BY <1>1, <2>1, <2>2
<1>3. Steps(n, V, step)
  <2> SUFFICES ASSUME NEW k \in 1..n PROVE step[k] \in [V -> V]
    BY DEF Steps
  <2> DEFINE o == KataAt(s, k)
  <2>1. o \in Seq(Char)
    BY KataAtType
  <2>2. step[k] = [v \in V |-> o \o v]
    OBVIOUS
  <2> HIDE DEF step, o
  <2> QED BY <2>1, <2>2
<1>4. PICK f \in [1..(n + 1) -> V] : Recursion(f, n, base, nxt, step)
  <2> HIDE DEF n, V, base, nxt, step
  <2> QED BY <1>1, <1>2, <1>3, Backwards
<1>5. ASSUME NEW k \in 1..n PROVE f[k] = KataAt(s, k) \o f[nxt[k]]
  <2>1. nxt[k] \in (k + 1)..(n + 1)
    BY <1>2 DEF Ahead
  <2>2. nxt[k] \in 1..(n + 1)
    <3> DEFINE j == nxt[k]
    <3>1. j \in (k + 1)..(n + 1)
      BY <2>1
    <3> HIDE DEF j
    <3>2. j \in 1..(n + 1)
      BY <1>1, <3>1
    <3> QED BY <3>2 DEF j
  <2>3. f[nxt[k]] \in V
    <3> HIDE DEF nxt, V, n
    <3> QED BY <2>2
  <2>4. f[k] = step[k][f[nxt[k]]]
    BY <1>4 DEF Recursion
  <2>5. \A v \in V : step[k][v] = KataAt(s, k) \o v
    <3> HIDE DEF V
    <3> QED OBVIOUS
  <2> HIDE DEF step, nxt, V
  <2> QED BY <2>3, <2>4, <2>5
<1>6. f[n + 1] = base
  BY <1>4 DEF Recursion
<1>7. ASSUME NEW k \in 1..n PROVE nxt[k] = CharEnd(s, k) + 1
  OBVIOUS
<1>8. R(f)
  <2>1. f = [k \in 1..(n + 1) |-> f[k]]
    OBVIOUS
  <2>2. ASSUME NEW k \in 1..(n + 1) PROVE f[k] = G(f, k)
    <3>1. CASE k = n + 1
      <4>1. k > n
        BY <1>1, <3>1
      <4> QED BY <3>1, <4>1, <1>6
    <3>2. CASE k # n + 1
      <4>1. k \in 1..n /\ ~(k > n)
        BY <3>2, <1>1
      <4>2. G(f, k) = KataAt(s, k) \o f[CharEnd(s, k) + 1]
        BY <4>1
      <4> HIDE DEF nxt, G, n
      <4> QED BY <4>1, <4>2, <1>5, <1>7
    <3> QED BY <3>1, <3>2
  <2> HIDE DEF G, n
  <2> QED BY <2>1, <2>2
<1> DEFINE g == CHOOSE h : R(h)
<1>9. R(g)
  <2> HIDE DEF R
  <2> QED BY <1>8
<1>10. KataFrom(s) = g
  BY DEF KataFrom
<1> HIDE DEF g
<1> DEFINE H(k) == G(g, k)
<1>11. g = [k \in 1..(n + 1) |-> H(k)]
  BY <1>9
<1>12. DOMAIN g = 1..(n + 1) /\ g = [k \in 1..(n + 1) |-> g[k]] /\ \A k \in 1..(n + 1) : g[k] = H(k)
  <2> HIDE DEF H, n
  <2> QED BY <1>11
<1>13. g[n + 1] = base
  <2>1. n + 1 \in 1..(n + 1) /\ n + 1 > n
    BY <1>1
  <2>2. H(n + 1) = base
    BY <2>1
  <2> HIDE DEF H, n, base
  <2> QED BY <2>1, <2>2, <1>12
<1>14. ASSUME NEW k \in 1..n PROVE g[k] = KataAt(s, k) \o g[nxt[k]]
  <2>1. k \in 1..(n + 1) /\ ~(k > n)
    BY <1>1
  <2>2. H(k) = KataAt(s, k) \o g[CharEnd(s, k) + 1]
    BY <2>1
  <2> HIDE DEF nxt, H, n
  <2> QED BY <2>1, <2>2, <1>7, <1>12
<1>15. \A k \in 1..(n + 1) : f[k] = g[k]
  <2>1. ASSUME NEW k \in 1..n, f[nxt[k]] = g[nxt[k]] PROVE f[k] = g[k]
    <3> HIDE DEF nxt, n
    <3> QED BY <2>1, <1>5, <1>14
  <2> HIDE DEF nxt, n, base
  <2>2. Alike(f, g, n, nxt)
    BY <2>1, <1>6, <1>13 DEF Alike
  <2> QED BY <1>1, <1>2, <2>2, SameBackwards
<1>16. g \in [1..(n + 1) -> V]
  <2>1. \A k \in 1..(n + 1) : g[k] \in V
    <3> HIDE DEF n, V
    <3> QED BY <1>15
  <2> HIDE DEF n, V
  <2> QED BY <2>1, <1>12
<1>17. ASSUME NEW k \in 1..n PROVE g[k] = KataAt(s, k) \o g[CharEnd(s, k) + 1]
  <2> HIDE DEF nxt, n
  <2> QED BY <1>7, <1>14
<1> QED BY <1>10, <1>13, <1>16, <1>17

-----------------------------------------------------------------------------
(* The shift computes the reference. *)

\* The first m bytes of w are shifted, the others are still the ones of t: the
\* former, with what the reference makes of the latter, are the reference of t.
Shifted(w, t, m) ==
  /\ SubSeq(w, 1, m) \o KataFrom(t)[m + 1] = KataOf(t)
  /\ \A k \in (m + 1)..Len(t) : w[k] = t[k]

\* Shifting one more character.
LEMMA ShiftedMore ==
  ASSUME NEW t \in Seq(Char), NEW w \in Seq(Char), NEW v \in Seq(Char),
         Len(w) = Len(t), Len(v) = Len(t), NEW m \in Nat, m < Len(t),
         NEW q \in (m + 1)..Len(t), CharEnd(t, m + 1) = q, Len(KataAt(t, m + 1)) = q - m,
         \A k \in 1..m : v[k] = w[k],
         \A x \in 1..(q - m) : v[m + x] = KataAt(t, m + 1)[x],
         \A k \in (q + 1)..Len(t) : v[k] = w[k],
         Shifted(w, t, m)
  PROVE  Shifted(v, t, q)
<1> DEFINE n == Len(t)
           o == KataAt(t, m + 1)
           a == SubSeq(w, 1, m)
           b == SubSeq(v, 1, q)
           r == KataFrom(t)[q + 1]
<1>1. n \in Nat /\ q \in Nat /\ m < q /\ q <= n /\ m + 1 \in 1..n
  OBVIOUS
<1>2. o \in Seq(Char) /\ Len(o) = q - m
  BY <1>1, KataAtType
<1>3. KataFrom(t)[m + 1] = o \o r
  BY <1>1, KataEquation
<1>4. r \in Seq(Char)
  <2>1. q + 1 \in 1..(n + 1)
    BY <1>1
  <2> QED BY <2>1, KataEquation
<1>5. a \in Seq(Char) /\ Len(a) = m /\ \A k \in 1..m : a[k] = w[k]
  <2>1. m <= Len(w)
    BY <1>1
  <2> QED BY <2>1
<1>6. b \in Seq(Char) /\ Len(b) = q /\ \A k \in 1..q : b[k] = v[k]
  <2>1. q <= Len(v)
    BY <1>1
  <2> QED BY <1>1, <2>1
<1>7. \A x \in 1..(q - m) : v[m + x] = o[x]
  OBVIOUS
<1> HIDE DEF o, r, a, b, n
<1>8. b = a \o o
  <2> DEFINE c == a \o o
  <2>1. c \in Seq(Char) /\ Len(c) = q
    <3>1. c \in Seq(Char) /\ Len(c) = Len(a) + Len(o)
      BY <1>2, <1>5, ConcatType
    <3> HIDE DEF c
    <3> QED BY <1>1, <1>2, <1>5, <3>1
  <2>2. ASSUME NEW k \in 1..q PROVE b[k] = c[k]
    <3>1. CASE k <= m
      <4>1. c[k] = a[k] /\ k \in 1..m
        BY <1>2, <1>5, <3>1
      <4> QED BY <4>1, <1>5, <1>6
    <3>2. CASE k > m
      <4>1. k - m \in 1..(q - m) /\ m + (k - m) = k
        BY <1>1, <3>2
      <4>2. c[k] = o[k - m]
        BY <1>1, <1>2, <1>5, <3>2
      <4>3. v[m + (k - m)] = o[k - m]
        BY <1>7, <4>1
      <4>4. v[k] = o[k - m]
        BY <4>1, <4>3
      <4> HIDE DEF c
      <4> QED BY <4>2, <4>4, <1>6
    <3>3. k <= m \/ k > m
      OBVIOUS
    <3> QED BY <3>1, <3>2, <3>3
  <2> HIDE DEF c
  <2>3. b = c
    BY <1>6, <2>1, <2>2, SameSequence
  <2> QED BY <2>3 DEF c
<1>9. b \o r = KataOf(t)
  <2>1. a \o (o \o r) = KataOf(t)
    BY <1>3 DEF Shifted, a
  <2>2. (a \o o) \o r = a \o (o \o r)
    <3>1. a \in Seq(Char) /\ o \in Seq(Char) /\ r \in Seq(Char)
      BY <1>2, <1>4, <1>5
    <3> QED BY <3>1, SMTT(30)
  <2> QED BY <1>8, <2>1, <2>2
<1>10. \A k \in (q + 1)..Len(t) : v[k] = t[k]
  <2> SUFFICES ASSUME NEW k \in (q + 1)..Len(t) PROVE v[k] = t[k]
    OBVIOUS
  <2>1. k \in (m + 1)..Len(t)
    BY <1>1 DEF n
  <2>2. v[k] = w[k] /\ w[k] = t[k]
    BY <2>1 DEF Shifted
  <2> QED BY <2>2
<1> QED BY <1>9, <1>10 DEF Shifted, b, r

\* The string that the conversion leaves, and so does the one of romaji.c.
Kana == KanaWithin(src, dst_size - 1)

\* A buffer d of size bytes with a string of m bytes, and the string.
CString(d, size, m) ==
  /\ m < size /\ d \in [0..(size - 1) -> 0..255]
  /\ \A k \in 0..(m - 1) : d[k] # 0
BytesOf(d, m) == [k \in 1..m |-> d[k - 1]]

\* The string is text.
LEMMA StringOf ==
  ASSUME NEW size \in Nat, NEW m \in Nat, NEW d, CString(d, size, m)
  PROVE  /\ BytesOf(d, m) \in Seq(Char) /\ Len(BytesOf(d, m)) = m
         /\ \A x \in 0..(m - 1) : BytesOf(d, m)[x + 1] = d[x]
<1>1. ASSUME NEW k \in 1..m PROVE d[k - 1] \in Char
  <2>1. k - 1 \in 0..(size - 1) /\ k - 1 \in 0..(m - 1)
    BY DEF CString
  <2>2. d[k - 1] \in 0..255 /\ d[k - 1] # 0
    BY <2>1 DEF CString
  <2> QED BY <2>2 DEF Char
<1>2. BytesOf(d, m) \in Seq(Char) /\ Len(BytesOf(d, m)) = m
  <2> DEFINE D(k) == d[k - 1]
  <2>1. \A k \in 1..m : D(k) \in Char
    BY <1>1
  <2> HIDE DEF D
  <2>2. [k \in 1..m |-> D(k)] \in Seq(Char) /\ Len([k \in 1..m |-> D(k)]) = m
    BY <2>1
  <2> QED BY <2>2 DEF BytesOf, D
<1>3. ASSUME NEW x \in 0..(m - 1) PROVE BytesOf(d, m)[x + 1] = d[x]
  <2>1. x + 1 \in 1..m /\ (x + 1) - 1 = x
    OBVIOUS
  <2> QED BY <2>1 DEF BytesOf
<1> QED BY <1>2, <1>3

\* The string in dst, while it is shifted.
LEMMA StringType ==
  ASSUME dst_size \in Nat, pos \in Nat, SInv
  PROVE  /\ Written \in Seq(Char) /\ Len(Written) = pos
         /\ \A x \in 0..(pos - 1) : Written[x + 1] = dst[x]
<1>1. CString(dst, dst_size, pos)
  BY DEF SInv, CString
<1>2. Written = BytesOf(dst, pos)
  BY DEF Written, BytesOf
<1> QED BY <1>1, <1>2, StringOf

\* What is shifted is what the reference shifts.
ShiftInv ==
  /\ Kana \in Seq(Char) /\ Len(Kana) = pos
  /\ Shifted(Written, Kana, p)
  /\ at = "done" => p = pos

\* The loop is at a character of the reference too.
LEMMA SameCharacter ==
  ASSUME dst_size \in Nat, pos \in Nat, SInv, ShiftInv, Reading
  PROVE  /\ p \in Nat /\ p + 1 \in 1..pos /\ Kana[p + 1] = dst[p]
         /\ CharEnd(Kana, p + 1) = p + Trail(dst[p]) + 1
<1> DEFINE b == dst[p]
           h == Trail(b)
           k == p + 1
           t == Kana
<1>1. p < pos /\ b \in 0..255 /\ ~IsCont(b) /\ p + h + 1 \in 0..pos /\ p \in Nat
  <2>1. p < pos /\ b \in 0..255 /\ ~IsCont(b) /\ p + h + 1 \in 0..pos
    BY AtCharacter
  <2>2. p \in Nat
    BY DEF SInv
  <2> QED BY <2>1, <2>2
<1>2. k \in 1..pos /\ p \in 0..(pos - 1) /\ k \in (p + 1)..pos
  BY <1>1
<1>3. t[k] = b
  <2>1. Written[k] = b
    BY <1>2, StringType
  <2>2. Len(t) = pos /\ \A x \in (p + 1)..Len(t) : Written[x] = t[x]
    BY DEF ShiftInv, Shifted
  <2> QED BY <1>2, <2>1, <2>2
<1>4. h \in 0..3
  BY TrailType
<1> DEFINE take == IF b < 128 THEN 1
                   ELSE IF b \in 192..223 THEN 2 ELSE IF b \in 224..239 THEN 3 ELSE 4
<1>5. take = h + 1
  <2> HIDE DEF b
  <2> QED BY <1>1 DEF Trail, IsCont
<1>6. CharEnd(t, k) = IF k + take <= pos THEN k + take - 1 ELSE pos
  <2>1. Len(t) = pos
    BY DEF ShiftInv
  <2> HIDE DEF b, t
  <2> QED BY <1>3, <2>1 DEF CharEnd
<1> HIDE DEF take, h, b, t
<1>7. CharEnd(t, k) = p + h + 1
  BY <1>1, <1>4, <1>5, <1>6
<1> QED BY <1>1, <1>2, <1>3, <1>7 DEF h, b, t

\* A character that is not hiragana stays as it is, in both.
LEMMA KeepsCharacter ==
  ASSUME dst_size \in Nat, pos \in Nat, SInv, ShiftInv, Reading, NEW q,
         CharEnd(Kana, p + 1) = q, KataAt(Kana, p + 1) = SubSeq(Kana, p + 1, q)
  PROVE  Shifted(Written, Kana, q)
<1> DEFINE t == Kana
           w == Written
           m == p
           o == KataAt(t, m + 1)
<1>1. m \in Nat /\ m + 1 \in 1..pos /\ pos \in Nat
  BY SameCharacter
<1>2. t \in Seq(Char) /\ Len(t) = pos /\ Shifted(w, t, m)
  BY DEF ShiftInv
<1>3. w \in Seq(Char) /\ Len(w) = pos
  BY StringType
<1>4. q \in (m + 1)..pos
  BY <1>1, <1>2, CharEndType
<1>5. o = SubSeq(t, m + 1, q) /\ CharEnd(t, m + 1) = q
  OBVIOUS
<1> HIDE DEF t, w, m
<1>6. Len(o) = q - m /\ \A x \in 1..(q - m) : o[x] = t[m + x]
  <2>1. q \in Nat /\ q <= Len(t)
    BY <1>1, <1>2, <1>4
  <2> DEFINE u == SubSeq(t, m + 1, q)
  <2>2. Len(u) = q - m /\ \A x \in 1..(q - m) : u[x] = t[(m + 1) + x - 1]
    BY <1>1, <1>2, <1>4, <2>1
  <2>3. \A x \in 1..(q - m) : (m + 1) + x - 1 = m + x
    BY <1>1, <2>1
  <2> HIDE DEF u
  <2>4. o = u
    BY <1>5 DEF u
  <2> HIDE DEF o
  <2> QED BY <2>2, <2>3, <2>4
<1>7. ASSUME NEW x \in 1..(q - m) PROVE w[m + x] = o[x]
  <2>1. m + x \in (m + 1)..Len(t)
    BY <1>1, <1>2, <1>4
  <2>2. w[m + x] = t[m + x]
    BY <1>2, <2>1 DEF Shifted
  <2> HIDE DEF o
  <2> QED BY <1>6, <2>2
<1>8. m < Len(t) /\ q \in (m + 1)..Len(t) /\ Len(w) = Len(t)
  BY <1>1, <1>2, <1>3, <1>4
<1>9. Shifted(w, t, q)
  BY <1>1, <1>2, <1>3, <1>5, <1>6, <1>7, <1>8, ShiftedMore
<1> QED BY <1>9 DEF w, t

\* A hiragana is shifted by both, to the same katakana.
LEMMA ShiftsCharacter ==
  ASSUME dst_size \in Nat, pos \in Nat, SInv, ShiftInv, Shift
  PROVE  ShiftInv'
<1> DEFINE t == Kana
           cp == Decode(dst[p], dst[p + 1], dst[p + 2])
           e == Encode(cp + 96)
<1>1. Reading /\ IsLead(dst[p]) /\ UNCHANGED <<src, dst_size, pos, i, pc, at>> /\ p' = p + 3
  BY DEF Shift, Kana3, Step
<1>2. p \in Nat /\ p + 1 \in 1..pos /\ t[p + 1] = dst[p] /\ CharEnd(t, p + 1) = p + Trail(dst[p]) + 1
  BY <1>1, SameCharacter
<1>3. Trail(dst[p]) = 2 /\ p + Trail(dst[p]) + 1 \in 0..pos /\ dst[p] \in 0..255
  <2>1. dst[p] \in 0..255 /\ p + Trail(dst[p]) + 1 \in 0..pos
    BY <1>1, AtCharacter
  <2> QED BY <2>1, <1>1, StepIsWidth
<1>4. CharEnd(t, p + 1) = p + 3 /\ p + 3 \in 0..pos
  <2> DEFINE h == Trail(dst[p])
  <2>1. h = 2 /\ CharEnd(t, p + 1) = p + h + 1 /\ p + h + 1 \in 0..pos
    BY <1>2, <1>3
  <2> HIDE DEF h, t
  <2> QED BY <1>2, <2>1
<1>5. t \in Seq(Char) /\ Len(t) = pos /\ Shifted(Written, t, p)
  BY DEF ShiftInv
<1>6. Written \in Seq(Char) /\ Len(Written) = pos
      /\ \A x \in 0..(pos - 1) : Written[x + 1] = dst[x]
  BY StringType
<1>7. ASSUME NEW x \in 1..3 PROVE t[p + x] = dst[p + x - 1]
  <2>1. p + x \in (p + 1)..pos /\ p + x - 1 \in 0..(pos - 1) /\ (p + x - 1) + 1 = p + x
    BY <1>2, <1>4
  <2>2. Written[p + x] = t[p + x]
    BY <1>5, <2>1 DEF Shifted
  <2>3. Written[(p + x - 1) + 1] = dst[p + x - 1]
    BY <1>6, <2>1
  <2> QED BY <2>1, <2>2, <2>3
<1>8. CodeAt(t, p + 1) = cp
  <2>1. p + 1 + 1 = p + 2 /\ p + 1 + 2 = p + 3 /\ p + 2 - 1 = p + 1 /\ p + 3 - 1 = p + 2
    BY <1>2
  <2>2. t[p + 2] = dst[p + 2 - 1] /\ t[p + 3] = dst[p + 3 - 1]
    BY <1>7
  <2>3. t[p + 1 + 1] = dst[p + 1] /\ t[p + 1 + 2] = dst[p + 2]
    BY <2>1, <2>2
  <2> HIDE DEF t
  <2> QED BY <1>2, <2>3 DEF CodeAt, Decode
<1>9. t[p + 1] \in 224..239
  BY <1>1, <1>2 DEF IsLead
<1>10. Kana' = t /\ at' = "shift"
  <2>1. at = "shift"
    BY <1>1 DEF Reading
  <2> QED BY <1>1, <2>1 DEF Kana
<1> SUFFICES Shifted(Written', t, p + 3)
  BY <1>1, <1>5, <1>10 DEF ShiftInv
<1>11. CASE cp \notin Hiragana
  <2>1. dst' = dst
    BY <1>11 DEF Shift
  <2>2. Written' = Written
    BY <1>1, <2>1 DEF Written
  <2>3. KataAt(t, p + 1) = SubSeq(t, p + 1, p + 3)
    <3> DEFINE hira == t[p + 1] \in 224..239 /\ CodeAt(t, p + 1) \in \h3041..\h3096
    <3>1. ~hira
      <4> HIDE DEF t, cp
      <4> QED BY <1>8, <1>11 DEF Hiragana
    <3>2. KataAt(t, p + 1) = IF hira THEN Utf8(CodeAt(t, p + 1) + 96)
                             ELSE SubSeq(t, p + 1, CharEnd(t, p + 1))
      BY DEF KataAt
    <3> HIDE DEF hira, t
    <3> QED BY <1>4, <3>1, <3>2
  <2> QED BY <1>1, <1>4, <2>2, <2>3, KeepsCharacter
<1>12. CASE cp \in Hiragana
  <2>1. dst' = [dst EXCEPT ![p] = e[1], ![p + 1] = e[2], ![p + 2] = e[3]]
    BY <1>12 DEF Shift
  <2>2. KataAt(t, p + 1) = e
    <3> DEFINE hira == t[p + 1] \in 224..239 /\ CodeAt(t, p + 1) \in \h3041..\h3096
    <3>1. hira
      <4> HIDE DEF t, cp
      <4> QED BY <1>8, <1>9, <1>12 DEF Hiragana
    <3>2. KataAt(t, p + 1) = IF hira THEN Utf8(CodeAt(t, p + 1) + 96)
                             ELSE SubSeq(t, p + 1, CharEnd(t, p + 1))
      BY DEF KataAt
    <3> HIDE DEF hira, t, cp
    <3> QED BY <1>8, <3>1, <3>2, SameEncoding
  <2>3. e \in Seq(Char) /\ Len(e) = 3
    <3> HIDE DEF cp
    <3> QED BY <1>12, EncodeType
  <2>4. SInv'
    BY ShiftStep
  <2>5. /\ Written' \in Seq(Char) /\ Len(Written') = pos
        /\ \A x \in 0..(pos - 1) : Written'[x + 1] = dst'[x]
    <3>1. pos' = pos /\ dst_size' = dst_size
      BY <1>1
    <3>2. CString(dst', dst_size, pos)
      BY <2>4, <3>1 DEF SInv, CString
    <3>3. Written' = BytesOf(dst', pos)
      BY <3>1 DEF Written, BytesOf
    <3> QED BY <3>2, <3>3, StringOf
  <2> HIDE DEF e, cp
  <2>6. /\ dst \in [0..(dst_size - 1) -> 0..255] /\ pos < dst_size
    BY DEF SInv
  <2>7. p \in 0..(dst_size - 1) /\ p + 1 \in 0..(dst_size - 1) /\ p + 2 \in 0..(dst_size - 1)
    BY <1>2, <1>4, <2>6
  <2>8. /\ dst'[p] = e[1] /\ dst'[p + 1] = e[2] /\ dst'[p + 2] = e[3]
        /\ \A k \in 0..(dst_size - 1) : k \notin p..(p + 2) => dst'[k] = dst[k]
    <3>1. p # p + 1 /\ p # p + 2 /\ p + 1 # p + 2
      BY <1>2
    <3>2. dst'[p] = e[1] /\ dst'[p + 1] = e[2] /\ dst'[p + 2] = e[3]
      BY <2>1, <2>6, <2>7, <3>1
    <3>3. ASSUME NEW k \in 0..(dst_size - 1), k \notin p..(p + 2) PROVE dst'[k] = dst[k]
      <4>1. k # p /\ k # p + 1 /\ k # p + 2
        BY <1>2, <3>3
      <4> QED BY <2>1, <2>6, <4>1
    <3> QED BY <3>2, <3>3
  <2> DEFINE w == Written
             v == Written'
             m == p
             q == p + 3
  <2>9. ASSUME NEW k \in 1..pos, k \notin (p + 1)..(p + 3) PROVE v[k] = w[k]
    <3>1. k - 1 \in 0..(pos - 1) /\ k - 1 \in 0..(dst_size - 1) /\ k - 1 \notin p..(p + 2)
      BY <1>2, <2>6, <2>9
    <3>2. (k - 1) + 1 = k
      OBVIOUS
    <3>3. v[(k - 1) + 1] = dst'[k - 1] /\ w[(k - 1) + 1] = dst[k - 1]
      BY <1>6, <2>5, <3>1
    <3>4. dst'[k - 1] = dst[k - 1]
      BY <2>8, <3>1
    <3> HIDE DEF v, w
    <3> QED BY <3>2, <3>3, <3>4
  <2>10. \A x \in 1..3 : v[p + x] = e[x]
    <3>1. p \in 0..(pos - 1) /\ p + 1 \in 0..(pos - 1) /\ p + 2 \in 0..(pos - 1)
      BY <1>2, <1>4
    <3>2. v[p + 1] = dst'[p] /\ v[p + 1 + 1] = dst'[p + 1] /\ v[p + 2 + 1] = dst'[p + 2]
      BY <2>5, <3>1
    <3>3. p + 1 + 1 = p + 2 /\ p + 2 + 1 = p + 3
      BY <1>2
    <3> HIDE DEF v
    <3>4. v[p + 1] = e[1] /\ v[p + 2] = e[2] /\ v[p + 3] = e[3]
      BY <2>8, <3>2, <3>3
    <3>5. \A x \in 1..3 : x = 1 \/ x = 2 \/ x = 3
      OBVIOUS
    <3> QED BY <3>4, <3>5
  <2>11. \A k \in 1..m : v[k] = w[k]
    <3> SUFFICES ASSUME NEW k \in 1..p PROVE v[k] = w[k]
      OBVIOUS
    <3>1. k \in 1..pos /\ k \notin (p + 1)..(p + 3)
      BY <1>2
    <3> QED BY <2>9, <3>1
  <2>12. \A k \in (q + 1)..Len(t) : v[k] = w[k]
    <3> SUFFICES ASSUME NEW k \in (p + 3 + 1)..pos PROVE v[k] = w[k]
      BY <1>5
    <3>1. k \in 1..pos /\ k \notin (p + 1)..(p + 3)
      BY <1>2
    <3> QED BY <2>9, <3>1
  <2>13. /\ q \in (m + 1)..Len(t) /\ CharEnd(t, m + 1) = q /\ m \in Nat /\ m < Len(t) /\ q - m = 3
         /\ Shifted(w, t, m) /\ t \in Seq(Char) /\ w \in Seq(Char) /\ v \in Seq(Char)
         /\ Len(w) = Len(t) /\ Len(v) = Len(t)
    <3> HIDE DEF t
    <3> QED BY <1>2, <1>4, <1>5, <1>6, <2>5
  <2>14. Len(KataAt(t, m + 1)) = q - m /\ \A x \in 1..(q - m) : v[m + x] = KataAt(t, m + 1)[x]
    <3> HIDE DEF t, v
    <3> QED BY <2>2, <2>3, <2>10, <2>13
  <2> HIDE DEF t, v, w, m, q
  <2>15. Shifted(v, t, q)
    BY <2>11, <2>12, <2>13, <2>14, ShiftedMore
  <2> QED BY <2>15 DEF v, q
<1> QED BY <1>11, <1>12

\* Any other character is stepped over by both.
LEMMA StepsOver ==
  ASSUME dst_size \in Nat, pos \in Nat, SInv, ShiftInv, Skip
  PROVE  ShiftInv'
<1> DEFINE t == Kana
           h == Trail(dst[p])
<1>1. Reading /\ ~IsLead(dst[p]) /\ UNCHANGED <<vars, at>> /\ p' = p + Width(dst[p])
  BY DEF Skip
<1>2. p \in Nat /\ t[p + 1] = dst[p] /\ CharEnd(t, p + 1) = p + h + 1
  BY <1>1, SameCharacter
<1>3. Width(dst[p]) = h + 1 /\ h \in 0..3
  <2>1. dst[p] \in 0..255 /\ ~IsCont(dst[p])
    BY <1>1, AtCharacter
  <2> QED BY <1>1, <2>1, StepIsWidth, TrailType
<1>4. CharEnd(t, p + 1) = p'
  <2> HIDE DEF h, t
  <2> QED BY <1>1, <1>2, <1>3
<1>5. KataAt(t, p + 1) = SubSeq(t, p + 1, p')
  <2> DEFINE hira == t[p + 1] \in 224..239 /\ CodeAt(t, p + 1) \in \h3041..\h3096
  <2>1. ~hira
    BY <1>1, <1>2 DEF IsLead
  <2>2. KataAt(t, p + 1) = IF hira THEN Utf8(CodeAt(t, p + 1) + 96)
                           ELSE SubSeq(t, p + 1, CharEnd(t, p + 1))
    BY DEF KataAt
  <2> HIDE DEF hira, t
  <2> QED BY <1>4, <2>1, <2>2
<1>6. Shifted(Written, t, p')
  BY <1>1, <1>4, <1>5, KeepsCharacter
<1>7. Written' = Written /\ Kana' = Kana /\ pos' = pos /\ at' = "shift"
  BY <1>1 DEF vars, Written, Kana, Reading
<1> QED BY <1>6, <1>7 DEF ShiftInv

\* The shift only ends at the NUL.
LEMMA EndsAtNul ==
  ASSUME dst_size \in Nat, pos \in Nat, SInv, EndShift
  PROVE  p = pos
<1>1. Reading => IsLead(dst[p]) /\ ~Kana3
  BY DEF EndShift
<1>2. p \in 0..pos /\ pos < dst_size /\ p \in Nat
  BY DEF SInv
<1>3. CASE Reading
  <2>1. dst[p] \in 0..255 /\ p + Trail(dst[p]) + 1 \in 0..pos
    BY <1>3, AtCharacter
  <2>2. Trail(dst[p]) = 2
    BY <1>1, <1>3, <2>1, StepIsWidth
  <2>3. p + 2 + 1 \in 0..pos
    BY <2>1, <2>2
  <2>4. p + 2 < dst_size
    BY <1>2, <2>3
  <2> QED BY <1>1, <1>3, <2>4 DEF Kana3
<1>4. CASE ~Reading
  <2> SUFFICES ASSUME p < pos PROVE FALSE
    BY <1>2
  <2>1. p \in 0..(pos - 1) /\ p < dst_size
    BY <1>2
  <2>2. dst[p] # 0 /\ at = "shift"
    BY <2>1 DEF SInv, EndShift
  <2> QED BY <1>4, <2>1, <2>2 DEF Reading
<1> QED BY <1>3, <1>4

\* The conversion leaves what the reference begins with.
LEMMA ShiftInvBegins ==
  ASSUME CInv, RefInv, pc = "ok", p = 0, at # "done"
  PROVE  ShiftInv
<1>1. dst_size > 0 /\ src \in Seq(Char)
  BY InputAssumption DEF CInv, ConvInv, Begun, TypeOK
<1>2. Written \in Seq(Char) /\ Len(Written) = pos /\ pos \in Nat
  BY <1>1, WrittenType DEF CInv
<1>3. Kana = Written
  BY <1>1 DEF RefInv, MatchesReference, Kana
<1> DEFINE t == Kana
<1>4. t \in Seq(Char) /\ Len(t) = pos
  BY <1>2, <1>3
<1>5. Shifted(t, t, 0)
  <2> HIDE DEF t
  <2>1. KataFrom(t)[1] \in Seq(Char)
    <3>1. 1 \in 1..(Len(t) + 1)
      BY <1>2, <1>4
    <3> QED BY <1>4, <3>1, KataEquation
  <2>2. SubSeq(t, 1, 0) = <<>> /\ 0 + 1 = 1
    BY <1>4
  <2>3. SubSeq(t, 1, 0) \o KataFrom(t)[0 + 1] = KataFrom(t)[1]
    BY <2>1, <2>2
  <2> QED BY <2>3 DEF Shifted, KataOf
<1> QED BY <1>3, <1>4, <1>5 DEF ShiftInv

\* The invariant of both phases.
KataInv ==
  /\ KInv
  /\ at = "convert" => RefInv
  /\ (at # "convert" /\ pc = "ok" /\ Clean(src)) => ShiftInv

\* Every step of romaji_to_katakana keeps it.
LEMMA KataStep == KataInv /\ [KNext]_kvars => KataInv'
<1> SUFFICES ASSUME KataInv, [KNext]_kvars PROVE KataInv'
  OBVIOUS
<1>1. KInv /\ KInv'
  BY KStep DEF KataInv
<1>2. CASE Convert
  <2>1. at = "convert" /\ Next /\ UNCHANGED <<p, at>> /\ ConvInv /\ RefInv
    BY <1>1, <1>2 DEF Convert, KInv, CInv, KataInv
  <2>2. RefInv'
    BY <2>1, RefStep
  <2> QED BY <1>1, <2>1, <2>2 DEF KataInv
<1>3. CASE Converted
  <2>1. /\ at = "convert" /\ at' = (IF pc = "ok" THEN "shift" ELSE "done")
        /\ UNCHANGED <<vars, p>> /\ CInv /\ RefInv /\ p = 0
    BY <1>1, <1>3 DEF Converted, KInv, KataInv
  <2>2. ASSUME pc = "ok" PROVE ShiftInv'
    <3>1. ShiftInv
      BY <2>1, <2>2, ShiftInvBegins
    <3>2. Kana' = Kana /\ Written' = Written /\ pos' = pos /\ p' = p /\ at' = "shift"
      BY <2>1, <2>2 DEF vars, Kana, Written
    <3> QED BY <3>1, <3>2 DEF ShiftInv
  <2>3. at' # "convert" /\ pc' = pc
    BY <2>1 DEF vars
  <2> QED BY <1>1, <2>2, <2>3 DEF KataInv
<1>4. ASSUME Shift \/ Skip \/ EndShift PROVE KataInv'
  <2>1. at = "shift" /\ at' # "convert" /\ UNCHANGED <<src, dst_size, pos, pc>>
    BY <1>4 DEF Shift, Skip, EndShift, Reading, vars
  <2> SUFFICES ASSUME pc = "ok", Clean(src) PROVE ShiftInv'
    BY <1>1, <2>1 DEF KataInv
  <2>2. dst_size \in Nat /\ pos \in Nat /\ SInv /\ ShiftInv
    BY <1>1, <2>1 DEF KInv, KataInv
  <2>3. CASE Shift
    BY <2>2, <2>3, ShiftsCharacter
  <2>4. CASE Skip
    BY <2>2, <2>4, StepsOver
  <2>5. CASE EndShift
    <3>1. p = pos /\ UNCHANGED <<vars, p>>
      BY <2>2, <2>5, EndsAtNul DEF EndShift
    <3> QED BY <2>2, <3>1 DEF ShiftInv, vars, Kana, Written
  <2> QED BY <1>4, <2>3, <2>4, <2>5
<1>5. CASE UNCHANGED kvars
  BY <1>1, <1>5 DEF kvars, vars, KataInv, RefInv, MatchesReference, ShiftInv, Kana, Written, Clean
<1> QED BY <1>2, <1>3, <1>4, <1>5 DEF KNext, hira_to_kata

\* romaji_to_katakana of romaji.rs leaves the string that the one of romaji.c
\* leaves, for every table, every clean input and every size of the buffer.
THEOREM KatakanaSameAsC == KSpec => []SameAsC
<1>1. KInit => KataInv
  BY CStart DEF KInit, KInv, KataInv, Init, RefInv, MatchesReference
<1>2. KataInv => SameAsC
  <2> SUFFICES ASSUME KataInv, at = "done", pc = "ok", Clean(src)
               PROVE  Written = KataOf(Kana)
    BY DEF SameAsC, Kana
  <2>1. dst_size \in Nat /\ pos \in Nat /\ SInv /\ ShiftInv
    BY DEF KataInv, KInv
  <2>2. Written \in Seq(Char) /\ Len(Written) = pos
    BY <2>1, StringType
  <2> DEFINE t == Kana
             w == Written
  <2>3. t \in Seq(Char) /\ Len(t) = pos /\ SubSeq(w, 1, pos) \o KataFrom(t)[pos + 1] = KataOf(t)
    BY <2>1 DEF ShiftInv, Shifted
  <2>4. KataFrom(t)[pos + 1] = <<>>
    BY <2>3, KataEquation
  <2>5. SubSeq(w, 1, pos) \o <<>> = w
    BY <2>1, <2>2
  <2> HIDE DEF t, w
  <2>6. w = KataOf(t)
    BY <2>3, <2>4, <2>5
  <2> QED BY <2>6 DEF t, w
<1> QED BY <1>1, <1>2, KataStep, PTL DEF KSpec
=============================================================================
