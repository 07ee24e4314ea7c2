------------------------------- MODULE Lemmas -------------------------------
(***************************************************************************)
(* Facts that the proofs of several modules need.                          *)
(*                                                                         *)
(* Induction over the natural numbers, in the form the provers can use: a  *)
(* set of numbers that is not empty has a least element, and a bounded one *)
(* has a greatest.  A claim is proved for every number by taking the least *)
(* one of the counterexamples.                                             *)
(*                                                                         *)
(* Text: which cuts of whole characters are whole.  Tags: where they end,  *)
(* and what a text is without them.                                        *)
(***************************************************************************)
EXTENDS Characters, SanitizeRef, WellFoundedInduction, TLAPS

-----------------------------------------------------------------------------
(* Induction. *)

\* The pairs of the library's relation < on Nat are the ones one expects.
LEMMA Below ==
  ASSUME NEW x \in Nat, NEW y \in Nat, y < x
  PROVE  <<y, x>> \in OpToRel(<, Nat)
  BY Zenon DEF OpToRel

\* A set of naturals that is not empty has a least element.
LEMMA Least ==
  ASSUME NEW T \in SUBSET Nat, T # {}
  PROVE  \E x \in T : \A y \in T : x <= y
<1>1. PICK x \in T : \A y \in T : ~(<<y, x>> \in OpToRel(<, Nat))
  BY NatLessThanWellFounded, WFMin
<1>2. \A y \in T : ~(y < x)
  BY <1>1, Below
<1> QED BY <1>2

\* A bounded set of naturals that is not empty has a greatest element.
LEMMA Greatest ==
  ASSUME NEW b \in Nat, NEW T \in SUBSET (0..b), T # {}
  PROVE  \E x \in T : \A y \in T : y <= x
<1> DEFINE U == {m \in Nat : \A y \in T : y <= m}
<1>1. b \in U
  OBVIOUS
<1>2. PICK x \in U : \A y \in U : x <= y
  BY <1>1, Least
<1>3. x \in T
  <2> SUFFICES ASSUME x \notin T PROVE FALSE
    OBVIOUS
  <2>1. \A y \in T : y < x
    BY <1>2
  <2>2. PICK z \in T : z < x
    BY <2>1
  <2>3. x - 1 \in Nat
    BY <2>2
  <2>4. x - 1 \in U
    BY <2>1, <2>3
  <2> QED BY <2>3, <2>4, <1>2
<1> QED BY <1>2, <1>3

\* Recursion from the end of a sequence of n elements: nxt[k] is a position
\* behind k, and step[k] says how the value at k is made from the one there.
Ahead(n, nxt) == \A k \in 1..n : nxt[k] \in (k + 1)..(n + 1)
Steps(n, V, step) == \A k \in 1..n : step[k] \in [V -> V]
Recursion(f, n, base, nxt, step) ==
  f[n + 1] = base /\ \A k \in 1..n : f[k] = step[k][f[nxt[k]]]

\* It defines a function.
LEMMA Backwards ==
  ASSUME NEW n \in Nat, NEW V, NEW base \in V, NEW nxt, NEW step,
         Ahead(n, nxt), Steps(n, V, step)
  PROVE  \E f \in [1..(n + 1) -> V] : Recursion(f, n, base, nxt, step)
<1> DEFINE P(m, f) == /\ f \in [m..(n + 1) -> V] /\ f[n + 1] = base
                      /\ \A k \in m..n : f[k] = step[k][f[nxt[k]]]
           T == {x \in Nat : x <= n /\ ~ \E f : P(n + 1 - x, f)}
<1>1. T = {}
  <2> SUFFICES ASSUME T # {} PROVE FALSE
    OBVIOUS
  <2>0. T \in SUBSET Nat
    OBVIOUS
  <2>1. PICK x \in T : \A y \in T : x <= y
    <3> HIDE DEF T
    <3> QED BY Least, <2>0
  <2>2. x \in Nat /\ x <= n /\ ~ \E f : P(n + 1 - x, f)
    OBVIOUS
  <2>3. CASE x = 0
    <3> DEFINE f == [k \in (n + 1)..(n + 1) |-> base]
    <3>1. f \in [(n + 1)..(n + 1) -> V] /\ f[n + 1] = base /\ (n + 1)..n = {}
      OBVIOUS
    <3>2. n + 1 - x = n + 1
      BY <2>3
    <3>3. P(n + 1, f)
      BY <3>1
    <3> HIDE DEF P, f
    <3> QED BY <2>2, <3>2, <3>3
  <2>4. CASE x # 0
    <3> DEFINE m == n + 1 - x
    <3>1. x - 1 \in Nat /\ x - 1 <= n /\ x - 1 \notin T /\ n + 1 - (x - 1) = m + 1
      <4> HIDE DEF T
      <4> QED BY <2>1, <2>2, <2>4
    <3>2. \E g : P(m + 1, g)
      <4> HIDE DEF P, m
      <4>1. \E g : P(n + 1 - (x - 1), g)
        BY <3>1
      <4> QED BY <4>1, <3>1
    <3>3. PICK g : P(m + 1, g)
      BY <3>2
    <3>4. m \in 1..n
      BY <2>2, <2>4
    <3> HIDE DEF m
    <3>5. nxt[m] \in (m + 1)..(n + 1) /\ step[m] \in [V -> V]
      BY <3>4 DEF Ahead, Steps
    <3> DEFINE v == step[m][g[nxt[m]]]
               f == [k \in m..(n + 1) |-> IF k = m THEN v ELSE g[k]]
    <3>6. v \in V
      BY <3>3, <3>5
    <3>7. \A k \in (m + 1)..(n + 1) : k # m /\ k \in m..(n + 1) /\ f[k] = g[k]
      BY <3>4
    <3>8. f \in [m..(n + 1) -> V] /\ f[m] = v
      BY <3>3, <3>4, <3>6
    <3> HIDE DEF f
    <3>9. f[n + 1] = base
      BY <3>3, <3>4, <3>7
    <3>10. ASSUME NEW k \in m..n PROVE f[k] = step[k][f[nxt[k]]]
      <4>1. CASE k = m
        BY <3>5, <3>7, <3>8, <4>1
      <4>2. CASE k # m
        <5>1. k \in (m + 1)..n /\ k \in 1..n /\ k \in (m + 1)..(n + 1)
          BY <4>2, <3>4
        <5>2. nxt[k] \in (m + 1)..(n + 1)
          <6>1. nxt[k] \in (k + 1)..(n + 1)
            BY <5>1 DEF Ahead
          <6> DEFINE j == nxt[k]
          <6>2. j \in (k + 1)..(n + 1)
            BY <6>1
          <6> HIDE DEF j
          <6>3. j \in (m + 1)..(n + 1)
            BY <5>1, <6>2, <3>4
          <6> QED BY <6>3 DEF j
        <5>3. g[k] = step[k][g[nxt[k]]]
          BY <3>3, <5>1
        <5> QED BY <3>7, <5>1, <5>2, <5>3
      <4> QED BY <4>1, <4>2
    <3>11. P(m, f)
      BY <3>8, <3>9, <3>10
    <3> HIDE DEF P
    <3> QED BY <2>2, <3>11 DEF m
  <2> QED BY <2>3, <2>4
<1>2. \E f : P(n + 1 - n, f)
  <2>1. n \in Nat /\ n <= n
    OBVIOUS
  <2> HIDE DEF P
  <2> QED BY <1>1, <2>1
<1>3. n + 1 - n = 1
  OBVIOUS
<1>4. \E f : P(1, f)
  <2> HIDE DEF P
  <2> QED BY <1>2, <1>3
<1> QED BY <1>4 DEF Recursion

\* f and g are made by the same recursion.
Alike(f, g, n, nxt) ==
  f[n + 1] = g[n + 1] /\ \A k \in 1..n : f[nxt[k]] = g[nxt[k]] => f[k] = g[k]

\* Then they are the same.
LEMMA SameBackwards ==
  ASSUME NEW n \in Nat, NEW f, NEW g, NEW nxt, Ahead(n, nxt), Alike(f, g, n, nxt)
  PROVE  \A k \in 1..(n + 1) : f[k] = g[k]
<1> DEFINE T == {k \in 0..n : k > 0 /\ f[k] # g[k]}
<1>1. T = {}
  <2> SUFFICES ASSUME T # {} PROVE FALSE
    OBVIOUS
  <2>1. T \in SUBSET (0..n)
    OBVIOUS
  <2>2. PICK k \in T : \A y \in T : y <= k
    <3> HIDE DEF T
    <3> QED BY <2>1, Greatest
  <2>3. k \in 1..n /\ f[k] # g[k]
    BY <2>2
  <2> DEFINE j == nxt[k]
  <2>4. j \in (k + 1)..(n + 1) /\ f[j] # g[j]
    BY <2>3 DEF Ahead, Alike
  <2> HIDE DEF j
  <2>5. j \in 0..n /\ j > 0 /\ ~(j <= k)
    <3>1. j # n + 1
      BY <2>4 DEF Alike
    <3> QED BY <3>1, <2>3, <2>4
  <2>6. j \in T
    BY <2>4, <2>5
  <2> HIDE DEF T
  <2> QED BY <2>2, <2>5, <2>6
<1>2. ASSUME NEW k \in 1..(n + 1) PROVE f[k] = g[k]
  <2>1. CASE k = n + 1
    BY <2>1 DEF Alike
  <2>2. CASE k # n + 1
    <3>1. k \in 0..n /\ k > 0
      BY <2>2
    <3> QED BY <3>1, <1>1
  <2> QED BY <2>1, <2>2
<1> QED BY <1>2

-----------------------------------------------------------------------------
(* Text. *)

\* Sequences put together.
LEMMA ConcatType ==
  ASSUME NEW S, NEW s \in Seq(S), NEW t \in Seq(S)
  PROVE  s \o t \in Seq(S) /\ Len(s \o t) = Len(s) + Len(t)
  OBVIOUS

\* The end of a sequence.
LEMMA SuffixType ==
  ASSUME NEW S, NEW s \in Seq(S), NEW m \in 0..Len(s)
  PROVE  /\ SubSeq(s, m + 1, Len(s)) \in Seq(S)
         /\ Len(SubSeq(s, m + 1, Len(s))) = Len(s) - m
         /\ \A k \in 1..(Len(s) - m) : SubSeq(s, m + 1, Len(s))[k] = s[m + k]
<1>1. Len(s) \in Nat /\ m \in Nat /\ m <= Len(s)
  OBVIOUS
<1> QED BY <1>1

\* Sequences are equal if their elements are.
LEMMA SameSequence ==
  ASSUME NEW S, NEW s \in Seq(S), NEW t \in Seq(S), Len(s) = Len(t),
         \A k \in 1..Len(s) : s[k] = t[k]
  PROVE  s = t
  OBVIOUS

\* A text and the one that begins one place later.
LEMMA FromHere ==
  ASSUME NEW S, NEW s \in Seq(S), NEW k \in 1..Len(s)
  PROVE  SubSeq(s, k, Len(s)) = <<s[k]>> \o SubSeq(s, k + 1, Len(s))
<1> DEFINE n == Len(s)
           a == SubSeq(s, k, n)
           b == SubSeq(s, k + 1, n)
           c == <<s[k]>> \o b
<1>1. n \in Nat /\ k \in Nat /\ k <= n /\ k \in 1..n /\ s[k] \in S
  OBVIOUS
<1>2. a \in Seq(S) /\ Len(a) = n - k + 1 /\ \A x \in 1..(n - k + 1) : a[x] = s[k + x - 1]
  BY <1>1
<1>3. b \in Seq(S) /\ Len(b) = n - k /\ \A x \in 1..(n - k) : b[x] = s[k + x]
  BY <1>1
<1> HIDE DEF a, b
<1>4. /\ c \in Seq(S) /\ Len(c) = n - k + 1 /\ c[1] = s[k]
      /\ \A x \in 2..(n - k + 1) : c[x] = b[x - 1]
  <2> DEFINE h == s[k]
             m == n - k
  <2>1. h \in S /\ m \in Nat /\ Len(b) = m /\ b \in Seq(S) /\ n - k + 1 = m + 1
    BY <1>1, <1>3
  <2> HIDE DEF h, m, n
  <2>2. /\ <<h>> \o b \in Seq(S) /\ Len(<<h>> \o b) = m + 1 /\ (<<h>> \o b)[1] = h
        /\ \A x \in 2..(m + 1) : (<<h>> \o b)[x] = b[x - 1]
    BY <2>1
  <2> QED BY <2>1, <2>2 DEF h
<1> HIDE DEF c
<1>5. ASSUME NEW x \in 1..(n - k + 1) PROVE a[x] = c[x]
  <2>1. CASE x = 1
    <3>1. k + x - 1 = k
      BY <2>1, <1>1
    <3> QED BY <2>1, <3>1, <1>2, <1>4
  <2>2. CASE x # 1
    <3>1. x \in 2..(n - k + 1) /\ x - 1 \in 1..(n - k) /\ k + (x - 1) = k + x - 1
      BY <2>2, <1>1
    <3>2. b[x - 1] = s[k + (x - 1)]
      BY <3>1, <1>3
    <3> QED BY <3>1, <3>2, <1>2, <1>4
  <2> QED BY <2>1, <2>2
<1>6. a = c
  BY <1>2, <1>4, <1>5, SameSequence
<1> QED BY <1>6 DEF a, b, c

\* At most three bytes follow the first byte of a character.
LEMMA ContinuingType == \A b : Continuing(b) \in 0..3
  BY DEF Continuing

\* Whole characters put together are whole characters.
LEMMA WholeConcat ==
  ASSUME NEW S, NEW s \in Seq(S), NEW t \in Seq(S), Whole(s), Whole(t)
  PROVE  Whole(s \o t)
<1> DEFINE u == s \o t
<1>1. Len(u) = Len(s) + Len(t) /\ Len(s) \in Nat /\ Len(t) \in Nat
  OBVIOUS
<1>2. \A k \in 1..Len(s) : u[k] = s[k]
  OBVIOUS
<1>3. \A k \in (Len(s) + 1)..Len(u) : u[k] = t[k - Len(s)]
  OBVIOUS
<1> SUFFICES Whole(u)
  OBVIOUS
<1> HIDE DEF u
<1> SUFFICES ASSUME NEW k \in 1..Len(u), NEW j \in 1..Continuing(u[k])
             PROVE  k + j <= Len(u) /\ u[k + j] \in 128..191
  BY <1>1 DEF Whole, WholeAt
<1>0. j \in 1..3
  BY ContinuingType
<1>4. CASE k <= Len(s)
  <2>1. u[k] = s[k]
    BY <1>4, <1>2
  <2>2. k + j <= Len(s) /\ s[k + j] \in 128..191
    BY <1>4, <2>1 DEF Whole, WholeAt
  <2>3. k + j \in 1..Len(s)
    BY <2>2, <1>0, <1>1
  <2>4. u[k + j] = s[k + j]
    BY <2>3, <1>2
  <2>5. k + j <= Len(u)
    BY <2>3, <1>0, <1>1
  <2> QED BY <2>2, <2>4, <2>5
<1>5. CASE k > Len(s)
  <2> DEFINE h == k - Len(s)
  <2>1. h \in 1..Len(t) /\ u[k] = t[h]
    BY <1>5, <1>1, <1>3
  <2>2. (k + j) - Len(s) = h + j
    BY <1>0, <1>1
  <2>3. h + j <= Len(t) => k + j \in (Len(s) + 1)..Len(u)
    BY <1>0, <1>1, <1>5
  <2> HIDE DEF h
  <2>4. h + j <= Len(t) /\ t[h + j] \in 128..191
    BY <2>1 DEF Whole, WholeAt
  <2>5. u[k + j] = t[h + j]
    BY <2>2, <2>3, <2>4, <1>3
  <2> QED BY <2>3, <2>4, <2>5
<1> QED BY <1>4, <1>5, <1>1

\* The end of whole text is whole.
LEMMA WholeSuffix ==
  ASSUME NEW S, NEW u \in Seq(S), NEW m \in 0..Len(u), Whole(u)
  PROVE  Whole(SubSeq(u, m + 1, Len(u)))
<1> DEFINE v == SubSeq(u, m + 1, Len(u))
<1>1. Len(u) \in Nat /\ m \in Nat /\ Len(v) = Len(u) - m
  OBVIOUS
<1>2. \A k \in 1..Len(v) : v[k] = u[k + m]
  OBVIOUS
<1> SUFFICES Whole(v)
  OBVIOUS
<1> HIDE DEF v
<1> SUFFICES ASSUME NEW k \in 1..Len(v), NEW j \in 1..Continuing(v[k])
             PROVE  k + j <= Len(v) /\ v[k + j] \in 128..191
  BY DEF Whole, WholeAt
<1>0. j \in 1..3
  BY ContinuingType
<1> DEFINE h == k + m
<1>3. h \in 1..Len(u) /\ v[k] = u[h]
  BY <1>1, <1>2
<1>4. (k + j) + m = h + j
  BY <1>0, <1>1
<1>5. h + j <= Len(u) => k + j \in 1..Len(v)
  BY <1>0, <1>1
<1> HIDE DEF h
<1>6. h + j <= Len(u) /\ u[h + j] \in 128..191
  BY <1>3 DEF Whole, WholeAt
<1>7. v[k + j] = u[h + j]
  BY <1>4, <1>5, <1>6, <1>2
<1> QED BY <1>5, <1>6, <1>7

\* A cut in front of an ASCII character is whole.
LEMMA WholeCut ==
  ASSUME NEW S, NEW u \in Seq(S), NEW m \in Nat, m < Len(u), u[m + 1] \in 0..127, Whole(u)
  PROVE  Whole(SubSeq(u, 1, m))
<1> DEFINE v == SubSeq(u, 1, m)
<1>1. Len(u) \in Nat /\ Len(v) = m
  OBVIOUS
<1>2. \A k \in 1..m : v[k] = u[k]
  OBVIOUS
<1> SUFFICES Whole(v)
  OBVIOUS
<1> HIDE DEF v
<1> SUFFICES ASSUME NEW k \in 1..m, NEW j \in 1..Continuing(v[k])
             PROVE  k + j <= m /\ v[k + j] \in 128..191
  BY <1>1 DEF Whole, WholeAt
<1>0. j \in 1..Continuing(u[k]) /\ k \in 1..Len(u) /\ j \in 1..3
  BY <1>1, <1>2, ContinuingType
<1>3. \A i \in 1..Continuing(u[k]) : k + i <= Len(u) /\ u[k + i] \in 128..191
  BY <1>0 DEF Whole, WholeAt
<1> DEFINE i == m + 1 - k
<1>4. ~(k + j <= m) => i \in 1..Continuing(u[k]) /\ k + i = m + 1
  BY <1>0, ContinuingType
<1> HIDE DEF i
<1> DEFINE x == u[m + 1]
<1>5. x \in 0..127
  OBVIOUS
<1> HIDE DEF x
<1>6. x \notin 128..191
  BY <1>5
<1>7. k + j <= m
  BY <1>3, <1>4, <1>6 DEF x
<1>8. v[k + j] = u[k + j]
  BY <1>0, <1>2, <1>7
<1> QED BY <1>0, <1>3, <1>7, <1>8

-----------------------------------------------------------------------------
(* The reference of copy_field_sanitize: tags. *)

\* Without '[', or without a ']' ahead, no tag begins at k.
LEMMA NoTagHere ==
  ASSUME NEW s, NEW k \in Nat, s[k] # 91 \/ \A e \in k..Len(s) : s[e] # 93
  PROVE  TagEnd(s, k) = k - 1
<1> DEFINE ends == {e \in k..Len(s) : s[e] = 93}
<1>1. s[k] # 91 \/ ends = {}
  OBVIOUS
<1> QED BY <1>1 DEF TagEnd

\* A tag ends with the blanks behind its first ']'.
LEMMA TagHere ==
  ASSUME NEW S, NEW s \in Seq(S), NEW k \in 1..Len(s), s[k] = 91,
         NEW e \in k..Len(s), s[e] = 93, \A x \in k..Len(s) : s[x] = 93 => e <= x,
         NEW q \in e..Len(s), \A x \in (e + 1)..q : IsBlank(s[x]),
         q = Len(s) \/ ~IsBlank(s[q + 1])
  PROVE  TagEnd(s, k) = q
<1> DEFINE ends == {x \in k..Len(s) : s[x] = 93}
           first == CHOOSE x \in ends : \A other \in ends : x <= other
           Ends(x) == /\ \A y \in (first + 1)..x : IsBlank(s[y])
                      /\ x = Len(s) \/ ~IsBlank(s[x + 1])
<1>0. Len(s) \in Nat /\ k \in Nat /\ e \in Nat /\ q \in Nat
  OBVIOUS
<1>1. e \in ends /\ \A other \in ends : e <= other
  OBVIOUS
<1>2. first \in ends /\ \A other \in ends : first <= other
  <2> HIDE DEF ends
  <2> QED BY <1>1
<1>3. first = e
  <2>1. ends \in SUBSET Nat
    BY <1>0
  <2> HIDE DEF ends, first
  <2>2. first <= e /\ e <= first /\ first \in Nat
    BY <1>1, <1>2, <2>1
  <2> QED BY <2>2, <1>0
<1> HIDE DEF first
<1>4. q \in first..Len(s) /\ Ends(q)
  BY <1>3
<1>5. \A x \in first..Len(s) : Ends(x) => x = q
  <2> SUFFICES ASSUME NEW x \in first..Len(s), Ends(x) PROVE x = q
    OBVIOUS
  <2>0. x \in Nat /\ x >= e /\ q >= e /\ x <= Len(s) /\ q <= Len(s)
    BY <1>0, <1>3
  <2>1. CASE x < q
    <3>1. x + 1 \in (e + 1)..q /\ x # Len(s)
      BY <2>0, <2>1, <1>0
    <3> QED BY <3>1
  <2>2. CASE q < x
    <3>1. q + 1 \in (first + 1)..x /\ q # Len(s)
      BY <2>0, <2>2, <1>0, <1>3
    <3> QED BY <3>1
  <2> QED BY <2>0, <2>1, <2>2, <1>0
<1> HIDE DEF Ends
<1>6. (CHOOSE x \in first..Len(s) : Ends(x)) = q
  BY <1>4, <1>5
<1>7. ends # {}
  BY <1>1
<1> QED BY <1>6, <1>7 DEF TagEnd, Ends, first

\* From k on s has its first ']' at e, and the blanks behind it last until q.
IsTag(s, k, e, q) ==
  /\ e \in k..Len(s) /\ q \in e..Len(s) /\ s[e] = 93
  /\ \A x \in k..Len(s) : s[x] = 93 => e <= x
  /\ \A x \in (e + 1)..q : IsBlank(s[x])
  /\ q = Len(s) \/ ~IsBlank(s[q + 1])

\* A tag that begins at k ends there.
LEMMA TagIs ==
  ASSUME NEW S, NEW s \in Seq(S), NEW k \in 1..Len(s), s[k] = 91, NEW e, NEW q, IsTag(s, k, e, q)
  PROVE  TagEnd(s, k) = q
BY TagHere DEF IsTag

\* Where a ']' is ahead, there is such an end.
LEMMA TagShape ==
  ASSUME NEW S, NEW s \in Seq(S), NEW k \in 1..Len(s), \E e \in k..Len(s) : s[e] = 93
  PROVE  \E e, q \in Nat : IsTag(s, k, e, q)
<1> DEFINE ends == {e \in k..Len(s) : s[e] = 93}
<1>0. Len(s) \in Nat /\ k \in Nat
  OBVIOUS
<1>1. ends \in SUBSET Nat /\ ends # {}
  BY <1>0
<1>2. PICK e \in ends : \A x \in ends : e <= x
  <2> HIDE DEF ends
  <2> QED BY <1>1, Least
<1>3. e \in k..Len(s) /\ s[e] = 93 /\ \A x \in k..Len(s) : s[x] = 93 => e <= x
  BY <1>2
<1> DEFINE Q == {x \in e..Len(s) : \A y \in (e + 1)..x : IsBlank(s[y])}
<1>4. e \in Q /\ Q \in SUBSET (0..Len(s))
  BY <1>0, <1>3
<1>5. PICK q \in Q : \A x \in Q : x <= q
  <2> HIDE DEF Q
  <2> QED BY <1>0, <1>4, Greatest
<1>6. q \in e..Len(s) /\ \A y \in (e + 1)..q : IsBlank(s[y])
  BY <1>5
<1>7. q = Len(s) \/ ~IsBlank(s[q + 1])
  <2> SUFFICES ASSUME q # Len(s), IsBlank(s[q + 1]) PROVE FALSE
    OBVIOUS
  <2>1. q + 1 \in e..Len(s) /\ \A y \in (e + 1)..(q + 1) : y \in (e + 1)..q \/ y = q + 1
    BY <1>0, <1>3, <1>6
  <2>2. q + 1 \in Q
    BY <2>1, <1>6
  <2>3. q \in Nat
    BY <1>0, <1>3, <1>6
  <2> HIDE DEF Q
  <2>4. q + 1 <= q
    BY <1>5, <2>2
  <2> QED BY <2>3, <2>4
<1>8. e \in Nat /\ q \in Nat
  BY <1>0, <1>3, <1>6
<1>9. IsTag(s, k, e, q)
  BY <1>3, <1>6, <1>7 DEF IsTag
<1> QED BY <1>8, <1>9

\* Either way TagEnd is a position of s from k - 1 on.
LEMMA TagEndType ==
  ASSUME NEW S, NEW s \in Seq(S), NEW k \in 1..Len(s)
  PROVE  TagEnd(s, k) \in (k - 1)..Len(s)
<1>0. Len(s) \in Nat /\ k \in Nat
  OBVIOUS
<1>1. CASE s[k] # 91 \/ \A e \in k..Len(s) : s[e] # 93
  <2>1. TagEnd(s, k) = k - 1
    BY <1>0, <1>1, NoTagHere
  <2> QED BY <2>1, <1>0
<1>2. CASE s[k] = 91 /\ \E e \in k..Len(s) : s[e] = 93
  <2>1. PICK e, q \in Nat : IsTag(s, k, e, q)
    BY <1>2, TagShape
  <2>2. TagEnd(s, k) = q
    BY <1>2, <2>1, TagIs
  <2> QED BY <1>0, <2>1, <2>2 DEF IsTag
<1> QED BY <1>1, <1>2

\* The recursion of UntaggedFrom is well founded.
LEMMA UntaggedEquation ==
  ASSUME NEW S, NEW s \in Seq(S)
  PROVE  /\ UntaggedFrom(s) \in [1..(Len(s) + 1) -> Seq(S)]
         /\ UntaggedFrom(s)[Len(s) + 1] = <<>>
         /\ \A k \in 1..Len(s) :
              UntaggedFrom(s)[k] = IF TagEnd(s, k) >= k THEN UntaggedFrom(s)[TagEnd(s, k) + 1]
                                   ELSE <<s[k]>> \o UntaggedFrom(s)[k + 1]
<1> DEFINE n == Len(s)
           V == Seq(S)
           R(f) == f = [k \in 1..(n + 1) |->
                     IF k > n THEN <<>>
                     ELSE IF TagEnd(s, k) >= k THEN f[TagEnd(s, k) + 1]
                     ELSE <<s[k]>> \o f[k + 1]]
           nxt == [k \in 1..n |-> IF TagEnd(s, k) >= k THEN TagEnd(s, k) + 1 ELSE k + 1]
           step == [k \in 1..n |-> [v \in V |-> IF TagEnd(s, k) >= k THEN v ELSE <<s[k]>> \o v]]
<1>1. n \in Nat /\ <<>> \in V
  OBVIOUS
<1>2. ASSUME NEW k \in 1..n PROVE nxt[k] \in (k + 1)..(n + 1) /\ step[k] \in [V -> V]
  <2>1. TagEnd(s, k) \in (k - 1)..n
    BY TagEndType
  <2>2. s[k] \in S
    OBVIOUS
  <2>3. \A v \in V : <<s[k]>> \o v \in V
    BY <2>2
  <2> DEFINE t == TagEnd(s, k)
  <2>4. nxt[k] = IF t >= k THEN t + 1 ELSE k + 1
    OBVIOUS
  <2>5. step[k] \in [V -> V]
    BY <2>3
  <2> HIDE DEF t, nxt
  <2>6. nxt[k] \in (k + 1)..(n + 1)
    BY <1>1, <2>1, <2>4 DEF t
  <2> QED BY <2>5, <2>6
<1>3. PICK f \in [1..(n + 1) -> V] :
        f[n + 1] = <<>> /\ \A k \in 1..n : f[k] = step[k][f[nxt[k]]]
  <2>1. Ahead(n, nxt) /\ Steps(n, V, step)
    BY <1>2 DEF Ahead, Steps
  <2> DEFINE base == <<>>
  <2>2. base \in V
    BY <1>1
  <2> HIDE DEF n, V, nxt, step, base
  <2>3. \E f \in [1..(n + 1) -> V] : Recursion(f, n, base, nxt, step)
    BY <1>1, <2>1, <2>2, Backwards
  <2> QED BY <2>3 DEF base, Recursion
<1>4. ASSUME NEW k \in 1..n
      PROVE  f[k] = IF TagEnd(s, k) >= k THEN f[TagEnd(s, k) + 1] ELSE <<s[k]>> \o f[k + 1]
  <2>1. nxt[k] \in 1..(n + 1)
    <3>1. nxt[k] \in (k + 1)..(n + 1)
      BY <1>2
    <3> HIDE DEF nxt
    <3> QED BY <3>1, <1>1
  <2>2. f[nxt[k]] \in V
    BY <2>1
  <2>3. f[k] = IF TagEnd(s, k) >= k THEN f[nxt[k]] ELSE <<s[k]>> \o f[nxt[k]]
    BY <1>3, <2>2
  <2>4. nxt[k] = IF TagEnd(s, k) >= k THEN TagEnd(s, k) + 1 ELSE k + 1
    OBVIOUS
  <2> HIDE DEF nxt, step
  <2> QED BY <2>3, <2>4
<1>5. R(f)
  <2>1. f = [k \in 1..(n + 1) |-> f[k]]
    OBVIOUS
  <2>2. ASSUME NEW k \in 1..(n + 1)
        PROVE  f[k] = IF k > n THEN <<>>
                      ELSE IF TagEnd(s, k) >= k THEN f[TagEnd(s, k) + 1] ELSE <<s[k]>> \o f[k + 1]
    <3>1. CASE k = n + 1
      BY <3>1, <1>1, <1>3
    <3>2. CASE k # n + 1
      <4>1. k \in 1..n /\ ~(k > n)
        BY <3>2, <1>1
      <4> QED BY <4>1, <1>4
    <3> QED BY <3>1, <3>2
  <2> QED BY <2>1, <2>2
<1> DEFINE g == CHOOSE h : R(h)
<1>6. R(g)
  <2> HIDE DEF R
  <2> QED BY <1>5
<1>7. UntaggedFrom(s) = g
  BY DEF UntaggedFrom
<1> HIDE DEF g
<1>8. DOMAIN g = 1..(n + 1) /\ g = [k \in 1..(n + 1) |-> g[k]]
  <2>1. \E F : g = [k \in 1..(n + 1) |-> F[k]]
    <3> DEFINE F == [k \in 1..(n + 1) |->
                     IF k > n THEN <<>>
                     ELSE IF TagEnd(s, k) >= k THEN g[TagEnd(s, k) + 1]
                     ELSE <<s[k]>> \o g[k + 1]]
    <3>1. g = F
      BY <1>6
    <3>2. F = [k \in 1..(n + 1) |-> F[k]]
      OBVIOUS
    <3> QED BY <3>1, <3>2
  <2> HIDE DEF n
  <2> QED BY <2>1
<1>9. ASSUME NEW k \in 1..(n + 1)
      PROVE  g[k] = IF k > n THEN <<>>
                    ELSE IF TagEnd(s, k) >= k THEN g[TagEnd(s, k) + 1] ELSE <<s[k]>> \o g[k + 1]
  <2> DEFINE G(x) == IF x > n THEN <<>>
                     ELSE IF TagEnd(s, x) >= x THEN g[TagEnd(s, x) + 1] ELSE <<s[x]>> \o g[x + 1]
  <2>1. g = [x \in 1..(n + 1) |-> G(x)]
    BY <1>6
  <2> HIDE DEF G, n
  <2>2. g[k] = G(k)
    BY <2>1
  <2> QED BY <2>2 DEF G
<1>10. g[n + 1] = <<>>
  <2>1. n + 1 \in 1..(n + 1) /\ n + 1 > n
    BY <1>1
  <2> QED BY <2>1, <1>9
<1>11. ASSUME NEW k \in 1..n
       PROVE  g[k] = IF TagEnd(s, k) >= k THEN g[TagEnd(s, k) + 1] ELSE <<s[k]>> \o g[k + 1]
  <2>1. k \in 1..(n + 1) /\ ~(k > n)
    BY <1>1
  <2> QED BY <2>1, <1>9
<1>12. \A k \in 1..(n + 1) : f[k] = g[k]
  <2>1. Ahead(n, nxt)
    BY <1>2 DEF Ahead
  <2>2. ASSUME NEW k \in 1..n, f[nxt[k]] = g[nxt[k]] PROVE f[k] = g[k]
    <3>1. nxt[k] = IF TagEnd(s, k) >= k THEN TagEnd(s, k) + 1 ELSE k + 1
      OBVIOUS
    <3> HIDE DEF nxt
    <3> QED BY <2>2, <3>1, <1>4, <1>11
  <2>3. f[n + 1] = g[n + 1]
    BY <1>3, <1>10
  <2> HIDE DEF nxt, n
  <2>4. Alike(f, g, n, nxt)
    BY <2>2, <2>3 DEF Alike
  <2> QED BY <1>1, <2>1, <2>4, SameBackwards
<1>13. g \in [1..(n + 1) -> V]
  <2>1. \A k \in 1..(n + 1) : g[k] \in V
    <3> HIDE DEF n, V
    <3> QED BY <1>12, <1>3
  <2> HIDE DEF n, V
  <2> QED BY <2>1, <1>8
<1> QED BY <1>7, <1>10, <1>11, <1>13
=============================================================================
