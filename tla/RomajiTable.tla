---------------------------- MODULE RomajiTable ----------------------------
(***************************************************************************)
(* TABLE of romaji.rs (ROMAJI_TABLE of romaji.c): lower-case romaji keys,  *)
(* as byte strings, to the hiragana they stand for, in UTF-8.  The table   *)
(* is written by rows of the syllabary; the entries that a regular row     *)
(* would have and the source lacks (syo, tyo, zyo) are lacking here too.   *)
(***************************************************************************)
EXTENDS Naturals, Sequences

\* The three-byte UTF-8 encoding that every kana code point has.
Utf8(cp) == <<224 + (cp \div 4096), 128 + ((cp \div 64) % 64), 128 + (cp % 64)>>

Vowels == <<97, 105, 117, 101, 111>>    \* a i u e o

\* Rows with all five vowels: onset, and the code points of its five kana.
FullRow ==
  { <<<< >>,    <<\h3042, \h3044, \h3046, \h3048, \h304A>> >>,
    <<<<107>>,  <<\h304B, \h304D, \h304F, \h3051, \h3053>> >>,    \* k
    <<<<103>>,  <<\h304C, \h304E, \h3050, \h3052, \h3054>> >>,    \* g
    <<<<115>>,  <<\h3055, \h3057, \h3059, \h305B, \h305D>> >>,    \* s
    <<<<122>>,  <<\h3056, \h3058, \h305A, \h305C, \h305E>> >>,    \* z
    <<<<116>>,  <<\h305F, \h3061, \h3064, \h3066, \h3068>> >>,    \* t
    <<<<100>>,  <<\h3060, \h3062, \h3065, \h3067, \h3069>> >>,    \* d
    <<<<110>>,  <<\h306A, \h306B, \h306C, \h306D, \h306E>> >>,    \* n
    <<<<104>>,  <<\h306F, \h3072, \h3075, \h3078, \h307B>> >>,    \* h
    <<<<98>>,   <<\h3070, \h3073, \h3076, \h3079, \h307C>> >>,    \* b
    <<<<112>>,  <<\h3071, \h3074, \h3077, \h307A, \h307D>> >>,    \* p
    <<<<109>>,  <<\h307E, \h307F, \h3080, \h3081, \h3082>> >>,    \* m
    <<<<114>>,  <<\h3089, \h308A, \h308B, \h308C, \h308D>> >> }   \* r

\* Syllables outside those rows.
Single ==
  { <<<<121, 97>>, \h3084>>, <<<<121, 117>>, \h3086>>,            \* ya yu
    <<<<121, 111>>, \h3088>>, <<<<119, 97>>, \h308F>>,            \* yo wa
    <<<<119, 111>>, \h3092>>, <<<<110>>, \h3093>>,                \* wo n
    <<<<115, 104, 105>>, \h3057>>, <<<<99, 104, 105>>, \h3061>>,  \* shi chi
    <<<<116, 115, 117>>, \h3064>>, <<<<102, 117>>, \h3075>>,      \* tsu fu
    <<<<106, 105>>, \h3058>> }                                    \* ji

\* Digraphs: onset, the full-size kana, and the vowels the source lists.
a_u_o == {97, 117, 111}
Digraph ==
  { <<<<107, 121>>, \h304D, a_u_o>>, <<<<115, 104>>, \h3057, a_u_o>>,       \* ky sh
    <<<<115, 121>>, \h3057, a_u_o \ {111}>>,                                \* sy
    <<<<99, 104>>, \h3061, a_u_o>>,                                         \* ch
    <<<<116, 121>>, \h3061, a_u_o \ {111}>>,                                \* ty
    <<<<110, 121>>, \h306B, a_u_o>>, <<<<104, 121>>, \h3072, a_u_o>>,       \* ny hy
    <<<<109, 121>>, \h307F, a_u_o>>, <<<<114, 121>>, \h308A, a_u_o>>,       \* my ry
    <<<<103, 121>>, \h304E, a_u_o>>,                                        \* gy
    <<<<106>>, \h3058, a_u_o>>, <<<<106, 121>>, \h3058, a_u_o>>,            \* j jy
    <<<<122, 121>>, \h3058, a_u_o \ {111}>>,                                \* zy
    <<<<98, 121>>, \h3073, a_u_o>>, <<<<112, 121>>, \h3074, a_u_o>> }       \* by py

\* The small ya, yu, yo that a digraph ends in.
SmallY(v) == CASE v = 97 -> \h3083 [] v = 117 -> \h3085 [] v = 111 -> \h3087

\* The array, as the set of its <<romaji, kana>> entries.
ROMAJI_TABLE ==
  { <<r[1] \o <<Vowels[x]>>, Utf8(r[2][x])>> : r \in FullRow, x \in 1..5 }
  \cup { <<s[1], Utf8(s[2])>> : s \in Single }
  \cup UNION { { <<g[1] \o <<v>>, Utf8(g[2]) \o Utf8(SmallY(v))>> : v \in g[3] }
               : g \in Digraph }
=============================================================================
