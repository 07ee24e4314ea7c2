----------------------------- MODULE MCKatakana -----------------------------
(* The converters on words: one and two syllables of the table, every       *)
(* doubled consonant, text that is kana already, and text of mixed widths,  *)
(* whole and cut.                                                           *)
EXTENDS Katakana

VowelOrY == {97, 105, 117, 101, 111, 121}
EntriesFor(key) == {e \in ROMAJI_TABLE : e[1] = key}

OneSyllable == {e[1] : e \in ROMAJI_TABLE}
TwoSyllables == {e[1] \o f[1] : e \in ROMAJI_TABLE, f \in ROMAJI_TABLE}
Geminates == {<<e[1][1]>> \o e[1] : e \in ROMAJI_TABLE}
KanaCharacters == {Utf8(cp) : cp \in \h3041..\h3096 \cup \h30A1..\h30F6}

\* One, two, three and four bytes, a kana, and two beginnings of a kana.
Pieces == {<<33>>, <<195, 169>>, Utf8(\h6728), <<240, 159, 152, 132>>, Utf8(\h308F),
           <<227>>, <<227, 130>>}
Mixed == Pieces \cup {x \o y : x \in Pieces, y \in Pieces}

\* Kanji up to the end of a buffer of 16 bytes: with the beginning of another
\* one behind, with a whole one that does not fit.
Ki == Utf8(\h6728)
Full == {Ki \o Ki \o Ki \o Ki \o x : x \in {<<33, 33, 227>>, <<33>> \o Ki}}

Words == Full \cup OneSyllable \cup TwoSyllables \cup Geminates \cup KanaCharacters \cup Mixed

\* Two syllables that the library's documentation writes otherwise than one by
\* one: konnichiwa with the particle ha, koohii with the marks of long vowels
\* (Dictionary_Resources/README.md:49-50).  The table has neither.
SpeltOtherwise(first, second) ==
  \/ second = <<119, 97>>
  \/ Len(second) = 1 /\ second[1] \in VowelOrY /\ first[Len(first)] = second[1]

\* The greedy longest match of to_kana never takes a byte of one syllable for
\* another: any two keys of its table, written one after the other, come out as
\* the hiragana the table has for each.  Only the n before a vowel or y is
\* ambiguous in romaji itself.  A doubled consonant, which n and the vowels are
\* not, is a small tsu and the syllable.
SyllablesSurvive ==
  (pc = "ok" /\ at = "convert") =>
    /\ \A cut \in 1..(Len(src) - 1) :
         \A e \in EntriesFor(SubSeq(src, 1, cut)),
            f \in EntriesFor(SubSeq(src, cut + 1, Len(src))) :
           \/ e[1] = <<110>> /\ f[1][1] \in VowelOrY
           \/ SpeltOtherwise(e[1], f[1])
           \/ Written = e[2] \o f[2]
    /\ \A f \in EntriesFor(Tail(src)) :
         (src[1] = src[2] /\ src[1] \notin {97, 105, 117, 101, 111, 110})
           => Written = SmallTsu \o f[2]

\* "already kana or mixed input passes through unchanged" (romaji.h:4-5).
KanaPassesThrough == (pc = "ok" /\ at = "convert" /\ src \in KanaCharacters) => Written = src
=============================================================================
