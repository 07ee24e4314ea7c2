------------------------------- MODULE MCDict -------------------------------
(* Six rows over three kana and a few letters, with word[], detail[] and    *)
(* the result array scaled down so that each of their limits is met.        *)
EXTENDS Dict, SanitizeRef, KatakanaRef

A == Utf8(\h3042)       \* hiragana a
Ka == Utf8(\h304B)      \* hiragana ka
KataKa == Utf8(\h30AB)  \* katakana ka
Ki == Utf8(\h6728)      \* a kanji
NoText == <<<<>>>>

MCTable ==
  << [kanji |-> <<Ki>>,         readings |-> <<A>>,      senses |-> << <<91, 110, 93, 32, 97>> >>],
     [kanji |-> NoText,         readings |-> <<A, Ka>>,  senses |-> << <<75, 98, 99, 100, 101, 102, 103>> >>],
     [kanji |-> << <<107>> >>,  readings |-> << <<97>> >>, senses |-> << <<107>> >>],
     [kanji |-> <<Ki \o Ki \o Ki, Ki>>, readings |-> <<Ka>>,  senses |-> <<>>],
     [kanji |-> <<>>,           readings |-> << <<97>> \o Ka \o Ka \o Ka, A>>, senses |-> << <<97>> >>],
     [kanji |-> << <<>>, Ki>>,  readings |-> <<KataKa>>, senses |-> <<NoText[1]>>] >>

MCQuery == {<<>>, A, Ka, Ki, <<97>>, <<107>>}
KanjiQuery == {Ki}
HiraganaQuery == {A, Ka}
MCsanitize(s) == Sanitized(s, DICT_DETAIL_LEN)
=============================================================================
