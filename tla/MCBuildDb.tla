----------------------------- MODULE MCBuildDb -----------------------------
(* Two JMdict files and a faulty one, two KANJIDIC files.                   *)
EXTENDS BuildDb

\* The fields of a record stand in the order in which their names first occur,
\* which is TLC's own: its workers share these records and reorder none of them.
n == <<110>>
v == <<118>>
Sense(pos, gloss) == [pos |-> pos, gloss |-> gloss]
EntryOf(ent_seq, kanji, readings, sense) ==
  [ent_seq |-> ent_seq, kanji |-> kanji, readings |-> readings, sense |-> sense]

Rain == EntryOf(1, << <<201>>, <<202>> >>, << <<97>> >>, <<Sense(<<n>>, << <<114>> >>)>>)
Candy == EntryOf(2, <<>>, << <<97>>, <<98>> >>,
                 <<Sense(<<n, v>>, << <<99>>, <<100>> >>), Sense(<<>>, << <<101>> >>), Sense(<<v>>, <<>>)>>)
Net == EntryOf(1, << <<203>> >>, << <<97>> >>, <<>>)
MCJmdicts == {<<Rain, Candy>>, <<Candy, Net>>, <<Rain, Candy, Net>>, <<>>}

Char(literal, info) == [literal |-> literal, info |-> info]
MCKanjidics == {<<Char(201, "a"), Char(202, "b"), Char(201, "c")>>, <<Char(203, "d")>>}
=============================================================================
