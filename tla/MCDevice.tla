------------------------------ MODULE MCDevice ------------------------------
(* The application over a table of three rows, and the letter a.            *)
EXTENDS Device, SanitizeRef

A == <<227, 129, 130>>      \* hiragana a
MCTable ==
  << [kanji |-> <<>>, readings |-> <<A>>, senses |-> << <<91, 110, 93, 98>> >>],
     [kanji |-> << <<107>> >>, readings |-> <<A>>, senses |-> << <<97>> >>],
     [kanji |-> <<>>, readings |-> << <<97>>, A>>, senses |-> << <<98, 97>> >>] >>

\* Words of the letter a in a buffer of four bytes (MCPocketUI checks it).
KanaOfA(w) == IF w = <<>> THEN <<>> ELSE A
MCsanitize(s) == Sanitized(s, DICT_DETAIL_LEN)

MCJpHits(q) == HitsOf(q, FALSE)
MCEnHits(q) == HitsOf(q, TRUE)
MCEntry == {D!EntryOf("simulator", MCTable[k]) : k \in DOMAIN MCTable}
MCBlank == [word |-> <<>>, detail |-> <<>>]
=============================================================================
