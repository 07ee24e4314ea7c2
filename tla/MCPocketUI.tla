----------------------------- MODULE MCPocketUI -----------------------------
(* The application over a dictionary of four words and the letters a and k. *)
EXTENDS PocketUI, RomajiTable

C == INSTANCE RomajiRef WITH TABLE <- ROMAJI_TABLE

CONSTANTS ame, aki, kau, aka

a_ == <<227, 129, 130>>
ka_ == <<227, 129, 139>>

\* Rows of the word table: its readings, and the letters of its senses.
Database ==
  << [entry |-> ame, readings |-> {a_},      senses |-> <<97>>],
     [entry |-> aki, readings |-> {a_},      senses |-> <<107, 97>>],
     [entry |-> kau, readings |-> {a_, ka_}, senses |-> <<107>>],
     [entry |-> aka, readings |-> {ka_}, senses |-> <<97, 107, 97>>] >>

Within(q, t) == \E k \in 0..(Len(t) - Len(q)) : SubSeq(t, k + 1, k + Len(q)) = q

EntriesWhere(Test(_)) ==
  LET rows == SelectSeq(Database, Test) IN [k \in DOMAIN rows |-> rows[k].entry]

MCKana(w)   == C!KanaWithin(w, WORD_CAP - 1)
MCJpHits(q) == LET Test(row) == q \in row.readings IN EntriesWhere(Test)
MCEnHits(q) == LET Test(row) == Within(q, row.senses) IN EntriesWhere(Test)

\* The same for words of the letter a alone, in a buffer of four bytes.
KanaOfA(w) == IF w = <<>> THEN <<>> ELSE a_
ASSUME KanaOfAIsKana ==
  \A n \in 0..3 : LET w == [k \in 1..n |-> 97] IN KanaOfA(w) = C!KanaWithin(w, 3)
=============================================================================
