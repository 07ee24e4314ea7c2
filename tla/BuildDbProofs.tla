--------------------------- MODULE BuildDbProofs ---------------------------
(***************************************************************************)
(* Theorems about module BuildDb, for all JMdict and KANJIDIC files, any   *)
(* number of runs of the script and any number of failures.                *)
(***************************************************************************)
EXTENDS BuildDb, Lemmas

-----------------------------------------------------------------------------
(* What the tables hold. *)

\* dict.db has its three tables, there or not.
IsDb(t) == t = [word |-> t.word, word_form |-> t.word_form, kanji |-> t.kanji]

\* Where executescript is: the tables dropped and created so far.
SchemaAt ==
  /\ next \in 1..6 /\ tx = disk
  /\ next \in 2..4 => tx.word = NoTable
  /\ next \in 3..5 => tx.word_form = NoTable
  /\ next \in 5..6 => tx.word = <<>>
  /\ next = 6 => tx.word_form = {}

\* No two of the first m entries share a key.
Distinct(j, m) == \A x, y \in 1..m : j[x].ent_seq = j[y].ent_seq => x = y

\* table holds the first m entries of j, and forms their forms.
HoldsWords(table, forms, j, m) ==
  /\ Distinct(j, m)
  /\ table = [s \in {j[x].ent_seq : x \in 1..m} |-> table[s]]
  /\ \A x \in 1..m : table[j[x].ent_seq] = WordRow(j[x])
  /\ forms = UNION {Forms(j[x]) : x \in 1..m}

\* table holds the first m characters of k, of a literal the last one.
HoldsKanji(table, k, m) ==
  /\ table = [l \in {k[x].literal : x \in 1..m} |-> table[l]]
  /\ \A x \in 1..m : (\A y \in 1..m : k[y].literal = k[x].literal => y <= x) =>
       table[k[x].literal] = k[x].info

\* A file is a sequence.
LEMMA FileType ==
  ASSUME NEW file \in Jmdicts \cup Kanjidics
  PROVE  /\ Len(file) \in Nat /\ DOMAIN file = 1..Len(file)
         /\ Members(file) = {file[x] : x \in 1..Len(file)}
<1>1. file \in Seq(Members(file))
  BY BuildAssumption
<1>2. Len(file) \in Nat /\ DOMAIN file = 1..Len(file)
  BY <1>1
<1> QED BY <1>2 DEF Members

\* An empty table holds none of the entries and none of the characters.
LEMMA HoldsNone ==
  ASSUME NEW j
  PROVE  HoldsWords(<<>>, {}, j, 0) /\ HoldsKanji(<<>>, j, 0)
<1>1. 1..0 = {} /\ <<>> = [s \in {} |-> <<>>[s]]
  OBVIOUS
<1>2. {j[x].ent_seq : x \in 1..0} = {} /\ {j[x].literal : x \in 1..0} = {}
  BY <1>1
<1> QED BY <1>1, <1>2 DEF HoldsWords, HoldsKanji, Distinct

\* INSERT of the next entry, whose key is new.
LEMMA InsertHolds ==
  ASSUME NEW table, NEW forms, NEW j, NEW m \in Nat, HoldsWords(table, forms, j, m),
         j[m + 1].ent_seq \notin DOMAIN table
  PROVE  HoldsWords(Put(table, j[m + 1].ent_seq, WordRow(j[m + 1])), forms \cup Forms(j[m + 1]),
                    j, m + 1)
<1> DEFINE e == j[m + 1]
           new == Put(table, e.ent_seq, WordRow(e))
           Keys(l) == {j[x].ent_seq : x \in 1..l}
<1>1. 1..(m + 1) = (1..m) \cup {m + 1}
  OBVIOUS
<1>2. DOMAIN table = Keys(m)
  BY DEF HoldsWords
<1>3. Keys(m + 1) = Keys(m) \cup {e.ent_seq}
  BY <1>1
<1>4. new = [s \in Keys(m + 1) |-> IF s = e.ent_seq THEN WordRow(e) ELSE table[s]]
  BY <1>2, <1>3 DEF Put
<1> HIDE DEF new
<1>5. new = [s \in Keys(m + 1) |-> new[s]]
  BY <1>4
<1>6. Distinct(j, m + 1)
  <2>1. \A x \in 1..m : j[x].ent_seq # e.ent_seq
    BY <1>2
  <2> QED BY <2>1, <1>1 DEF HoldsWords, Distinct
<1>7. ASSUME NEW x \in 1..(m + 1) PROVE new[j[x].ent_seq] = WordRow(j[x])
  <2>1. j[x].ent_seq \in Keys(m + 1)
    OBVIOUS
  <2>2. CASE x = m + 1
    BY <2>1, <2>2, <1>4
  <2>3. CASE x # m + 1
    <3>1. x \in 1..m
      BY <2>3, <1>1
    <3>2. j[x].ent_seq # e.ent_seq
      BY <3>1, <1>2
    <3>3. table[j[x].ent_seq] = WordRow(j[x])
      BY <3>1 DEF HoldsWords
    <3> QED BY <3>2, <3>3, <2>1, <1>4
  <2> QED BY <2>2, <2>3
<1>8. forms \cup Forms(e) = UNION {Forms(j[x]) : x \in 1..(m + 1)}
  <2>1. forms = UNION {Forms(j[x]) : x \in 1..m}
    BY DEF HoldsWords
  <2> QED BY <2>1, <1>1
<1>9. HoldsWords(new, forms \cup Forms(e), j, m + 1)
  BY <1>5, <1>6, <1>7, <1>8 DEF HoldsWords
<1> QED BY <1>9 DEF new

\* INSERT OR REPLACE of the next character.
LEMMA ReplaceHolds ==
  ASSUME NEW table, NEW k, NEW m \in Nat, HoldsKanji(table, k, m)
  PROVE  HoldsKanji(Put(table, k[m + 1].literal, k[m + 1].info), k, m + 1)
<1> DEFINE c == k[m + 1]
           new == Put(table, c.literal, c.info)
           Keys(l) == {k[x].literal : x \in 1..l}
<1>1. 1..(m + 1) = (1..m) \cup {m + 1}
  OBVIOUS
<1>2. DOMAIN table = Keys(m)
  BY DEF HoldsKanji
<1>3. Keys(m + 1) = Keys(m) \cup {c.literal}
  BY <1>1
<1>4. new = [l \in Keys(m + 1) |-> IF l = c.literal THEN c.info ELSE table[l]]
  BY <1>2, <1>3 DEF Put
<1> HIDE DEF new
<1>5. new = [l \in Keys(m + 1) |-> new[l]]
  BY <1>4
<1>6. ASSUME NEW x \in 1..(m + 1),
             \A y \in 1..(m + 1) : k[y].literal = k[x].literal => y <= x
      PROVE  new[k[x].literal] = k[x].info
  <2>1. k[x].literal \in Keys(m + 1)
    OBVIOUS
  <2>2. CASE x = m + 1
    BY <2>1, <2>2, <1>4
  <2>3. CASE x # m + 1
    <3>1. x \in 1..m
      BY <2>3, <1>1
    <3>2. k[x].literal # c.literal
      BY <3>1, <1>6
    <3>3. table[k[x].literal] = k[x].info
      BY <3>1, <1>1, <1>6 DEF HoldsKanji
    <3> QED BY <3>2, <3>3, <2>1, <1>4
  <2> QED BY <2>2, <2>3
<1>7. HoldsKanji(new, k, m + 1)
  BY <1>5, <1>6 DEF HoldsKanji
<1> QED BY <1>7 DEF new

\* The whole file, without a key refused, is a sound one, and the table is its.
LEMMA AllWords ==
  ASSUME NEW table, NEW forms, NEW j \in Jmdicts, HoldsWords(table, forms, j, Len(j))
  PROVE  j \in Sound /\ table = WordsOf(j)
<1>1. /\ DOMAIN j = 1..Len(j)
      /\ Members(j) = {j[x] : x \in 1..Len(j)}
  BY FileType
<1>2. j \in Sound
  BY <1>1 DEF Sound, HoldsWords, Distinct
<1> DEFINE Keys == {j[x].ent_seq : x \in 1..Len(j)}
<1>3. {e.ent_seq : e \in Members(j)} = Keys
  BY <1>1
<1>4. ASSUME NEW s \in Keys
      PROVE  table[s] = WordRow(CHOOSE e \in Members(j) : e.ent_seq = s)
  <2> DEFINE chosen == CHOOSE e \in Members(j) : e.ent_seq = s
  <2>1. PICK x \in 1..Len(j) : j[x].ent_seq = s
    OBVIOUS
  <2>2. chosen \in Members(j) /\ chosen.ent_seq = s
    BY <2>1, <1>1
  <2> HIDE DEF chosen
  <2>3. PICK y \in 1..Len(j) : chosen = j[y]
    BY <2>2, <1>1
  <2>4. y = x
    BY <2>1, <2>2, <2>3 DEF HoldsWords, Distinct
  <2>5. table[s] = WordRow(chosen)
    BY <2>1, <2>3, <2>4 DEF HoldsWords
  <2> QED BY <2>5 DEF chosen
<1>5. table = [s \in Keys |-> table[s]]
  BY DEF HoldsWords
<1> HIDE DEF Keys
<1>6. table = [s \in Keys |-> WordRow(CHOOSE e \in Members(j) : e.ent_seq = s)]
  BY <1>4, <1>5
<1>7. table = WordsOf(j)
  BY <1>3, <1>6 DEF WordsOf
<1> QED BY <1>2, <1>7

\* The forms of an entry are the elements of its row: joining them loses none
\* and makes none up, but for the empty text that stands for no kanji.
LEMMA FormsOfRow ==
  ASSUME NEW e, <<>> \notin Members(e.kanji) \cup Members(e.readings)
  PROVE  (Members(WordRow(e).kanji) \cup Members(WordRow(e).readings)) \ {<<>>}
           = Members(e.kanji) \cup Members(e.readings)
<1>1. ASSUME NEW parts PROVE Members(Joined(parts)) \ {<<>>} = Members(parts) \ {<<>>}
  <2>1. Members(<<>>) = {} /\ Members(<<<<>>>>) = {<<>>}
    BY DEF Members
  <2> QED BY <2>1 DEF Joined
<1>2. WordRow(e).kanji = Joined(e.kanji) /\ WordRow(e).readings = Joined(e.readings)
  BY DEF WordRow
<1> QED BY <1>1, <1>2

\* The forms that lead to the words of a table.
FormsIn(table) ==
  UNION {{<<f, s>> : f \in (Members(table[s].kanji) \cup Members(table[s].readings)) \ {<<>>}}
         : s \in DOMAIN table}

\* word_form leads to the words of word.
LEMMA AllForms ==
  ASSUME NEW table, NEW forms, NEW j \in Jmdicts, HoldsWords(table, forms, j, Len(j))
  PROVE  forms = FormsIn(table)
<1> DEFINE Of(s) == {<<f, s>> : f \in (Members(table[s].kanji)
                                       \cup Members(table[s].readings)) \ {<<>>}}
<1>1. DOMAIN table = {j[x].ent_seq : x \in 1..Len(j)}
  BY DEF HoldsWords
<1>2. ASSUME NEW x \in 1..Len(j) PROVE Forms(j[x]) = Of(j[x].ent_seq)
  <2>1. j[x] \in Members(j)
    BY FileType
  <2>2. <<>> \notin Members(j[x].kanji) \cup Members(j[x].readings)
    BY <2>1, BuildAssumption
  <2>3. table[j[x].ent_seq] = WordRow(j[x])
    BY DEF HoldsWords
  <2>4. (Members(table[j[x].ent_seq].kanji) \cup Members(table[j[x].ent_seq].readings)) \ {<<>>}
          = Members(j[x].kanji) \cup Members(j[x].readings)
    BY <2>2, <2>3, FormsOfRow
  <2> QED BY <2>4 DEF Forms
<1> HIDE DEF Of
<1>3. forms = UNION {Forms(j[x]) : x \in 1..Len(j)}
  BY DEF HoldsWords
<1>4. {Forms(j[x]) : x \in 1..Len(j)} = {Of(s) : s \in DOMAIN table}
  BY <1>1, <1>2
<1> QED BY <1>3, <1>4 DEF FormsIn, Of

\* The characters of the whole file: there is a last one of each literal.
LEMMA AllKanji ==
  ASSUME NEW table, NEW k \in Kanjidics, HoldsKanji(table, k, Len(k))
  PROVE  table = KanjiOf(k)
<1>1. /\ DOMAIN k = 1..Len(k) /\ Len(k) \in Nat
      /\ Members(k) = {k[x] : x \in 1..Len(k)}
  BY FileType
<1> DEFINE Keys == {k[x].literal : x \in 1..Len(k)}
           Last(l, x) == k[x].literal = l /\ \A y \in DOMAIN k : k[y].literal = l => y <= x
<1>2. {c.literal : c \in Members(k)} = Keys
  BY <1>1
<1>3. ASSUME NEW l \in Keys PROVE table[l] = k[CHOOSE x \in DOMAIN k : Last(l, x)].info
  <2> DEFINE T == {x \in 1..Len(k) : k[x].literal = l}
  <2>1. T # {} /\ T \in SUBSET (0..Len(k))
    BY <1>1
  <2>2. PICK x \in T : \A y \in T : y <= x
    <3> HIDE DEF T
    <3> QED BY <2>1, <1>1, Greatest
  <2>3. x \in DOMAIN k /\ Last(l, x)
    BY <2>2, <1>1
  <2> DEFINE chosen == CHOOSE z \in DOMAIN k : Last(l, z)
  <2>4. chosen \in DOMAIN k /\ Last(l, chosen)
    BY <2>3, Zenon
  <2> HIDE DEF chosen
  <2>5. table[l] = k[chosen].info
    BY <2>4, <1>1 DEF HoldsKanji
  <2> QED BY <2>5 DEF chosen
<1>4. table = [l \in Keys |-> table[l]]
  BY DEF HoldsKanji
<1> HIDE DEF Keys
<1>5. table = [l \in Keys |-> k[CHOOSE x \in DOMAIN k : Last(l, x)].info]
  BY <1>3, <1>4
<1> QED BY <1>2, <1>5 DEF KanjiOf

-----------------------------------------------------------------------------
(* The inductive invariant. *)

\* Between executescript and the first commit dict.db has three empty tables.
WordsAt ==
  /\ next \in 1..(Len(jmdict) + 1)
  /\ disk = [word |-> <<>>, word_form |-> {}, kanji |-> <<>>] /\ tx.kanji = <<>>
  /\ HoldsWords(tx.word, tx.word_form, jmdict, next - 1)

\* After it, the words of the file, which the transaction does not change.
KanjiAt ==
  /\ next \in 1..(Len(kanjidic) + 1)
  /\ tx.word = disk.word /\ tx.word_form = disk.word_form
  /\ disk.word = WordsOf(jmdict)
  /\ HoldsKanji(tx.kanji, kanjidic, next - 1)

\* The inductive invariant.
Inv ==
  /\ jmdict \in Jmdicts /\ kanjidic \in Kanjidics
  /\ IsDb(disk) /\ IsDb(tx)
  /\ pc \in {"off", "schema", "words", "kanji", "done"}
  /\ pc = "schema" => SchemaAt
  /\ pc = "words" => WordsAt
  /\ pc = "kanji" => KanjiAt
  /\ pc \in {"off", "done"} => tx = disk
  /\ NoHalfDictionary /\ FormsOfWords /\ LastRunWins

\* It holds at the start.
LEMMA InvInit == Init => Inv
<1> SUFFICES ASSUME Init PROVE Inv
  OBVIOUS
<1>1. disk = [word |-> NoTable, word_form |-> NoTable, kanji |-> NoTable] /\ tx = disk /\ pc = "off"
  BY DEF Init
<1>2. disk.word = NoTable /\ IsDb(disk)
  BY <1>1 DEF IsDb
<1> QED BY <1>1, <1>2 DEF Init, Inv, NoHalfDictionary, FormsOfWords, LastRunWins

\* What another process reads of dict.db, if disk does not change.
LEMMA SameDisk ==
  ASSUME Inv, UNCHANGED disk
  PROVE  NoHalfDictionary' /\ FormsOfWords' /\ IsDb(disk')
<1>1. NoHalfDictionary /\ FormsOfWords /\ IsDb(disk)
  BY DEF Inv
<1> QED BY <1>1 DEF NoHalfDictionary, FormsOfWords

\* A run begins: nothing is read of the files yet.
LEMMA InvStart ==
  ASSUME NEW j \in Jmdicts, NEW k \in Kanjidics, Inv, Start(j, k)
  PROVE  Inv'
<1>1. /\ jmdict' = j /\ kanjidic' = k /\ pc' = "schema" /\ next' = 1
      /\ UNCHANGED <<disk, tx>> /\ pc \in {"off", "done"}
  BY DEF Start, Begin, Running, Inv
<1>2. tx = disk
  BY <1>1 DEF Inv
<1>3. SchemaAt'
  BY <1>1, <1>2 DEF SchemaAt
<1>4. NoHalfDictionary' /\ FormsOfWords' /\ IsDb(disk') /\ IsDb(tx')
  BY <1>1, <1>2, SameDisk
<1>5. LastRunWins'
  BY <1>1 DEF LastRunWins
<1> QED BY <1>1, <1>3, <1>4, <1>5 DEF Inv

\* A statement of the script changes one table, in the order of Script.
LEMMA ScriptStep ==
  ASSUME Inv, executescript
  PROVE  /\ next \in 1..6
         /\ tx'.word = IF next = 1 THEN NoTable ELSE IF next = 4 THEN <<>> ELSE tx.word
         /\ tx'.word_form = IF next = 2 THEN NoTable ELSE IF next = 5 THEN {} ELSE tx.word_form
         /\ tx'.kanji = IF next = 3 THEN NoTable ELSE IF next = 6 THEN <<>> ELSE tx.kanji
         /\ IsDb(tx') /\ disk' = tx'
<1>1. next \in 1..6 /\ IsDb(tx)
  BY DEF executescript, Inv, SchemaAt
<1> DEFINE s == Script[next]
<1>2. /\ disk' = tx'
      /\ tx' = [tx EXCEPT ![s[2]] = IF s[1] = "drop" THEN NoTable ELSE EmptyTable(s[2])]
  BY DEF executescript
<1>3. tx = [word |-> tx.word, word_form |-> tx.word_form, kanji |-> tx.kanji]
  BY <1>1 DEF IsDb
<1>4. /\ next = 1 => s[1] = "drop" /\ s[2] = "word"
      /\ next = 2 => s[1] = "drop" /\ s[2] = "word_form"
      /\ next = 3 => s[1] = "drop" /\ s[2] = "kanji"
      /\ next = 4 => s[1] = "create" /\ s[2] = "word"
      /\ next = 5 => s[1] = "create" /\ s[2] = "word_form"
      /\ next = 6 => s[1] = "create" /\ s[2] = "kanji"
  BY DEF Script
<1> HIDE DEF s
<1>5. EmptyTable("word") = <<>> /\ EmptyTable("word_form") = {} /\ EmptyTable("kanji") = <<>>
  BY DEF EmptyTable
<1>6. CASE next \in {1, 4}
  <2>1. tx' = [word |-> IF next = 1 THEN NoTable ELSE <<>>,
               word_form |-> tx.word_form, kanji |-> tx.kanji]
    BY <1>2, <1>3, <1>4, <1>5, <1>6
  <2> QED BY <2>1, <1>1, <1>2, <1>6 DEF IsDb
<1>7. CASE next \in {2, 5}
  <2>1. tx' = [word |-> tx.word, word_form |-> IF next = 2 THEN NoTable ELSE {},
               kanji |-> tx.kanji]
    BY <1>2, <1>3, <1>4, <1>5, <1>7
  <2> QED BY <2>1, <1>1, <1>2, <1>7 DEF IsDb
<1>8. CASE next \in {3, 6}
  <2>1. tx' = [word |-> tx.word, word_form |-> tx.word_form,
               kanji |-> IF next = 3 THEN NoTable ELSE <<>>]
    BY <1>2, <1>3, <1>4, <1>5, <1>8
  <2> QED BY <2>1, <1>1, <1>2, <1>8 DEF IsDb
<1> QED BY <1>1, <1>6, <1>7, <1>8

\* executescript: between two statements word is gone, empty or as it was, and
\* word_form never stands beside words it does not lead to.
LEMMA InvScript == Inv /\ executescript => Inv'
<1> SUFFICES ASSUME Inv, executescript PROVE Inv'
  OBVIOUS
<1>1. SchemaAt /\ tx = disk /\ pc = "schema"
  BY DEF executescript, Inv, SchemaAt
<1>2. /\ UNCHANGED <<jmdict, kanjidic>>
      /\ IF next = 6 THEN pc' = "words" /\ next' = 1 ELSE next' = next + 1 /\ pc' = pc
  <2>1. Len(Script) = 6
    BY DEF Script
  <2> QED BY <2>1 DEF executescript, Begin, input
<1>3. NoHalfDictionary'
  <2>1. tx'.word \in {NoTable, <<>>, disk.word}
    BY <1>1, ScriptStep
  <2> QED BY <2>1, ScriptStep DEF Inv, NoHalfDictionary
<1>4. FormsOfWords'
  <2>1. CASE next \in 1..4
    <3>1. tx'.word = NoTable \/ tx'.word_form = NoTable
      BY <2>1, <1>1, ScriptStep DEF SchemaAt
    <3> QED BY <3>1, ScriptStep DEF FormsOfWords
  <2>2. CASE next \in 5..6
    <3>1. tx'.word = <<>> /\ tx'.word_form = {}
      BY <2>2, <1>1, ScriptStep DEF SchemaAt
    <3>2. FormsIn(<<>>) = {}
      BY DEF FormsIn
    <3> QED BY <3>1, <3>2, ScriptStep DEF FormsOfWords, FormsIn
  <2> QED BY <2>1, <2>2, ScriptStep
<1>5. CASE next # 6
  <2>1. next' \in 2..6 /\ next' = next + 1
    BY <1>2, <1>5, ScriptStep
  <2>2. SchemaAt'
    BY <2>1, <1>1, ScriptStep DEF SchemaAt
  <2> QED BY <2>2, <1>1, <1>2, <1>3, <1>4, <1>5, ScriptStep DEF Inv, LastRunWins
<1>6. CASE next = 6
  <2>1. /\ tx'.word = <<>> /\ tx'.word_form = {} /\ tx'.kanji = <<>>
        /\ disk' = [word |-> <<>>, word_form |-> {}, kanji |-> <<>>]
    BY <1>1, <1>6, ScriptStep DEF SchemaAt, IsDb
  <2>2. next' = 1 /\ next' - 1 = 0 /\ pc' = "words"
    BY <1>2, <1>6
  <2>3. Len(jmdict') \in Nat
    BY <1>2, FileType DEF Inv
  <2>4. WordsAt'
    BY <2>1, <2>2, <2>3, HoldsNone DEF WordsAt
  <2> QED BY <2>2, <2>4, <1>2, <1>3, <1>4, ScriptStep DEF Inv, LastRunWins
<1> QED BY <1>5, <1>6

\* An entry goes into the transaction; dict.db stays empty.
LEMMA InvInsertWord == Inv /\ InsertWord => Inv'
<1> SUFFICES ASSUME Inv, InsertWord PROVE Inv'
  OBVIOUS
<1> DEFINE e == jmdict[next]
           m == next - 1
           word == Put(tx.word, e.ent_seq, WordRow(e))
           forms == tx.word_form \cup Forms(e)
<1>1. /\ pc = "words" /\ next <= Len(jmdict) /\ ~Duplicate
      /\ UNCHANGED <<disk, jmdict, kanjidic, pc>> /\ next' = next + 1
      /\ tx' = [tx EXCEPT !.word = word, !.word_form = forms]
  BY DEF InsertWord, InTransaction, input
<1>2. WordsAt /\ IsDb(tx) /\ Len(jmdict) \in Nat
  BY <1>1, FileType DEF Inv
<1>3. m \in Nat /\ m + 1 = next /\ next' - 1 = next /\ next' \in 1..(Len(jmdict) + 1)
  BY <1>1, <1>2 DEF WordsAt
<1>4. e.ent_seq \notin DOMAIN tx.word
  BY <1>1 DEF Duplicate
<1>5. HoldsWords(word, forms, jmdict, next)
  <2>1. HoldsWords(tx.word, tx.word_form, jmdict, m)
    BY <1>2 DEF WordsAt
  <2> HIDE DEF m
  <2> QED BY <2>1, <1>3, <1>4, InsertHolds
<1> HIDE DEF e, word, forms
<1>6. tx' = [word |-> word, word_form |-> forms, kanji |-> tx.kanji]
  BY <1>1, <1>2 DEF IsDb
<1>7. IsDb(tx') /\ tx'.word = word /\ tx'.word_form = forms /\ tx'.kanji = tx.kanji
  BY <1>6 DEF IsDb
<1>8. WordsAt'
  BY <1>1, <1>2, <1>3, <1>5, <1>7 DEF WordsAt
<1>9. NoHalfDictionary' /\ FormsOfWords' /\ IsDb(disk')
  BY <1>1, SameDisk
<1> QED BY <1>1, <1>7, <1>8, <1>9 DEF Inv, LastRunWins

\* The first commit: all the words and all their forms at once.
LEMMA InvCommitWords == Inv /\ CommitWords => Inv'
<1> SUFFICES ASSUME Inv, CommitWords PROVE Inv'
  OBVIOUS
<1>1. /\ pc = "words" /\ next > Len(jmdict) /\ disk' = tx /\ pc' = "kanji" /\ next' = 1
      /\ UNCHANGED <<tx, jmdict, kanjidic>>
  BY DEF CommitWords, Begin, input
<1>2. /\ WordsAt /\ IsDb(tx) /\ Len(jmdict) \in Nat /\ Len(kanjidic) \in Nat
      /\ jmdict \in Jmdicts
  BY <1>1, FileType DEF Inv
<1>3. next - 1 = Len(jmdict)
  BY <1>1, <1>2 DEF WordsAt
<1>4. HoldsWords(tx.word, tx.word_form, jmdict, Len(jmdict)) /\ tx.kanji = <<>>
  BY <1>2, <1>3 DEF WordsAt
<1>5. jmdict \in Sound /\ tx.word = WordsOf(jmdict) /\ tx.word_form = FormsIn(tx.word)
  BY <1>2, <1>4, AllWords, AllForms
<1>6. NoHalfDictionary'
  BY <1>1, <1>5 DEF NoHalfDictionary
<1>7. FormsOfWords'
  BY <1>1, <1>5 DEF FormsOfWords, FormsIn
<1>8. KanjiAt'
  <2>1. next' - 1 = 0 /\ next' \in 1..(Len(kanjidic') + 1)
    BY <1>1, <1>2
  <2> QED BY <2>1, <1>1, <1>4, <1>5, HoldsNone DEF KanjiAt
<1> QED BY <1>1, <1>2, <1>6, <1>7, <1>8 DEF Inv, LastRunWins

\* A character goes into the transaction.
LEMMA InvInsertKanji == Inv /\ InsertKanji => Inv'
<1> SUFFICES ASSUME Inv, InsertKanji PROVE Inv'
  OBVIOUS
<1> DEFINE c == kanjidic[next]
           m == next - 1
           kanji == Put(tx.kanji, c.literal, c.info)
<1>1. /\ pc = "kanji" /\ next <= Len(kanjidic)
      /\ UNCHANGED <<disk, jmdict, kanjidic, pc>> /\ next' = next + 1
      /\ tx' = [tx EXCEPT !.kanji = kanji]
  BY DEF InsertKanji, InTransaction, input
<1>2. KanjiAt /\ IsDb(tx) /\ Len(kanjidic) \in Nat
  BY <1>1, FileType DEF Inv
<1>3. m \in Nat /\ m + 1 = next /\ next' - 1 = next /\ next' \in 1..(Len(kanjidic) + 1)
  BY <1>1, <1>2 DEF KanjiAt
<1>4. HoldsKanji(kanji, kanjidic, next)
  <2>1. HoldsKanji(tx.kanji, kanjidic, m)
    BY <1>2 DEF KanjiAt
  <2> HIDE DEF m
  <2> QED BY <2>1, <1>3, ReplaceHolds
<1> HIDE DEF c, kanji
<1>5. tx' = [word |-> tx.word, word_form |-> tx.word_form, kanji |-> kanji]
  BY <1>1, <1>2 DEF IsDb
<1>6. IsDb(tx') /\ tx'.word = tx.word /\ tx'.word_form = tx.word_form /\ tx'.kanji = kanji
  BY <1>5 DEF IsDb
<1>7. KanjiAt'
  BY <1>1, <1>2, <1>3, <1>4, <1>6 DEF KanjiAt
<1>8. NoHalfDictionary' /\ FormsOfWords' /\ IsDb(disk')
  BY <1>1, SameDisk
<1> QED BY <1>1, <1>6, <1>7, <1>8 DEF Inv, LastRunWins

\* The second commit adds the characters and leaves the words alone.
LEMMA InvCommitAndClose == Inv /\ CommitAndClose => Inv'
<1> SUFFICES ASSUME Inv, CommitAndClose PROVE Inv'
  OBVIOUS
<1>1. /\ pc = "kanji" /\ next > Len(kanjidic) /\ disk' = tx /\ pc' = "done"
      /\ UNCHANGED <<tx, jmdict, kanjidic>>
  BY DEF CommitAndClose, input
<1>2. KanjiAt /\ IsDb(tx) /\ Len(kanjidic) \in Nat /\ kanjidic \in Kanjidics
  BY <1>1, FileType DEF Inv
<1>3. next - 1 = Len(kanjidic)
  BY <1>1, <1>2 DEF KanjiAt
<1>4. tx.kanji = KanjiOf(kanjidic)
  BY <1>2, <1>3, AllKanji DEF KanjiAt
<1>5. disk'.word = disk.word /\ disk'.word_form = disk.word_form
  BY <1>1, <1>2 DEF KanjiAt
<1>6. NoHalfDictionary' /\ FormsOfWords'
  BY <1>5 DEF Inv, NoHalfDictionary, FormsOfWords
<1>7. LastRunWins'
  BY <1>1, <1>2, <1>4, <1>5 DEF LastRunWins, KanjiAt
<1> QED BY <1>1, <1>2, <1>6, <1>7 DEF Inv

\* A run that ends early leaves what was committed.
LEMMA InvRoll == Inv /\ Roll => Inv'
<1> SUFFICES ASSUME Inv, Roll PROVE Inv'
  OBVIOUS
<1>1. pc' = "off" /\ tx' = disk /\ UNCHANGED <<disk, jmdict, kanjidic>>
  BY DEF Roll, input
<1>2. NoHalfDictionary' /\ FormsOfWords' /\ IsDb(disk')
  BY <1>1, SameDisk
<1> QED BY <1>1, <1>2 DEF Inv, LastRunWins

\* Every step keeps it.
LEMMA InvNext == Inv /\ [Next]_vars => Inv'
<1> SUFFICES ASSUME Inv, [Next]_vars PROVE Inv'
  OBVIOUS
<1>1. CASE \E j \in Jmdicts, k \in Kanjidics : Start(j, k)
  BY <1>1, InvStart
<1>2. CASE executescript
  BY <1>2, InvScript
<1>3. CASE InsertWord
  BY <1>3, InvInsertWord
<1>4. CASE CommitWords
  BY <1>4, InvCommitWords
<1>5. CASE InsertKanji
  BY <1>5, InvInsertKanji
<1>6. CASE CommitAndClose
  BY <1>6, InvCommitAndClose
<1>7. CASE Abort \/ Fail
  BY <1>7, InvRoll DEF Abort, Fail
<1>8. CASE UNCHANGED vars
  BY <1>8 DEF vars, input, Inv, SchemaAt, WordsAt, KanjiAt, NoHalfDictionary, FormsOfWords,
              LastRunWins
<1> QED BY <1>1, <1>2, <1>3, <1>4, <1>5, <1>6, <1>7, <1>8 DEF Next, build

\* The invariant of every behaviour.
LEMMA Invariance == Spec => []Inv
  BY InvInit, InvNext, PTL DEF Spec

-----------------------------------------------------------------------------
(* What the runs check, for all files and any number of runs and failures. *)

\* dict.db never holds part of a dictionary or a mix of two.
THEOREM NeverHalf == Spec => []NoHalfDictionary
  BY Invariance, PTL DEF Inv

\* Its two tables of words always belong together.
THEOREM FormsAgree == Spec => []FormsOfWords
  BY Invariance, PTL DEF Inv

\* A run that ends well leaves what its own files say.
THEOREM EarlierRunsForgotten == Spec => []LastRunWins
  BY Invariance, PTL DEF Inv
-----------------------------------------------------------------------------
(* Text without its tags. *)

\* The elements of a concatenation.
LEMMA ConcatElements ==
  ASSUME NEW S, NEW a \in Seq(S), NEW b \in Seq(S)
  PROVE  /\ Len(a) \in Nat /\ Len(b) \in Nat
         /\ a \o b \in Seq(S) /\ Len(a \o b) = Len(a) + Len(b)
         /\ \A k \in 1..Len(a) : (a \o b)[k] = a[k]
         /\ \A k \in 1..Len(b) : (a \o b)[Len(a) + k] = b[k]
  OBVIOUS

\* What stands before a text does not change where its tags end.
LEMMA TagEndShift ==
  ASSUME NEW S, NEW a \in Seq(S), NEW b \in Seq(S), NEW k \in 1..Len(b)
  PROVE  TagEnd(a \o b, Len(a) + k) = Len(a) + TagEnd(b, k)
<1> DEFINE c == a \o b
           m == Len(a)
           l == Len(b)
<1>1. m \in Nat /\ l \in Nat /\ c \in Seq(S) /\ Len(c) = m + l
  BY ConcatElements
<1>2. \A x \in 1..l : c[m + x] = b[x]
  BY ConcatElements
<1> HIDE DEF c, m, l
<1>3. k \in 1..l /\ k \in Nat /\ m + k \in Nat /\ m + k \in 1..Len(c)
  BY <1>1 DEF l
<1>4. CASE b[k] # 91 \/ \A e \in k..l : b[e] # 93
  <2>1. c[m + k] # 91 \/ \A e \in (m + k)..Len(c) : c[e] # 93
    <3>1. CASE b[k] # 91
      BY <3>1, <1>2, <1>3
    <3>2. CASE \A e \in k..l : b[e] # 93
      <4> SUFFICES ASSUME NEW e \in (m + k)..Len(c) PROVE c[e] # 93
        OBVIOUS
      <4>1. e - m \in k..l /\ e - m \in 1..l /\ m + (e - m) = e
        BY <1>1, <1>3
      <4>2. c[m + (e - m)] = b[e - m]
        BY <1>2, <4>1
      <4> QED BY <3>2, <4>1, <4>2
    <3> QED BY <1>4, <3>1, <3>2
  <2>2. TagEnd(c, m + k) = (m + k) - 1
    <3> DEFINE x == m + k
    <3>1. x \in Nat /\ (c[x] # 91 \/ \A e \in x..Len(c) : c[e] # 93)
      BY <1>3, <2>1
    <3> HIDE DEF x
    <3>2. TagEnd(c, x) = x - 1
      BY <3>1, NoTagHere
    <3> QED BY <3>2, Zenon DEF x
  <2>3. TagEnd(b, k) = k - 1
    BY <1>3, <1>4, NoTagHere DEF l
  <2>4. (m + k) - 1 = m + (k - 1)
    BY <1>1, <1>3
  <2> QED BY <2>2, <2>3, <2>4 DEF c, m
<1>5. CASE b[k] = 91 /\ \E e \in k..l : b[e] = 93
  <2>1. PICK e, q \in Nat : IsTag(b, k, e, q)
    BY <1>5, TagShape DEF l
  <2>2. /\ e \in k..l /\ q \in e..l /\ b[e] = 93
        /\ \A x \in k..l : b[x] = 93 => e <= x
        /\ \A x \in (e + 1)..q : IsBlank(b[x])
        /\ q = l \/ ~IsBlank(b[q + 1])
    BY <2>1 DEF IsTag, l
  <2>3. m + e \in (m + k)..Len(c) /\ m + q \in (m + e)..Len(c) /\ e \in 1..l /\ q \in 1..l
    BY <1>1, <1>3, <2>1, <2>2
  <2>4. c[m + e] = 93 /\ c[m + k] = 91
    BY <1>2, <1>3, <1>5, <2>2, <2>3
  <2>5. ASSUME NEW x \in (m + k)..Len(c), c[x] = 93 PROVE m + e <= x
    <3>1. x - m \in k..l /\ x - m \in 1..l /\ m + (x - m) = x
      BY <1>1, <1>3
    <3>2. b[x - m] = 93
      BY <1>2, <2>5, <3>1
    <3>3. e <= x - m
      BY <2>2, <3>1, <3>2
    <3> QED BY <1>1, <2>1, <3>1, <3>3
  <2>6. ASSUME NEW x \in (m + e + 1)..(m + q) PROVE IsBlank(c[x])
    <3>1. x - m \in (e + 1)..q /\ x - m \in 1..l /\ m + (x - m) = x
      BY <1>1, <1>3, <2>1, <2>2
    <3>2. c[m + (x - m)] = b[x - m]
      BY <1>2, <3>1
    <3> QED BY <2>2, <3>1, <3>2
  <2>7. m + q = Len(c) \/ ~IsBlank(c[m + q + 1])
    <3> SUFFICES ASSUME m + q # Len(c) PROVE ~IsBlank(c[m + q + 1])
      OBVIOUS
    <3>1. q # l /\ q + 1 \in 1..l /\ m + (q + 1) = m + q + 1
      BY <1>1, <2>1, <2>3
    <3>2. c[m + (q + 1)] = b[q + 1]
      BY <1>2, <3>1
    <3> QED BY <2>2, <3>1, <3>2
  <2>8. IsTag(c, m + k, m + e, m + q)
    BY <2>3, <2>4, <2>5, <2>6, <2>7 DEF IsTag
  <2>9. TagEnd(c, m + k) = m + q
    BY <1>1, <1>3, <2>4, <2>8, TagIs
  <2>10. TagEnd(b, k) = q
    BY <1>5, <2>1, TagIs DEF l
  <2> QED BY <2>9, <2>10 DEF c, m
<1> QED BY <1>4, <1>5

\* Nor what follows them without its tags.
LEMMA UntaggedSuffix ==
  ASSUME NEW S, NEW a \in Seq(S), NEW b \in Seq(S)
  PROVE  UntaggedFrom(a \o b)[Len(a) + 1] = Untagged(b)
<1> DEFINE c == a \o b
           m == Len(a)
           l == Len(b)
           f == [k \in 1..(l + 1) |-> UntaggedFrom(c)[m + k]]
           g == UntaggedFrom(b)
           nxt == [k \in 1..l |-> IF TagEnd(b, k) >= k THEN TagEnd(b, k) + 1 ELSE k + 1]
<1>1. m \in Nat /\ l \in Nat /\ c \in Seq(S) /\ Len(c) = m + l
  BY ConcatElements
<1>2. \A x \in 1..l : c[m + x] = b[x]
  BY ConcatElements
<1>3. \A x \in 1..l : TagEnd(c, m + x) = m + TagEnd(b, x)
  BY TagEndShift
<1>4. /\ UntaggedFrom(c)[Len(c) + 1] = <<>>
      /\ \A k \in 1..Len(c) :
           UntaggedFrom(c)[k] = IF TagEnd(c, k) >= k THEN UntaggedFrom(c)[TagEnd(c, k) + 1]
                                ELSE <<c[k]>> \o UntaggedFrom(c)[k + 1]
  <2> HIDE DEF c
  <2> QED BY <1>1, UntaggedEquation
<1>5. /\ g[l + 1] = <<>>
      /\ \A k \in 1..l : g[k] = IF TagEnd(b, k) >= k THEN g[TagEnd(b, k) + 1]
                                ELSE <<b[k]>> \o g[k + 1]
  BY UntaggedEquation
<1>6. \A k \in 1..l : TagEnd(b, k) \in (k - 1)..l
  BY TagEndType
<1> HIDE DEF c, m, l, g
<1>7. ASSUME NEW k \in 1..l
      PROVE  /\ nxt[k] = (IF TagEnd(b, k) >= k THEN TagEnd(b, k) + 1 ELSE k + 1)
             /\ nxt[k] \in (k + 1)..(l + 1)
  <2>1. nxt[k] = IF TagEnd(b, k) >= k THEN TagEnd(b, k) + 1 ELSE k + 1
    OBVIOUS
  <2> DEFINE t == TagEnd(b, k)
  <2>2. t \in (k - 1)..l
    BY <1>6
  <2> HIDE DEF nxt, t
  <2>3. nxt[k] = IF t >= k THEN t + 1 ELSE k + 1
    BY <2>1 DEF t
  <2>4. nxt[k] \in (k + 1)..(l + 1)
    BY <1>1, <2>2, <2>3
  <2> QED BY <2>1, <2>4
<1>8. ASSUME NEW k \in 1..l
      PROVE  f[k] = IF TagEnd(b, k) >= k THEN f[TagEnd(b, k) + 1] ELSE <<b[k]>> \o f[k + 1]
  <2> DEFINE t == TagEnd(b, k)
             U(x) == UntaggedFrom(c)[x]
  <2>1. t \in (k - 1)..l /\ TagEnd(c, m + k) = m + t /\ c[m + k] = b[k]
    BY <1>2, <1>3, <1>6
  <2>2. m + k \in 1..Len(c) /\ k \in Nat
    BY <1>1
  <2>3. U(m + k) = IF TagEnd(c, m + k) >= m + k THEN U(TagEnd(c, m + k) + 1)
                   ELSE <<c[m + k]>> \o U(m + k + 1)
    BY <1>4, <2>2
  <2>4. \A x \in 1..(l + 1) : f[x] = U(m + x)
    OBVIOUS
  <2> HIDE DEF t, U, f
  <2>5. U(m + k) = IF m + t >= m + k THEN U(m + t + 1) ELSE <<b[k]>> \o U(m + k + 1)
    BY <2>1, <2>3
  <2>6. f[k] = U(m + k) /\ f[k + 1] = U(m + k + 1)
    <3>1. k \in 1..(l + 1) /\ k + 1 \in 1..(l + 1) /\ m + (k + 1) = m + k + 1
      BY <1>1
    <3> QED BY <2>4, <3>1
  <2>7. CASE t >= k
    <3>1. m + t >= m + k /\ t + 1 \in 1..(l + 1) /\ m + (t + 1) = m + t + 1
      BY <1>1, <2>1, <2>2, <2>7
    <3>2. f[t + 1] = U(m + t + 1)
      BY <2>4, <3>1
    <3> QED BY <2>5, <2>6, <2>7, <3>1, <3>2 DEF t
  <2>8. CASE ~(t >= k)
    <3>1. ~(m + t >= m + k)
      BY <1>1, <2>1, <2>2, <2>8
    <3> QED BY <2>5, <2>6, <2>8, <3>1 DEF t
  <2> QED BY <2>7, <2>8
<1>9. f[l + 1] = <<>> /\ f[1] = UntaggedFrom(c)[m + 1]
  <2>1. l + 1 \in 1..(l + 1) /\ 1 \in 1..(l + 1) /\ m + (l + 1) = Len(c) + 1
    BY <1>1
  <2> QED BY <1>4, <2>1
<1> HIDE DEF f, nxt
<1>10. Ahead(l, nxt)
  BY <1>7 DEF Ahead
<1>11. ASSUME NEW k \in 1..l, f[nxt[k]] = g[nxt[k]] PROVE f[k] = g[k]
  <2>1. CASE TagEnd(b, k) >= k
    BY <1>5, <1>7, <1>8, <1>11, <2>1
  <2>2. CASE ~(TagEnd(b, k) >= k)
    BY <1>5, <1>7, <1>8, <1>11, <2>2
  <2> QED BY <2>1, <2>2
<1>12. Alike(f, g, l, nxt)
  BY <1>5, <1>9, <1>11 DEF Alike
<1>13. \A k \in 1..(l + 1) : f[k] = g[k]
  BY <1>1, <1>10, <1>12, SameBackwards
<1>14. 1 \in 1..(l + 1)
  BY <1>1
<1> QED BY <1>9, <1>13, <1>14 DEF Untagged, c, m, g

\* Text without '[' stays.
LEMMA UntaggedPlain ==
  ASSUME NEW S, NEW u \in Seq(S), NEW v \in Seq(S), \A k \in 1..Len(u) : u[k] # 91
  PROVE  Untagged(u \o v) = u \o Untagged(v)
<1> DEFINE c == u \o v
           n == Len(u)
           t == Untagged(v)
           f == UntaggedFrom(c)
           g == [k \in 1..(n + 1) |-> SubSeq(u, k, n) \o t]
           nxt == [k \in 1..n |-> k + 1]
<1>1. n \in Nat /\ c \in Seq(S) /\ Len(c) = n + Len(v) /\ Len(v) \in Nat
  BY ConcatElements
<1>2. t \in Seq(S)
  <2>1. UntaggedFrom(v) \in [1..(Len(v) + 1) -> Seq(S)] /\ 1 \in 1..(Len(v) + 1)
    BY <1>1, UntaggedEquation
  <2> QED BY <2>1 DEF Untagged
<1>3. f[n + 1] = t
  BY UntaggedSuffix
<1>4. ASSUME NEW k \in 1..n PROVE f[k] = <<u[k]>> \o f[k + 1]
  <2>1. k \in 1..Len(c) /\ k \in Nat
    BY <1>1
  <2>2. c[k] = u[k] /\ u[k] # 91
    BY ConcatElements
  <2> HIDE DEF c
  <2>3. TagEnd(c, k) = k - 1 /\ ~(k - 1 >= k)
    BY <2>1, <2>2, NoTagHere
  <2>4. f[k] = IF TagEnd(c, k) >= k THEN f[TagEnd(c, k) + 1] ELSE <<c[k]>> \o f[k + 1]
    BY <1>1, <2>1, UntaggedEquation
  <2> HIDE DEF f
  <2> QED BY <2>2, <2>3, <2>4
<1>5. ASSUME NEW k \in 1..n PROVE g[k] = <<u[k]>> \o g[k + 1]
  <2> DEFINE h == <<u[k]>>
             w == SubSeq(u, k + 1, n)
  <2>1. k \in 1..(n + 1) /\ k + 1 \in 1..(n + 1) /\ k \in Nat /\ k <= n
    BY <1>1
  <2>2. SubSeq(u, k, n) = h \o w
    BY FromHere
  <2>3. h \in Seq(S) /\ w \in Seq(S)
    <3>1. u[k] \in S
      OBVIOUS
    <3>2. w \in Seq(S)
      BY <1>1, <2>1
    <3> QED BY <3>1, <3>2
  <2>4. g[k] = SubSeq(u, k, n) \o t /\ g[k + 1] = w \o t
    BY <2>1
  <2> HIDE DEF h, w, t, g
  <2>5. (h \o w) \o t = h \o (w \o t)
    BY <1>2, <2>3
  <2> QED BY <2>2, <2>4, <2>5, Zenon DEF h
<1>6. g[n + 1] = t /\ g[1] = u \o t
  <2>1. SubSeq(u, n + 1, n) = <<>> /\ SubSeq(u, 1, n) = u
    BY <1>1
  <2>2. 1 \in 1..(n + 1) /\ n + 1 \in 1..(n + 1)
    BY <1>1
  <2>3. <<>> \o t = t
    <3> HIDE DEF t
    <3> QED BY <1>2
  <2> HIDE DEF t, n
  <2> QED BY <2>1, <2>2, <2>3
<1>7. \A k \in 1..n : nxt[k] = k + 1
  OBVIOUS
<1> HIDE DEF f, g, nxt, n, t
<1>8. Ahead(n, nxt)
  BY <1>1, <1>7 DEF Ahead
<1>9. Alike(f, g, n, nxt)
  <2>1. ASSUME NEW k \in 1..n, f[nxt[k]] = g[nxt[k]] PROVE f[k] = g[k]
    <3>1. f[k + 1] = g[k + 1]
      BY <2>1, <1>7
    <3> QED BY <3>1, <1>4, <1>5
  <2> QED BY <1>3, <1>6, <2>1 DEF Alike
<1>10. \A k \in 1..(n + 1) : f[k] = g[k]
  BY <1>1, <1>8, <1>9, SameBackwards
<1>11. f[1] = g[1]
  BY <1>1, <1>10
<1> QED BY <1>6, <1>11 DEF Untagged, f, t, c

\* Texts over S have tags, p closes none, v begins with no blank, and p as a tag.
HasTags(S) == {32, 91, 93} \subseteq S
NoClosing(p) == \A k \in 1..Len(p) : p[k] # 93
Solid(v) == v = <<>> \/ ~IsBlank(v[1])
Bracketed(p) == <<91>> \o p \o <<93, 32>>

\* A tag goes, and with it the blank behind it.
LEMMA UntaggedTag ==
  ASSUME NEW S, HasTags(S), NEW p \in Seq(S), NoClosing(p), NEW v \in Seq(S), Solid(v),
         NEW tag, tag = Bracketed(p)
  PROVE  Untagged(tag \o v) = Untagged(v)
<1> DEFINE o == <<91>> \o p
           z == <<93, 32>>
           t == o \o z
           c == t \o v
           n == Len(p)
<1>1. n \in Nat /\ o \in Seq(S) /\ Len(o) = n + 1 /\ o[1] = 91 /\ \A k \in 1..n : o[k + 1] = p[k]
  BY DEF HasTags
<1>2. z \in Seq(S) /\ Len(z) = 2 /\ z[1] = 93 /\ z[2] = 32
  BY DEF HasTags
<1> HIDE DEF o, z, n
<1>3. /\ t \in Seq(S) /\ Len(t) = n + 3 /\ \A k \in 1..(n + 1) : t[k] = o[k]
      /\ \A k \in 1..2 : t[n + 1 + k] = z[k]
  <2>1. /\ t \in Seq(S) /\ Len(t) = Len(o) + Len(z) /\ \A k \in 1..Len(o) : t[k] = o[k]
        /\ \A k \in 1..Len(z) : t[Len(o) + k] = z[k]
    <3>1. o \in Seq(S) /\ z \in Seq(S)
      BY <1>1, <1>2
    <3> QED BY <3>1
  <2> HIDE DEF t
  <2> QED BY <1>1, <1>2, <2>1
<1> HIDE DEF t
<1>4. /\ t[1] = 91 /\ t[n + 2] = 93 /\ t[n + 3] = 32
      /\ \A k \in 1..(n + 1) : t[k] # 93
  <2>1. n + 1 + 1 = n + 2 /\ n + 1 + 2 = n + 3 /\ 1 \in 1..(n + 1)
    BY <1>1
  <2>2. t[1] = 91 /\ t[n + 2] = 93 /\ t[n + 3] = 32
    <3>1. t[n + 1 + 1] = z[1] /\ t[n + 1 + 2] = z[2] /\ t[1] = o[1]
      BY <1>3, <2>1
    <3> QED BY <1>1, <1>2, <2>1, <3>1
  <2>3. ASSUME NEW k \in 1..(n + 1) PROVE t[k] # 93
    <3>1. CASE k = 1
      BY <2>2, <3>1
    <3>2. CASE k # 1
      <4>1. k - 1 \in 1..n /\ (k - 1) + 1 = k
        BY <1>1, <3>2
      <4>2. o[(k - 1) + 1] = p[k - 1] /\ p[k - 1] # 93
        BY <1>1, <4>1 DEF n, NoClosing
      <4> QED BY <1>3, <4>1, <4>2
    <3> QED BY <3>1, <3>2
  <2> QED BY <2>2, <2>3
<1>5. /\ c \in Seq(S) /\ Len(c) = n + 3 + Len(v) /\ Len(v) \in Nat
      /\ \A k \in 1..(n + 3) : c[k] = t[k]
      /\ \A k \in 1..Len(v) : c[n + 3 + k] = v[k]
  <2>1. /\ c \in Seq(S) /\ Len(c) = Len(t) + Len(v) /\ Len(v) \in Nat
        /\ \A k \in 1..Len(t) : c[k] = t[k]
        /\ \A k \in 1..Len(v) : c[Len(t) + k] = v[k]
    <3>1. t \in Seq(S)
      BY <1>3
    <3> QED BY <3>1
  <2> HIDE DEF c
  <2> QED BY <1>3, <2>1
<1> HIDE DEF c
<1>6. /\ c[1] = 91 /\ c[n + 2] = 93 /\ c[n + 3] = 32
      /\ \A k \in 1..(n + 1) : c[k] # 93
  <2>1. 1 \in 1..(n + 3) /\ n + 2 \in 1..(n + 3) /\ n + 3 \in 1..(n + 3)
    BY <1>1
  <2>2. \A k \in 1..(n + 1) : k \in 1..(n + 3)
    BY <1>1
  <2>3. \A k \in 1..(n + 3) : c[k] = t[k]
    BY <1>5
  <2>4. c[1] = 91 /\ c[n + 2] = 93 /\ c[n + 3] = 32
    BY <1>4, <2>1, <2>3
  <2>5. ASSUME NEW k \in 1..(n + 1) PROVE c[k] # 93
    <3>1. c[k] = t[k]
      BY <2>2, <2>3
    <3> QED BY <1>4, <3>1
  <2> QED BY <2>4, <2>5
<1>7. n + 3 = Len(c) \/ ~IsBlank(c[n + 3 + 1])
  <2>1. CASE v = <<>>
    <3>1. Len(v) = 0
      BY <2>1
    <3> QED BY <1>1, <1>5, <3>1
  <2>2. CASE v # <<>>
    <3>1. 1 \in 1..Len(v)
      BY <1>5, <2>2
    <3>2. c[n + 3 + 1] = v[1]
      BY <1>5, <3>1
    <3> QED BY <2>2, <3>2 DEF Solid
  <2> QED BY <2>1, <2>2
<1>8. IsTag(c, 1, n + 2, n + 3)
  <2>1. n + 2 \in 1..Len(c) /\ n + 3 \in (n + 2)..Len(c)
    BY <1>1, <1>5
  <2>2. ASSUME NEW x \in 1..Len(c), c[x] = 93 PROVE n + 2 <= x
    <3>1. ~(x \in 1..(n + 1))
      BY <1>6, <2>2
    <3> QED BY <1>1, <1>5, <3>1
  <2>3. ASSUME NEW x \in (n + 2 + 1)..(n + 3) PROVE IsBlank(c[x])
    <3>1. x = n + 3
      BY <1>1
    <3> QED BY <1>6, <3>1 DEF IsBlank
  <2> QED BY <1>6, <1>7, <2>1, <2>2, <2>3 DEF IsTag
<1>9. 1 \in 1..Len(c) /\ n + 3 >= 1 /\ n + 3 + 1 = Len(t) + 1
  BY <1>1, <1>3, <1>5
<1>10. TagEnd(c, 1) = n + 3
  <2> DEFINE e == n + 2
             q == n + 3
  <2>1. IsTag(c, 1, e, q)
    BY <1>8
  <2> HIDE DEF e, q
  <2>2. c \in Seq(S) /\ 1 \in 1..Len(c) /\ c[1] = 91
    BY <1>5, <1>6, <1>9
  <2>3. TagEnd(c, 1) = q
    BY <2>1, <2>2, TagIs
  <2> QED BY <2>3, Zenon DEF q
<1>11. UntaggedFrom(c)[1] = UntaggedFrom(c)[n + 3 + 1]
  <2>1. UntaggedFrom(c)[1] = IF TagEnd(c, 1) >= 1 THEN UntaggedFrom(c)[TagEnd(c, 1) + 1]
                             ELSE <<c[1]>> \o UntaggedFrom(c)[1 + 1]
    BY <1>5, <1>9, UntaggedEquation
  <2> QED BY <1>9, <1>10, <2>1
<1>12. UntaggedFrom(c)[Len(t) + 1] = Untagged(v)
  BY <1>3, UntaggedSuffix DEF c
<1> QED BY <1>9, <1>11, <1>12 DEF Untagged, Bracketed, c, t, o, z

-----------------------------------------------------------------------------
(* join. *)

\* The recursion of JoinFrom is well founded.
LEMMA JoinEquation ==
  ASSUME NEW S, NEW sep \in Seq(S), NEW parts \in Seq(Seq(S))
  PROVE  /\ JoinFrom(sep, parts) \in [1..(Len(parts) + 1) -> Seq(S)]
         /\ JoinFrom(sep, parts)[Len(parts) + 1] = <<>>
         /\ \A k \in 1..Len(parts) :
              JoinFrom(sep, parts)[k] = IF k = Len(parts) THEN parts[k]
                                        ELSE parts[k] \o (sep \o JoinFrom(sep, parts)[k + 1])
<1> DEFINE n == Len(parts)
           V == Seq(S)
           R(f) == f = [k \in 1..(n + 1) |->
                     IF k > n THEN <<>>
                     ELSE IF k = n THEN parts[k]
                     ELSE parts[k] \o (sep \o f[k + 1])]
           nxt == [k \in 1..n |-> k + 1]
           step == [k \in 1..n |-> [v \in V |-> IF k = n THEN parts[k] ELSE parts[k] \o (sep \o v)]]
<1>1. n \in Nat /\ <<>> \in V
  OBVIOUS
<1>2. ASSUME NEW k \in 1..n PROVE nxt[k] = k + 1 /\ k + 1 \in 1..(n + 1) /\ step[k] \in [V -> V]
  <2>1. parts[k] \in Seq(S)
    OBVIOUS
  <2>2. \A v \in V : parts[k] \o (sep \o v) \in V
    BY <2>1
  <2>3. step[k] \in [V -> V]
    BY <2>1, <2>2
  <2>4. nxt[k] = k + 1 /\ k + 1 \in 1..(n + 1)
    BY <1>1
  <2> QED BY <2>3, <2>4
<1>3. PICK f \in [1..(n + 1) -> V] :
        f[n + 1] = <<>> /\ \A k \in 1..n : f[k] = step[k][f[nxt[k]]]
  <2>1. Ahead(n, nxt) /\ Steps(n, V, step)
    <3>1. Steps(n, V, step)
      BY <1>2 DEF Steps
    <3> HIDE DEF n, V, step
    <3>2. Ahead(n, nxt)
      BY <1>1 DEF Ahead
    <3> QED BY <3>1, <3>2
  <2> DEFINE base == <<>>
  <2>2. base \in V
    BY <1>1
  <2> HIDE DEF n, V, nxt, step, base
  <2>3. \E f \in [1..(n + 1) -> V] : Recursion(f, n, base, nxt, step)
    BY <1>1, <2>1, <2>2, Backwards
  <2> QED BY <2>3 DEF base, Recursion
<1>4. ASSUME NEW k \in 1..n
      PROVE  f[k] = IF k = n THEN parts[k] ELSE parts[k] \o (sep \o f[k + 1])
  <2>1. f[k + 1] \in V
    BY <1>2
  <2>2. f[k] = step[k][f[k + 1]]
    <3> HIDE DEF nxt, step
    <3> QED BY <1>2, <1>3
  <2> QED BY <2>1, <2>2
<1>5. R(f)
  <2>1. f = [k \in 1..(n + 1) |-> f[k]]
    OBVIOUS
  <2>2. ASSUME NEW k \in 1..(n + 1)
        PROVE  f[k] = IF k > n THEN <<>>
                      ELSE IF k = n THEN parts[k] ELSE parts[k] \o (sep \o f[k + 1])
    <3>1. CASE k = n + 1
      <4>1. k > n
        BY <3>1, <1>1
      <4>2. f[k] = <<>>
        BY <3>1, <1>3
      <4> QED BY <4>1, <4>2
    <3>2. CASE k # n + 1
      <4>1. k \in 1..n /\ ~(k > n)
        BY <3>2, <1>1
      <4> QED BY <4>1, <1>4
    <3> QED BY <3>1, <3>2
  <2> QED BY <2>1, <2>2
<1> DEFINE g == CHOOSE h : R(h)
<1>6. R(g)
  <2> HIDE DEF R
  <2> QED BY <1>5
<1>7. JoinFrom(sep, parts) = g
  BY DEF JoinFrom
<1> HIDE DEF g
<1> DEFINE G(k) == IF k > n THEN <<>>
                   ELSE IF k = n THEN parts[k] ELSE parts[k] \o (sep \o g[k + 1])
<1>8. g = [k \in 1..(n + 1) |-> G(k)]
  BY <1>6
<1>9. g = [k \in 1..(n + 1) |-> g[k]] /\ \A k \in 1..(n + 1) : g[k] = G(k)
  <2> HIDE DEF G, n
  <2> QED BY <1>8
<1>10. g[n + 1] = <<>>
  <2>1. n + 1 \in 1..(n + 1) /\ n + 1 > n
    BY <1>1
  <2> QED BY <2>1, <1>9
<1>11. ASSUME NEW k \in 1..n PROVE g[k] = IF k = n THEN parts[k] ELSE parts[k] \o (sep \o g[k + 1])
  <2>1. k \in 1..(n + 1) /\ ~(k > n)
    BY <1>1
  <2> QED BY <2>1, <1>9
<1>12. \A k \in 1..(n + 1) : f[k] = g[k]
  <2>1. \A k \in 1..n : nxt[k] = k + 1
    OBVIOUS
  <2> HIDE DEF nxt, n
  <2>2. Ahead(n, nxt)
    BY <1>1, <2>1 DEF Ahead
  <2>3. ASSUME NEW k \in 1..n, f[nxt[k]] = g[nxt[k]] PROVE f[k] = g[k]
    <3>1. f[k + 1] = g[k + 1]
      BY <2>1, <2>3
    <3> QED BY <3>1, <1>4, <1>11
  <2>4. Alike(f, g, n, nxt)
    BY <1>3, <1>10, <2>3 DEF Alike
  <2> QED BY <1>1, <2>2, <2>4, SameBackwards
<1>13. g \in [1..(n + 1) -> V]
  <2> HIDE DEF n, V
  <2>1. \A k \in 1..(n + 1) : g[k] \in V
    BY <1>12, <1>3
  <2> QED BY <2>1, <1>9
<1> QED BY <1>7, <1>10, <1>11, <1>13

\* Joined text is text.
LEMMA JoinType ==
  ASSUME NEW S, NEW sep \in Seq(S), NEW parts \in Seq(Seq(S))
  PROVE  Join(sep, parts) \in Seq(S)
<1>1. 1 \in 1..(Len(parts) + 1)
  OBVIOUS
<1>2. JoinFrom(sep, parts) \in [1..(Len(parts) + 1) -> Seq(S)]
  BY JoinEquation
<1> QED BY <1>1, <1>2 DEF Join

-----------------------------------------------------------------------------
(* The rows of the script and the filter of the search. *)

Byte == 1..255
Sense == [pos : Seq(Seq(Byte)), gloss : Seq(Seq(Byte))]

\* A line is text, and so are its glosses.
LEMMA LineType ==
  ASSUME NEW s \in Sense
  PROVE  SenseLine(s) \in Seq(Byte) /\ Glosses(s) \in Seq(Byte) /\ Join(<<44, 32>>, s.pos) \in Seq(Byte)
<1> DEFINE p == Join(<<44, 32>>, s.pos)
           g == Glosses(s)
           t == <<91>> \o p \o <<93, 32>>
<1>1. p \in Seq(Byte)
  <2>1. s.pos \in Seq(Seq(Byte)) /\ <<44, 32>> \in Seq(Byte)
    BY DEF Sense, Byte
  <2> QED BY <2>1, JoinType
<1>2. g \in Seq(Byte)
  <2>1. s.gloss \in Seq(Seq(Byte)) /\ <<59, 32>> \in Seq(Byte)
    BY DEF Sense, Byte
  <2> QED BY <2>1, JoinType DEF Glosses
<1>3. SenseLine(s) = (IF s.pos = <<>> THEN <<>> ELSE t) \o g
  BY DEF SenseLine, Tag
<1> HIDE DEF p, g
<1>4. t \in Seq(Byte)
  BY <1>1 DEF Byte
<1> HIDE DEF t
<1>5. SenseLine(s) \in Seq(Byte)
  BY <1>2, <1>3, <1>4
<1> QED BY <1>1, <1>2, <1>5 DEF p, g

\* A line loses its tag, and nothing else.
LEMMA LineUntagged ==
  ASSUME NEW s \in Sense, Unbracketed(s), NEW v \in Seq(Byte), v = <<>> \/ v[1] = 10
  PROVE  Untagged(SenseLine(s) \o v) = Glosses(s) \o Untagged(v)
<1> DEFINE p == Join(<<44, 32>>, s.pos)
           g == Glosses(s)
           w == g \o v
<1>1. p \in Seq(Byte)
  BY LineType
<1>2. g \in Seq(Byte)
  BY LineType
<1>3. NoClosing(p)
  <2>1. DOMAIN p = 1..Len(p) /\ 93 \notin {p[k] : k \in DOMAIN p}
    BY <1>1 DEF Unbracketed, Members
  <2> HIDE DEF p
  <2> QED BY <2>1 DEF NoClosing
<1>4. \A k \in 1..Len(g) : g[k] # 91
  <2>1. DOMAIN g = 1..Len(g) /\ 91 \notin {g[k] : k \in DOMAIN g}
    BY <1>2 DEF Unbracketed, Members
  <2> HIDE DEF g
  <2> QED BY <2>1
<1>5. g = <<>> \/ ~IsBlank(g[1])
  BY DEF Unbracketed
<1>6. SenseLine(s) = (IF s.pos = <<>> THEN <<>> ELSE <<91>> \o p \o <<93, 32>>) \o g
  BY DEF SenseLine, Tag
<1> HIDE DEF p, g
<1>7. w \in Seq(Byte) /\ Untagged(w) = g \o Untagged(v)
  BY <1>2, <1>4, UntaggedPlain
<1>8. Solid(w)
  <2>1. CASE g = <<>>
    <3>1. w = v
      BY <2>1
    <3> QED BY <3>1 DEF IsBlank, Solid
  <2>2. CASE g # <<>>
    <3>1. w[1] = g[1]
      BY <1>2, <2>2
    <3> QED BY <3>1, <2>2, <1>5 DEF Solid
  <2> QED BY <2>1, <2>2
<1>9. CASE s.pos = <<>>
  <2>1. <<>> \o g = g
    BY <1>2
  <2>2. SenseLine(s) \o v = w
    BY <1>6, <1>9, <2>1
  <2> HIDE DEF w
  <2> QED BY <1>7, <2>2 DEF g
<1>10. CASE s.pos # <<>>
  <2> DEFINE t == <<91>> \o p \o <<93, 32>>
  <2>1. t \in Seq(Byte)
    BY <1>1 DEF Byte
  <2>2. Untagged(t \o w) = Untagged(w)
    <3>1. t = Bracketed(p)
      BY DEF Bracketed
    <3>2. w \in Seq(Byte)
      BY <1>7
    <3>3. HasTags(Byte)
      BY DEF HasTags, Byte
    <3> HIDE DEF w, t
    <3> QED BY <1>1, <1>3, <1>8, <3>1, <3>2, <3>3, UntaggedTag
  <2>3. SenseLine(s) = t \o g
    BY <1>6, <1>10
  <2> HIDE DEF t
  <2>4. (t \o g) \o v = t \o w
    BY <1>2, <2>1
  <2> HIDE DEF w
  <2> QED BY <1>7, <2>2, <2>3, <2>4 DEF g
<1> QED BY <1>9, <1>10

\* The lines of an entry, joined, lose their tags and nothing else.
LEMMA EntryUntagged ==
  ASSUME NEW sense \in Seq(Sense), \A s \in Members(sense) : Unbracketed(s)
  PROVE  Untagged(Join(<<10>>, [k \in DOMAIN sense |-> SenseLine(sense[k])]))
           = Join(<<10>>, [k \in DOMAIN sense |-> Glosses(sense[k])])
<1> DEFINE n == Len(sense)
           sep == <<10>>
           lines == [k \in DOMAIN sense |-> SenseLine(sense[k])]
           texts == [k \in DOMAIN sense |-> Glosses(sense[k])]
           r == JoinFrom(sep, lines)
           f == [k \in 1..(n + 1) |-> Untagged(r[k])]
           g == JoinFrom(sep, texts)
           nxt == [k \in 1..n |-> k + 1]
<1>1. n \in Nat /\ DOMAIN sense = 1..n /\ sep \in Seq(Byte) /\ sep # <<>> /\ sep[1] = 10
  BY DEF Byte
<1>2. \A k \in 1..n : sense[k] \in Sense /\ Unbracketed(sense[k])
  BY <1>1 DEF Members
<1>3. \A k \in 1..n : SenseLine(sense[k]) \in Seq(Byte) /\ Glosses(sense[k]) \in Seq(Byte)
  BY <1>2, LineType
<1>4. lines \in Seq(Seq(Byte)) /\ Len(lines) = n /\ \A k \in 1..n : lines[k] = SenseLine(sense[k])
  BY <1>1, <1>3
<1>5. texts \in Seq(Seq(Byte)) /\ Len(texts) = n /\ \A k \in 1..n : texts[k] = Glosses(sense[k])
  BY <1>1, <1>3
<1> HIDE DEF lines, texts, n, sep
<1>6. /\ r \in [1..(n + 1) -> Seq(Byte)] /\ r[n + 1] = <<>>
      /\ \A k \in 1..n : r[k] = IF k = n THEN lines[k] ELSE lines[k] \o (sep \o r[k + 1])
  <2>1. /\ r \in [1..(Len(lines) + 1) -> Seq(Byte)] /\ r[Len(lines) + 1] = <<>>
        /\ \A k \in 1..Len(lines) :
             r[k] = IF k = Len(lines) THEN lines[k] ELSE lines[k] \o (sep \o r[k + 1])
    BY <1>1, <1>4, JoinEquation
  <2> HIDE DEF r
  <2> QED BY <1>4, <2>1
<1>7. /\ g[n + 1] = <<>>
      /\ \A k \in 1..n : g[k] = IF k = n THEN texts[k] ELSE texts[k] \o (sep \o g[k + 1])
  <2>1. /\ g[Len(texts) + 1] = <<>>
        /\ \A k \in 1..Len(texts) :
             g[k] = IF k = Len(texts) THEN texts[k] ELSE texts[k] \o (sep \o g[k + 1])
    BY <1>1, <1>5, JoinEquation
  <2> HIDE DEF g
  <2> QED BY <1>5, <2>1
<1>8. Untagged(<<>>) = <<>>
  <2> DEFINE z == <<>>
  <2>1. z \in Seq(Byte) /\ Len(z) = 0
    OBVIOUS
  <2>2. UntaggedFrom(z)[Len(z) + 1] = <<>>
    <3> HIDE DEF z
    <3> QED BY <2>1, UntaggedEquation
  <2>3. Len(z) + 1 = 1
    BY <2>1
  <2> HIDE DEF z
  <2>4. Untagged(z) = <<>>
    BY <2>2, <2>3 DEF Untagged
  <2> QED BY <2>4 DEF z
<1>9. ASSUME NEW k \in 1..n, NEW v \in Seq(Byte), v = <<>> \/ v[1] = 10
      PROVE  Untagged(lines[k] \o v) = texts[k] \o Untagged(v)
  BY <1>2, <1>4, <1>5, <1>9, LineUntagged
<1> HIDE DEF r, g
<1>10. ASSUME NEW k \in 1..n, k = n PROVE f[k] = g[k]
  <2> DEFINE z == <<>>
             u == texts[k]
  <2>1. z \in Seq(Byte) /\ lines[k] \o z = lines[k] /\ u \in Seq(Byte) /\ u \o z = u
    <3>1. lines[k] \in Seq(Byte) /\ u \in Seq(Byte)
      BY <1>4, <1>5
    <3> QED BY <3>1
  <2>2. Untagged(lines[k] \o z) = u \o Untagged(z)
    BY <1>9, <2>1
  <2>3. Untagged(lines[k]) = u
    <3>1. Untagged(z) = z
      BY <1>8
    <3> HIDE DEF z, u
    <3> QED BY <2>1, <2>2, <3>1
  <2>4. f[k] = Untagged(r[k])
    <3>1. k \in 1..(n + 1)
      BY <1>1
    <3> QED BY <3>1
  <2> HIDE DEF f
  <2>5. r[k] = lines[k] /\ g[k] = u
    BY <1>6, <1>7, <1>10
  <2> QED BY <2>3, <2>4, <2>5
<1>11. ASSUME NEW k \in 1..n, k # n, f[k + 1] = g[k + 1] PROVE f[k] = g[k]
  <2> DEFINE b == r[k + 1]
             v == sep \o b
             u == texts[k]
  <2>1. k \in 1..(n + 1) /\ k + 1 \in 1..(n + 1)
    BY <1>1
  <2>2. b \in Seq(Byte)
    BY <1>6, <2>1
  <2>3. f[k] = Untagged(r[k]) /\ f[k + 1] = Untagged(b)
    BY <2>1
  <2> HIDE DEF b, f
  <2>4. v \in Seq(Byte) /\ v[1] = 10
    BY <1>1, <2>2
  <2>5. Untagged(v) = sep \o Untagged(b)
    <3>1. \A x \in 1..Len(sep) : sep[x] # 91
      BY DEF sep
    <3> QED BY <1>1, <2>2, <3>1, UntaggedPlain
  <2>6. Untagged(lines[k] \o v) = u \o Untagged(v)
    <3> HIDE DEF v
    <3> QED BY <1>9, <2>4
  <2>7. r[k] = lines[k] \o v /\ g[k] = u \o (sep \o g[k + 1])
    BY <1>6, <1>7, <1>11 DEF b
  <2> HIDE DEF v, u
  <2> QED BY <1>11, <2>3, <2>5, <2>6, <2>7, Zenon
<1>12. \A k \in 1..n : nxt[k] = k + 1
  OBVIOUS
<1> HIDE DEF nxt
<1>13. Ahead(n, nxt)
  BY <1>1, <1>12 DEF Ahead
<1>14. ASSUME NEW k \in 1..n, f[nxt[k]] = g[nxt[k]] PROVE f[k] = g[k]
  <2>1. f[k + 1] = g[k + 1]
    BY <1>12, <1>14
  <2> HIDE DEF f
  <2> QED BY <2>1, <1>10, <1>11
<1>15. f[n + 1] = <<>> /\ f[1] = Untagged(r[1])
  <2>1. n + 1 \in 1..(n + 1) /\ 1 \in 1..(n + 1)
    BY <1>1
  <2>2. f[n + 1] = Untagged(r[n + 1]) /\ f[1] = Untagged(r[1])
    BY <2>1
  <2> HIDE DEF f
  <2> QED BY <2>2, <1>6, <1>8
<1> HIDE DEF f
<1>16. Alike(f, g, n, nxt)
  BY <1>7, <1>14, <1>15 DEF Alike
<1>17. \A k \in 1..(n + 1) : f[k] = g[k]
  BY <1>1, <1>13, <1>16, SameBackwards
<1>18. f[1] = g[1]
  BY <1>1, <1>17
<1> QED BY <1>15, <1>18 DEF Join, r, g, sep, lines, texts

\* Every row on disk, without its tags, is the glosses of its entry.
THEOREM RowsWithoutTags == Spec => []TagsAreStripped
<1>1. NoHalfDictionary => TagsAreStripped
  <2> SUFFICES ASSUME NoHalfDictionary, disk.word # NoTable, NEW s \in DOMAIN disk.word
               PROVE  \E j \in Jmdicts : \E e \in Members(j) :
                        /\ e.ent_seq = s /\ disk.word[s] = WordRow(e)
                        /\ (\A sense \in Members(e.sense) : Unbracketed(sense)) =>
                             Untagged(disk.word[s].senses) =
                               Join(<<10>>, [k \in DOMAIN e.sense |-> Glosses(e.sense[k])])
    BY DEF TagsAreStripped
  <2>1. PICK j \in Sound : disk.word = WordsOf(j)
    <3>1. disk.word # <<>>
      <4>1. DOMAIN <<>> = {}
        OBVIOUS
      <4> QED BY <4>1
    <3> QED BY <3>1 DEF NoHalfDictionary
  <2>2. j \in Jmdicts
    BY DEF Sound
  <2> DEFINE keys == {e.ent_seq : e \in Members(j)}
             e == CHOOSE x \in Members(j) : x.ent_seq = s
  <2>3. s \in keys /\ disk.word[s] = WordRow(e)
    <3>1. DOMAIN WordsOf(j) = keys /\ \A x \in keys :
            WordsOf(j)[x] = WordRow(CHOOSE y \in Members(j) : y.ent_seq = x)
      BY DEF WordsOf
    <3> QED BY <2>1, <3>1
  <2>4. e \in Members(j) /\ e.ent_seq = s
    BY <2>3
  <2> HIDE DEF e
  <2>5. ASSUME \A sense \in Members(e.sense) : Unbracketed(sense)
        PROVE  Untagged(disk.word[s].senses) =
                 Join(<<10>>, [k \in DOMAIN e.sense |-> Glosses(e.sense[k])])
    <3>1. e.sense \in Seq(Sense)
      BY <2>2, <2>4, BuildAssumption DEF Sense, Byte
    <3>2. disk.word[s].senses = Join(<<10>>, [k \in DOMAIN e.sense |-> SenseLine(e.sense[k])])
      BY <2>3 DEF WordRow
    <3> QED BY <2>5, <3>1, <3>2, EntryUntagged
  <2> QED BY <2>2, <2>3, <2>4, <2>5
<1> QED BY <1>1, Invariance, PTL DEF Inv
=============================================================================
