------------------------------ MODULE BuildDb ------------------------------
(***************************************************************************)
(* Dictionary_Resources/build_db.py: builds dict.db from JMdict and        *)
(* KANJIDIC.  The script is run again and again, on the same or on newer   *)
(* files, and may end at any point: it is killed, a file is missing or     *)
(* malformed, or SQLite refuses a row.  What it has not committed is lost. *)
(*                                                                         *)
(* A table is a function from its key to the row (word_form, without a     *)
(* key, is a set); NoTable is a table that does not exist.  executescript  *)
(* runs outside a transaction, so every statement of it is on disk at      *)
(* once; the INSERTs open a transaction that lasts until commit().         *)
(***************************************************************************)
EXTENDS SanitizeRef

CONSTANTS
  Jmdicts,      \* JMdict files: sequences of [ent_seq, kanji, readings, sense]
  Kanjidics,    \* KANJIDIC files: sequences of [literal, info]
  NoTable,
  MAX_FAILURES  \* bound: runs that end early for a reason outside the script

VARIABLES
  disk,     \* dict.db as another process would read it
  tx,       \* dict.db as the script's connection sees it
  jmdict, kanjidic,     \* the files of the run
  pc,       \* "off", "schema", "words", "kanji", or "done": built and closed
  next,     \* the statement, entry or character that comes next
  failures

input == <<jmdict, kanjidic>>
vars == <<disk, tx, input, pc, next, failures>>

Members(s) == {s[k] : k \in DOMAIN s}

\* A file that breaks off, or has a form, a part of speech or a gloss without text
\* (None, which join refuses), stands for a run that ends early.
ASSUME BuildAssumption ==
  /\ \A file \in Jmdicts \cup Kanjidics : file \in Seq(Members(file))
  /\ \A j \in Jmdicts : \A e \in Members(j) :
       /\ e.ent_seq \in Nat /\ <<>> \notin Members(e.kanji) \cup Members(e.readings)
       /\ e.sense \in Seq([pos : Seq(Seq(1..255)), gloss : Seq(Seq(1..255))])
  /\ Kanjidics # {} /\ Jmdicts # {}
  /\ MAX_FAILURES \in Nat

Running == pc \in {"schema", "words", "kanji"}

Init ==
  /\ disk = [word |-> NoTable, word_form |-> NoTable, kanji |-> NoTable]
  /\ tx = disk
  /\ jmdict \in Jmdicts /\ kanjidic \in Kanjidics
  /\ pc = "off"
  /\ next = 1
  /\ failures = 0

-----------------------------------------------------------------------------
(* Rows. *)

\* sep.join(parts), and what of it each part begins.
JoinFrom(sep, parts) ==
  LET rest[k \in 1..(Len(parts) + 1)] ==
        IF k > Len(parts) THEN <<>>
        ELSE IF k = Len(parts) THEN parts[k]
        ELSE parts[k] \o (sep \o rest[k + 1])
  IN  rest

Join(sep, parts) == JoinFrom(sep, parts)[1]

\* ";".join, kept as the list of its elements: no element is the empty text.
Joined(parts) == IF parts = <<>> THEN <<<<>>>> ELSE parts

\* Mutant: round brackets.
RoundTag(pos) == <<40>> \o Join(<<44, 32>>, pos) \o <<41, 32>>
Tag(pos) == <<91>> \o Join(<<44, 32>>, pos) \o <<93, 32>>

Glosses(s) == Join(<<59, 32>>, s.gloss)

\* One line per sense: "[pos, pos] gloss; gloss".
SenseLine(s) == (IF s.pos = <<>> THEN <<>> ELSE Tag(s.pos)) \o Glosses(s)

WordRow(e) ==
  [readings |-> Joined(e.readings), kanji |-> Joined(e.kanji),
   senses |-> Join(<<10>>, [k \in DOMAIN e.sense |-> SenseLine(e.sense[k])])]

\* Mutant: only the kanji forms are indexed.
FormsOfKanji(e) == {<<f, e.ent_seq>> : f \in Members(e.kanji)}
Forms(e) == {<<f, e.ent_seq>> : f \in Members(e.kanji) \cup Members(e.readings)}

\* Mutant: the first row of a key stays.
PutIfNew(table, key, row) ==
  [k \in DOMAIN table \cup {key} |-> IF k \in DOMAIN table THEN table[k] ELSE row]

\* INSERT, or INSERT OR REPLACE where the key exists.
Put(table, key, row) == [k \in DOMAIN table \cup {key} |-> IF k = key THEN row ELSE table[k]]

-----------------------------------------------------------------------------
(* A run of the script. *)

Begin(phase) == pc' = phase /\ next' = 1

Start(j, k) ==
  /\ ~Running
  /\ jmdict' = j /\ kanjidic' = k
  /\ Begin("schema")
  /\ UNCHANGED <<disk, tx, failures>>

\* The statements of executescript (the index goes with its table).
Script == << <<"drop", "word">>,   <<"drop", "word_form">>,   <<"drop", "kanji">>,
             <<"create", "word">>, <<"create", "word_form">>, <<"create", "kanji">> >>

EmptyTable(name) == IF name = "word_form" THEN {} ELSE <<>>

executescript ==
  /\ pc = "schema"
  /\ LET s == Script[next]
     IN  tx' = [tx EXCEPT ![s[2]] = IF s[1] = "drop" THEN NoTable ELSE EmptyTable(s[2])]
  /\ disk' = tx'
  /\ IF next = Len(Script) THEN Begin("words") ELSE next' = next + 1 /\ UNCHANGED pc
  /\ UNCHANGED <<input, failures>>

\* Mutant: every row is committed on its own.
AutoCommit == disk' = tx'

\* An INSERT stays in the transaction.
InTransaction == UNCHANGED disk

\* ent_seq is a primary key: a second entry with the same one is refused.
Duplicate == pc = "words" /\ next <= Len(jmdict) /\ jmdict[next].ent_seq \in DOMAIN tx.word

InsertWord ==
  /\ pc = "words" /\ next <= Len(jmdict) /\ ~Duplicate
  /\ LET e == jmdict[next]
     IN  tx' = [tx EXCEPT !.word = Put(@, e.ent_seq, WordRow(e)), !.word_form = @ \cup Forms(e)]
  /\ InTransaction
  /\ next' = next + 1
  /\ UNCHANGED <<input, pc, failures>>

CommitWords ==
  /\ pc = "words" /\ next > Len(jmdict)
  /\ disk' = tx
  /\ Begin("kanji")
  /\ UNCHANGED <<tx, input, failures>>

InsertKanji ==
  /\ pc = "kanji" /\ next <= Len(kanjidic)
  /\ LET c == kanjidic[next] IN tx' = [tx EXCEPT !.kanji = Put(@, c.literal, c.info)]
  /\ InTransaction
  /\ next' = next + 1
  /\ UNCHANGED <<input, pc, failures>>

CommitAndClose ==
  /\ pc = "kanji" /\ next > Len(kanjidic)
  /\ disk' = tx
  /\ pc' = "done"
  /\ UNCHANGED <<tx, input, next, failures>>

\* The process ends, and SQLite rolls back what is not committed.
Roll == pc' = "off" /\ tx' = disk /\ UNCHANGED <<disk, input, next>>

\* IntegrityError: nothing catches it.
Abort == Duplicate /\ Roll /\ UNCHANGED failures

\* Killed, or an exception of the parser or of the file system.
Fail == Running /\ failures < MAX_FAILURES /\ failures' = failures + 1 /\ Roll

build == executescript \/ InsertWord \/ CommitWords \/ InsertKanji \/ CommitAndClose \/ Abort

Next == (\E j \in Jmdicts, k \in Kanjidics : Start(j, k)) \/ build \/ Fail

Spec == Init /\ [][Next]_vars

-----------------------------------------------------------------------------
(* Properties. *)

\* The words of a file by their key, if no two of them share it, and its
\* characters: of a literal the last one.
Sound == {j \in Jmdicts : \A x, y \in DOMAIN j : j[x].ent_seq = j[y].ent_seq => x = y}
WordsOf(j) == [s \in {e.ent_seq : e \in Members(j)} |->
                 WordRow(CHOOSE e \in Members(j) : e.ent_seq = s)]
KanjiOf(k) == [l \in {c.literal : c \in Members(k)} |->
                 k[CHOOSE x \in DOMAIN k : /\ k[x].literal = l
                                           /\ \A y \in DOMAIN k : k[y].literal = l => y <= x].info]

\* Whoever opens dict.db finds no words or all the words of one sound file: no
\* run that fails, and no run after another, leaves part of a dictionary or a
\* mix of two.
NoHalfDictionary == disk.word \in {NoTable, <<>>} \cup {WordsOf(j) : j \in Sound}

\* Where both tables exist, word_form leads to exactly the words there are, by
\* every kanji form and every reading: also after a failure between the two.
FormsOfWords ==
  (disk.word # NoTable /\ disk.word_form # NoTable) =>
    disk.word_form = UNION {{<<f, s>> : f \in (Members(disk.word[s].kanji)
                                              \cup Members(disk.word[s].readings)) \ {<<>>}}
                            : s \in DOMAIN disk.word}

\* A run that ends well leaves what its own files say, whatever earlier runs,
\* finished or not, have left behind.
LastRunWins == pc = "done" => disk.word = WordsOf(jmdict) /\ disk.kanji = KanjiOf(kanjidic)

\* A sense whose own text cannot be taken for the brackets of a tag.
Unbracketed(s) ==
  /\ 93 \notin Members(Join(<<44, 32>>, s.pos)) /\ 91 \notin Members(Glosses(s))
  /\ Glosses(s) = <<>> \/ ~IsBlank(Glosses(s)[1])

\* The tags the script writes are the tags copy_field_sanitize takes out: every
\* row on disk is the row of an entry, and without its tags it is the glosses of
\* that entry, line by line, with nothing of the parts of speech and nothing lost.
TagsAreStripped ==
  disk.word # NoTable =>
    \A s \in DOMAIN disk.word : \E j \in Jmdicts : \E e \in Members(j) :
      /\ e.ent_seq = s /\ disk.word[s] = WordRow(e)
      /\ (\A sense \in Members(e.sense) : Unbracketed(sense)) =>
           Untagged(disk.word[s].senses) =
             Join(<<10>>, [k \in DOMAIN e.sense |-> Glosses(e.sense[k])])
=============================================================================
