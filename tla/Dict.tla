-------------------------------- MODULE Dict --------------------------------
(***************************************************************************)
(* The dictionary: one SQLite handle, one static result array, and         *)
(* searches that fill the array row by row.  A search can end early:       *)
(* prepare fails, or sqlite3_step reports an error instead of the next     *)
(* row.  There are two versions of it: dict.c of the simulator             *)
(* (examples/lvgldemo), linked with romaji.rs, and the library's           *)
(* (Dictionary_Resources), which calls romaji__hira_to_kata too but which  *)
(* no rule of the repository links with one.                               *)
(*                                                                         *)
(* kanji and readings are the lists of their ';'-separated elements: <<>>  *)
(* is SQL NULL and << <<>> >> the empty string.  senses is never split:    *)
(* <<>> is NULL and <<s>> the text s.  A slot's word is the C string that  *)
(* begins at word[0]; it may run into accent[], which follows it.          *)
(***************************************************************************)
EXTENDS Integers, Sequences, Characters

CONSTANTS
  Builds,           \* of "simulator" and "library"
  Table,            \* the rows of table word, in the order SQLite scans them
  Query,            \* the strings a search is asked for
  DICT_MAX_RESULTS, \* 64
  DICT_WORD_LEN,    \* 64
  DICT_ACCENT_LEN,  \* 64
  DICT_DETAIL_LEN,  \* 512
  sanitize(_),      \* copy_field_sanitize: the senses without [...] parts
  HiraToKata(_)     \* romaji__hira_to_kata as a user of the library links it

VARIABLES
  build,            \* which program this is
  g_db,             \* "NULL", "open" or "failed"
  g_results,        \* slot -> [word, detail]
  pc,               \* "idle"; in a search "scan" or "row" (word stored, rest not)
  call,             \* the latest search: its query, and whether it was English
  cursor,           \* rows the statement has not returned yet
  n,                \* rows stored by the latest search
  rc                \* how it ended: "none", "DONE" or "ERROR"

search == <<call, cursor, n, rc>>
vars == <<build, g_db, g_results, pc, search>>

Byte == 1..255
Text == Seq(Seq(Byte \ {59}))
Row == [kanji : Text, readings : Text, senses : Seq(Seq(Byte))]
Slot == 0..(DICT_MAX_RESULTS - 1)

ASSUME SizeAssumption ==
  /\ Builds \subseteq {"simulator", "library"}
  /\ DICT_MAX_RESULTS \in Nat \ {0}
  /\ DICT_WORD_LEN \in Nat \ {0}
  /\ DICT_ACCENT_LEN \in Nat /\ DICT_ACCENT_LEN > 4
  /\ DICT_DETAIL_LEN \in Nat /\ DICT_DETAIL_LEN > 4

ASSUME TableAssumption ==
  /\ Table \in Seq(Row)
  /\ Query \subseteq Seq(Byte \ {37, 59, 95})    \* no % ; or _
  /\ \A k \in DOMAIN Table :
       /\ Len(Table[k].senses) <= 1
       /\ Table[k].senses # <<>> => sanitize(Table[k].senses[1]) \in Seq(Byte)

Elements(text) == {text[k] : k \in DOMAIN text}

\* The database holds text, and copy_field_sanitize only cuts what fills detail[].
ASSUME TextAssumption ==
  \A k \in DOMAIN Table :
    /\ \A e \in Elements(Table[k].kanji) \cup Elements(Table[k].readings) : Whole(e)
    /\ \A e \in Elements(Table[k].senses) :
         Len(sanitize(e)) < DICT_DETAIL_LEN - 1 => Whole(sanitize(e))

-----------------------------------------------------------------------------
(* The WHERE clauses, as SQLite evaluates them. *)

\* In romaji.rs it has no body: the copy stays as it is.
romaji__hira_to_kata(b, s) == IF b = "library" THEN HiraToKata(s) ELSE s

\* LIKE takes the ASCII letters of both cases as equal.
Fold(s) == [k \in DOMAIN s |-> IF s[k] \in 65..90 THEN s[k] + 32 ELSE s[k]]

\* ';' || readings || ';' LIKE '%;' || q || ';%' for either spelling of q.
LikeReading(b, row, q) ==
  \E r \in Elements(row.readings) : Fold(r) \in {Fold(q), Fold(romaji__hira_to_kata(b, q))}

\* senses LIKE '%' || q || '%', over the senses as stored.
LikeSenses(row, q) ==
  \E s \in Elements(row.senses) : \E k \in 0..(Len(s) - Len(q)) :
    SubSeq(Fold(s), k + 1, k + Len(q)) = Fold(q)

Matches(b, c, row) == IF c.en THEN LikeSenses(row, c.query) ELSE LikeReading(b, row, c.query)

\* The rows the WHERE clause accepts, in the order of the table.
Matching(b, c) ==
  LET upTo[k \in 0..Len(Table)] ==
        IF k = 0 THEN <<>>
        ELSE IF Matches(b, c, Table[k]) THEN Append(upTo[k - 1], Table[k]) ELSE upTo[k - 1]
  IN  upTo[Len(Table)]

Shorter(x, y) == IF x < y THEN x ELSE y

\* Mutant: LIMIT is one short.
LimitedShort(rows) == SubSeq(rows, 1, Shorter(Len(rows), DICT_MAX_RESULTS - 1))
Limited(rows) == SubSeq(rows, 1, Shorter(Len(rows), DICT_MAX_RESULTS))

-----------------------------------------------------------------------------
(* Building a slot. *)

\* Mutant: the size of word[] is ignored.
append_whole_element(dst, src) == IF src = <<>> THEN dst ELSE dst \o src[1]

\* Mutant: what does not fit is cut one byte early.
append_cut_early(dst, src) ==
  IF src = <<>> \/ Len(dst) >= DICT_WORD_LEN - 1 THEN dst
  ELSE dst \o SubSeq(src[1], 1, IF Len(src[1]) > DICT_WORD_LEN - Len(dst) - 1
                                THEN DICT_WORD_LEN - Len(dst) - 2 ELSE Len(src[1]))

\* dst is a C string in word[]; only the first element of src is appended, and
\* only as much of it as fits.
append_first_element(dst, src) ==
  IF src = <<>> \/ Len(dst) >= DICT_WORD_LEN - 1 THEN dst
  ELSE dst \o SubSeq(src[1], 1, Shorter(Len(src[1]), DICT_WORD_LEN - Len(dst) - 1))

copy_first_element(src) ==
  IF src = <<>> THEN <<>> ELSE SubSeq(src[1], 1, Shorter(Len(src[1]), DICT_WORD_LEN - 1))

Open == <<32, 40>>      \* " ("
Close == <<41, 32>>     \* ") "
NULLText == <<78, 85, 76, 76>>

\* The kanji if there is one, in the simulator with its reading, else the
\* reading.  strcat does not look at the size of word[].
WordOf(b, row) ==
  LET hasKanji == row.kanji \notin {<<>>, <<<<>>>>}
  IN  CASE b = "library" -> copy_first_element(IF hasKanji THEN row.kanji ELSE row.readings)
        [] b = "simulator" /\ hasKanji ->
             append_first_element(append_first_element(<<>>, row.kanji) \o Open,
                                  row.readings) \o Close
        [] b = "simulator" /\ ~hasKanji -> append_first_element(<<>>, row.readings)

\* At most DICT_DETAIL_LEN - 1 bytes: the last byte of detail[] is always NUL.
DetailOf(b, row) ==
  LET s == IF row.senses # <<>> THEN sanitize(row.senses[1])
           ELSE IF b = "library" THEN <<>> ELSE NULLText
  IN  SubSeq(s, 1, Shorter(Len(s), DICT_DETAIL_LEN - 1))

\* Mutant: the accent is not cleared.
RunsOn(w) == w

\* accent[0] = '\0' also ends a word that ran into accent[].
EndedAtAccent(w) == SubSeq(w, 1, Shorter(Len(w), DICT_WORD_LEN))

\* What a row leaves in its slot.
EntryOf(b, row) == [word |-> EndedAtAccent(WordOf(b, row)), detail |-> DetailOf(b, row)]

-----------------------------------------------------------------------------
Init ==
  /\ build \in Builds
  /\ g_db = "NULL"
  /\ g_results = [k \in Slot |-> [word |-> <<>>, detail |-> <<>>]]
  /\ pc = "idle"
  /\ call = [query |-> <<>>, en |-> FALSE]
  /\ cursor = <<>>
  /\ n = 0
  /\ rc = "none"

\* Called once at start-up (dict.h:15).  A handle that failed to open stays in g_db.
dict_open ==
  /\ pc = "idle" /\ g_db = "NULL"
  /\ g_db' \in {"open", "failed"}
  /\ UNCHANGED <<build, g_results, pc, search>>

dict_close ==
  /\ pc = "idle" /\ g_db # "NULL"
  /\ g_db' = "NULL"
  /\ UNCHANGED <<build, g_results, pc, search>>

\* Mutant: the count of the search before is not reset.
KeepCount == n' = n
ResetCount == n' = 0

\* dict_search and dict_search_en, which only the simulator has, up to the
\* loop: without a statement they return 0 and leave every slot alone.
Prepare(q, en) ==
  /\ pc = "idle" /\ (en => build = "simulator")
  /\ call' = [query |-> q, en |-> en]
  /\ ResetCount
  /\ \/ /\ g_db = "open"
        /\ pc' = "scan"
        /\ cursor' = Limited(Matching(build, call'))
        /\ rc' = "none"
     \/ /\ pc' = "idle"
        /\ cursor' = <<>>
        /\ rc' = "ERROR"
  /\ UNCHANGED <<build, g_db, g_results>>

\* SQLITE_ROW, and the word is put together.
StoreWord ==
  /\ pc = "scan"
  /\ cursor # <<>> /\ n < DICT_MAX_RESULTS
  /\ g_results' = [g_results EXCEPT ![n].word = WordOf(build, Head(cursor))]
  /\ pc' = "row"
  /\ UNCHANGED <<build, g_db, search>>

\* Mutant: the row is counted twice.
CountTwice == n' = n + 2
CountRow == n' = n + 1

\* The detail is copied, the accent cleared, and the row counted.
StoreDetail ==
  /\ pc = "row"
  /\ g_results' = [g_results EXCEPT ![n].detail = DetailOf(build, Head(cursor)),
                                    ![n].word = EndedAtAccent(@)]
  /\ cursor' = Tail(cursor)
  /\ CountRow
  /\ pc' = "scan"
  /\ UNCHANGED <<build, g_db, call, rc>>

\* SQLITE_DONE after the last row, or any error before: the count is returned.
Return ==
  /\ pc = "scan"
  /\ \/ cursor = <<>> /\ rc' = "DONE"
     \/ rc' = "ERROR"
  /\ pc' = "idle"
  /\ UNCHANGED <<build, g_db, g_results, call, cursor, n>>

Search == (\E q \in Query, en \in BOOLEAN : Prepare(q, en)) \/ StoreWord \/ StoreDetail \/ Return
Next == dict_open \/ dict_close \/ Search

Spec == Init /\ [][Next]_vars

-----------------------------------------------------------------------------
(* Properties. *)

TypeOK ==
  /\ build \in Builds
  /\ g_db \in {"NULL", "open", "failed"}
  /\ g_results \in [Slot -> [word : Seq(Byte), detail : Seq(Byte)]]
  /\ pc \in {"idle", "scan", "row"}
  /\ call \in [query : {<<>>} \cup Query, en : BOOLEAN]
  /\ cursor \in Seq(Row)
  /\ n \in 0..DICT_MAX_RESULTS
  /\ rc \in {"none", "DONE", "ERROR"}

\* The strcat calls write past word[] for a long kanji, but at most four bytes
\* and a NUL: they stay inside accent[] and never reach the detail behind it.
WordStaysInSlot ==
  \A k \in Slot : Len(g_results[k].word) + 1 <= DICT_WORD_LEN + DICT_ACCENT_LEN

\* Between searches no word is longer than word[], and in the library, which
\* never runs over (test_dict.c:49), a word always leaves room for its NUL, as a
\* detail does: accent[0] = '\0' ends the words that strcat made too long.
StringsEnd ==
  \A k \in Slot :
    /\ pc = "idle" => Len(g_results[k].word) <= DICT_WORD_LEN
    /\ build = "library" => Len(g_results[k].word) < DICT_WORD_LEN
    /\ Len(g_results[k].detail) < DICT_DETAIL_LEN

\* Text is cut at a byte and not at a character, but only text that fills its
\* array: a word or detail with room left is whole, whatever was cut off the
\* kanji, the reading or the senses.
WholeUnlessFull ==
  pc = "idle" =>
    \A k \in Slot :
      /\ Len(g_results[k].word) < DICT_WORD_LEN - 1 => Whole(g_results[k].word)
      /\ Len(g_results[k].detail) < DICT_DETAIL_LEN - 1 => Whole(g_results[k].detail)

\* The slots below the returned count hold the answer to the latest query, in
\* the order of the table: rows of earlier searches, whose slots are reused
\* and never cleared, do not show through, whether or not the scan failed.
AnswersLatestQuery ==
  pc = "idle" =>
    LET rows == Matching(build, call)
    IN  \A k \in 0..(n - 1) : k + 1 <= Len(rows) /\ g_results[k] = EntryOf(build, rows[k + 1])

\* A scan that SQLite ends with DONE leaves no match out but for the cap.
CompleteWhenDone ==
  (pc = "idle" /\ rc = "DONE") => n = Shorter(Len(Matching(build, call)), DICT_MAX_RESULTS)

\* The rows, and the search loop over them, implement DictService: the answer
\* is the first n slots, and it is not valid while a search is under way.
FullAnswer(c) ==
  LET rows == Limited(Matching(c.build, c))
  IN  [k \in DOMAIN rows |-> EntryOf(c.build, rows[k])]

Service == INSTANCE DictService WITH
  Question <- [query : {<<>>} \cup Query, en : BOOLEAN, build : Builds],
  Full <- FullAnswer,
  asked <- [query |-> call.query, en |-> call.en, build |-> build],
  valid <- pc = "idle",
  answer <- IF pc = "idle" THEN [k \in 1..n |-> g_results[k - 1]] ELSE <<>>

ImplementsDictService == Service!Spec

-----------------------------------------------------------------------------
(* What the documents and tests say of a search and the code does not do.  *)

\* "lookup matches by kanji or reading" (Dictionary_Resources/README.md:28).
FoundByKanji ==
  (pc = "idle" /\ rc = "DONE" /\ ~call.en /\ call.query # <<>>) =>
    \A k \in DOMAIN Table : call.query \in Elements(Table[k].kanji) => n > 0

\* "implemented katakana search to fix holes in database lookup" (BrigmanIanLog.txt:191):
\* a word whose reading is the query in katakana is found.
FoundByKatakana ==
  (pc = "idle" /\ rc = "DONE" /\ ~call.en) =>
    \A x \in DOMAIN Table : HiraToKata(call.query) \in Elements(Table[x].readings) =>
      n = DICT_MAX_RESULTS \/ \E k \in 0..(n - 1) : g_results[k] = EntryOf(build, Table[x])
=============================================================================
