---------------------------- MODULE DeviceProofs ----------------------------
(***************************************************************************)
(* Theorems about the whole application, for every table, alphabet and     *)
(* size: module Device implements PocketUI and its dictionary part         *)
(* implements Dict.  So the inductive invariants of those two modules hold *)
(* in Device, and with what relates the two, the rows on the screen answer *)
(* the latest query.                                                       *)
(*                                                                         *)
(* UP is UI with the lemmas of PocketUIProofs, and DP is D with those of   *)
(* DictProofs.                                                             *)
(***************************************************************************)
EXTENDS Device, Lemmas

UP == INSTANCE PocketUIProofs WITH
  tty <- Pending,
  g_results <- IF task = "none" THEN g_results ELSE before

DP == INSTANCE DictProofs WITH
  Builds <- {"simulator"}, build <- "simulator", HiraToKata <- NoShift,
  Query <- Asked, DICT_MAX_RESULTS <- MAX_RESULTS, pc <- dpc

-----------------------------------------------------------------------------
(* The modules' own lemmas, their assumptions discharged. *)

\* A step of PocketUI keeps the invariants of PocketUIProofs.
LEMMA UIStep ==
  ASSUME UP!TypeOK, UP!ScreenInv, [UP!Next]_(UP!vars)
  PROVE  UP!TypeOK' /\ UP!ScreenInv'
<1> USE SizeAssumption, KeyAssumption, KanaAssumption, HitsAssumption
    DEF Word, UP!Word, Reading, UP!Reading, Byte, UP!Byte, Command, UP!Command, DEL, UP!DEL,
        CR, UP!CR, LF, UP!LF, One, UP!One, Two, UP!Two, Three, UP!Three, Four, UP!Four
<1>1. UP!TypeOK'
  BY UP!TypeStep
<1>2. UP!ScreenInv'
  BY <1>1, UP!ScreenStep
<1> QED BY <1>1, <1>2

\* A step of Dict keeps the invariant of DictProofs.
LEMMA DictStep ==
  ASSUME DP!Inv, [DP!Next]_(DP!vars)
  PROVE  DP!Inv'
  BY DP!InvNext, TableAssumption
     DEF D!Whole, DP!Whole, D!WholeAt, DP!WholeAt, D!Continuing, DP!Continuing, D!Row, DP!Row, D!Byte, DP!Byte,
         D!Text, DP!Text, D!Elements, DP!Elements

\* The rows of an answer (LimitedRows of DictProofs).
LEMMA DictRows ==
  ASSUME NEW b, NEW c
  PROVE  /\ DP!Matching(b, c) \in Seq(DP!Rows)
         /\ DP!Limited(DP!Matching(b, c)) \in Seq(DP!Rows)
         /\ Len(DP!Limited(DP!Matching(b, c))) = DP!Shorter(Len(DP!Matching(b, c)), MAX_RESULTS)
         /\ \A k \in 1..Len(DP!Limited(DP!Matching(b, c))) :
              /\ k <= Len(DP!Matching(b, c))
              /\ DP!Limited(DP!Matching(b, c))[k] = DP!Matching(b, c)[k]
  BY DP!LimitedRows, TableAssumption
     DEF D!Whole, DP!Whole, D!WholeAt, DP!WholeAt, D!Continuing, DP!Continuing, D!Row, DP!Row, D!Byte, DP!Byte,
         D!Text, DP!Text, D!Elements, DP!Elements

\* UP's steps are UI's.
LEMMA SameStep == [UI!Next]_(UI!vars) => [UP!Next]_(UP!vars)
<1>0. UI!TopByte = UP!TopByte
  BY DEF UI!TopByte, UP!TopByte
<1>1. UI!InitDisplay => UP!InitDisplay
  BY Zenon
    DEF UI!InitDisplay, UP!InitDisplay, UI!typing, UP!typing, UI!found, UP!found, UI!window,
        UP!window
<1>2. UI!OpenDb => UP!OpenDb
  BY Zenon
    DEF UI!OpenDb, UP!OpenDb, UI!typing, UP!typing, UI!found, UP!found, UI!window, UP!window
<1>3. UI!FirstSearch => UP!FirstSearch
  BY Zenon
    DEF UI!FirstSearch, UP!FirstSearch, UI!Found, UP!Found, UI!Capped, UP!Capped, UI!Filled,
        UP!Filled, UI!Slot, UP!Slot, UI!typing, UP!typing, UI!window, UP!window
<1>4. UI!create_ui => UP!create_ui
  BY Zenon
    DEF UI!create_ui, UP!create_ui, UI!update_search_bar, UP!update_search_bar, UI!found,
        UP!found, UI!ShowWindow, UP!ShowWindow, UI!Row, UP!Row, UI!update_results,
        UP!update_results
<1>5. ASSUME NEW c PROVE UI!TypeLetter(c) => UP!TypeLetter(c)
  BY Zenon
    DEF UI!TypeLetter, UP!TypeLetter, UI!HasRoom, UP!HasRoom, UI!Reads, UP!Reads,
        UI!ConvertAndEcho, UP!ConvertAndEcho, UI!ToKana, UP!ToKana, UI!update_search_bar, UP!update_search_bar,
        UI!found, UP!found, UI!window, UP!window
<1>6. UI!Backspace => UP!Backspace
  BY Zenon, <1>0
    DEF UI!Backspace, UP!Backspace, UI!Reads, UP!Reads, UI!DEL, UP!DEL, UI!ConvertAndEcho,
        UP!ConvertAndEcho, UI!ToKana, UP!ToKana, UI!update_search_bar, UP!update_search_bar,
        UI!window, UP!window
<1>7. UI!Up => UP!Up
  BY Zenon
    DEF UI!Up, UP!Up, UI!Reads, UP!Reads, UI!One, UP!One, UI!typing, UP!typing, UI!found,
        UP!found, UI!populate_list, UP!populate_list, UI!ShowWindow, UP!ShowWindow, UI!Row,
        UP!Row, UI!update_results, UP!update_results, UI!Details, UP!Details, UI!window,
        UP!window
<1>8. UI!Down => UP!Down
  BY Zenon
    DEF UI!Down, UP!Down, UI!Reads, UP!Reads, UI!Two, UP!Two, UI!typing, UP!typing,
        UI!found, UP!found, UI!ResultsBelow, UP!ResultsBelow, UI!populate_list,
        UP!populate_list, UI!ShowWindow, UP!ShowWindow, UI!Row, UP!Row, UI!update_results,
        UP!update_results, UI!Details, UP!Details, UI!window, UP!window
<1>9. UI!SwitchMode => UP!SwitchMode
  BY Zenon
    DEF UI!SwitchMode, UP!SwitchMode, UI!Reads, UP!Reads, UI!Three, UP!Three, UI!BottomLeft,
        UP!BottomLeft, UI!ToggleMode, UP!ToggleMode, UI!ModePrompt, UP!ModePrompt,
        UI!Prompt, UP!Prompt, UI!found, UP!found, UI!window, UP!window
<1>10. UI!BottomRight => UP!BottomRight
  BY Zenon
    DEF UI!BottomRight, UP!BottomRight, UI!Reads, UP!Reads, UI!Four, UP!Four, UI!typing,
        UP!typing, UI!found, UP!found, UI!window, UP!window
<1>11. ASSUME NEW k PROVE UI!Enter(k) => UP!Enter(k)
  BY Zenon
    DEF UI!Enter, UP!Enter, UI!Reads, UP!Reads, UI!Lookup, UP!Lookup, UI!Found, UP!Found,
        UI!Capped, UP!Capped, UI!Filled, UP!Filled, UI!Slot, UP!Slot, UI!ShowAnswer,
        UP!ShowAnswer, UI!ClearWord, UP!ClearWord, UI!ModePrompt, UP!ModePrompt, UI!Prompt,
        UP!Prompt, UI!ShowFromTop, UP!ShowFromTop, UI!populate_list, UP!populate_list,
        UI!ShowWindow, UP!ShowWindow, UI!Row, UP!Row, UI!update_results, UP!update_results,
        UI!Details, UP!Details
<1>12. ASSUME NEW k PROVE UI!Ignore(k) => UP!Ignore(k)
  BY Zenon
    DEF UI!Ignore, UP!Ignore, UI!Reads, UP!Reads, UI!typing, UP!typing, UI!found, UP!found,
        UI!window, UP!window
<1>13. UI!NoInput => UP!NoInput
  BY Zenon
    DEF UI!NoInput, UP!NoInput, UI!vars, UP!vars, UI!typing, UP!typing, UI!found, UP!found,
        UI!window, UP!window
<1>14. ASSUME NEW k PROVE UI!Press(k) => UP!Press(k)
  BY Zenon
    DEF UI!Press, UP!Press, UI!typing, UP!typing, UI!found, UP!found, UI!window, UP!window
<1>15. UI!Stopped => UP!Stopped
  BY Zenon
    DEF UI!Stopped, UP!Stopped, UI!vars, UP!vars, UI!typing, UP!typing, UI!found, UP!found,
        UI!window, UP!window
<1>16. UNCHANGED UI!vars => UNCHANGED UP!vars
  BY Zenon
    DEF UI!vars, UP!vars, UI!typing, UP!typing, UI!found, UP!found, UI!window, UP!window
<1>17. UI!Key = UP!Key /\ UI!CR = UP!CR /\ UI!LF = UP!LF
  BY Zenon
    DEF UI!Key, UP!Key, UI!Command, UP!Command, UI!DEL, UP!DEL, UI!CR, UP!CR, UI!LF, UP!LF,
        UI!One, UP!One, UI!Two, UP!Two, UI!Three, UP!Three, UI!Four, UP!Four
<1>18. ASSUME NEW c PROVE UI!Overrun(c) => UP!Overrun(c)
  BY Zenon
    DEF UI!Overrun, UP!Overrun, UI!HasRoom, UP!HasRoom, UI!found, UP!found, UI!window, UP!window
<1> QED BY <1>1, <1>2, <1>3, <1>4, <1>5, <1>6, <1>7, <1>8, <1>9, <1>10, <1>11, <1>12,
          <1>13, <1>14, <1>15, <1>16, <1>17, <1>18
  DEF UI!Next, UP!Next, UI!Boot, UP!Boot, UI!poll_keyboard, UP!poll_keyboard

\* DP's rows and entries are D's.
LEMMA SameRows ==
  ASSUME NEW b, NEW c, NEW row, NEW rows, NEW w
  PROVE  /\ DP!Matching(b, c) = D!Matching(b, c)
         /\ DP!Limited(rows) = D!Limited(rows)
         /\ DP!WordOf(b, row) = D!WordOf(b, row)
         /\ DP!DetailOf(b, row) = D!DetailOf(b, row)
         /\ DP!EndedAtAccent(w) = D!EndedAtAccent(w)
         /\ DP!EntryOf(b, row) = D!EntryOf(b, row)
<1>1. DP!Matching(b, c) = D!Matching(b, c)
  BY Zenon
    DEF D!Matching, DP!Matching, D!Matches, DP!Matches, D!LikeSenses, DP!LikeSenses,
        D!Elements, DP!Elements, D!Fold, DP!Fold, D!LikeReading, DP!LikeReading,
        D!romaji__hira_to_kata, DP!romaji__hira_to_kata
<1>2. DP!Limited(rows) = D!Limited(rows)
  BY Zenon
    DEF D!Limited, DP!Limited, D!Shorter, DP!Shorter
<1>3. DP!WordOf(b, row) = D!WordOf(b, row)
  BY Zenon
    DEF D!WordOf, DP!WordOf, D!copy_first_element, DP!copy_first_element, D!Shorter,
        DP!Shorter, D!append_first_element, DP!append_first_element, D!Open, DP!Open,
        D!Close, DP!Close
<1>4. DP!DetailOf(b, row) = D!DetailOf(b, row)
  BY Zenon
    DEF D!DetailOf, DP!DetailOf, D!NULLText, DP!NULLText, D!Shorter, DP!Shorter
<1>5. DP!EndedAtAccent(w) = D!EndedAtAccent(w)
  BY Zenon
    DEF D!EndedAtAccent, DP!EndedAtAccent, D!Shorter, DP!Shorter
<1>6. DP!EntryOf(b, row) = D!EntryOf(b, row)
  BY Zenon
    DEF D!EntryOf, DP!EntryOf, D!EndedAtAccent, DP!EndedAtAccent, D!Shorter, DP!Shorter,
        D!WordOf, DP!WordOf, D!copy_first_element, DP!copy_first_element,
        D!append_first_element, DP!append_first_element, D!Open, DP!Open, D!Close, DP!Close,
        D!DetailOf, DP!DetailOf, D!NULLText, DP!NULLText
<1> QED BY <1>1, <1>2, <1>3, <1>4, <1>5, <1>6, Zenon

\* DP's steps are D's.
LEMMA SameDictStep == [D!Next]_(D!vars) => [DP!Next]_(DP!vars)
<1>1. D!dict_open => DP!dict_open
  BY Zenon
    DEF D!dict_open, DP!dict_open, D!search, DP!search
<1>2. D!dict_close => DP!dict_close
  BY Zenon
    DEF D!dict_close, DP!dict_close, D!search, DP!search
<1>3. ASSUME NEW q, NEW en PROVE D!Prepare(q, en) => DP!Prepare(q, en)
  BY Zenon, SameRows
    DEF D!Prepare, DP!Prepare, D!ResetCount, DP!ResetCount
<1>4. D!StoreWord => DP!StoreWord
  BY Zenon, SameRows
    DEF D!StoreWord, DP!StoreWord, D!search, DP!search
<1>5. D!StoreDetail => DP!StoreDetail
  BY Zenon
    DEF D!StoreDetail, DP!StoreDetail, D!DetailOf, DP!DetailOf, D!NULLText, DP!NULLText,
        D!Shorter, DP!Shorter, D!EndedAtAccent, DP!EndedAtAccent, D!CountRow, DP!CountRow
<1>6. D!Return => DP!Return
  BY Zenon
    DEF D!Return, DP!Return
<1>7. UNCHANGED D!vars => UNCHANGED DP!vars
  BY Zenon DEF D!vars, DP!vars, D!search, DP!search
<1> QED BY <1>1, <1>2, <1>3, <1>4, <1>5, <1>6, <1>7, Zenon
  DEF D!Next, DP!Next, D!Search, DP!Search

-----------------------------------------------------------------------------
(* The inductive invariant. *)

\* Who waits for a search, and for which one: main() for "ame", or the Enter
\* that was read last for what is typed, which cannot change meanwhile.
Waiting ==
  /\ tty \in Seq(Key)
  /\ task \in {"none", "boot", "enter"}
  /\ task = "none" => handling = <<>> /\ dpc = "idle"
  /\ task = "boot" => /\ pc = "db" /\ handling = <<>>
                      /\ call = [query |-> <<97, 109, 101>>, en |-> FALSE]
  /\ task = "enter" => /\ pc = "loop" /\ \E k \in {CR, LF} : handling = <<k>>
                       /\ call = [query |-> Question, en |-> en_mode]

\* A search under way has not touched the slots behind its count, and without
\* a database it counts nothing.
Kept ==
  task # "none" =>
    /\ g_db # "open" => n = 0 /\ dpc = "idle"
    /\ \A k \in Slot : k > n \/ (k = n /\ dpc # "row") => g_results[k] = before[k]

\* Between searches, results_count covers rows of the latest search.
Answered ==
  task = "none" =>
    /\ results_count <= Len(DP!Answer)
    /\ \A k \in Slot : k < results_count => g_results[k] = DP!EntryOf("simulator", DP!Answer[k + 1])

ScreenPart == UP!TypeOK /\ UP!ScreenInv
DInv == ScreenPart /\ DP!Inv /\ Waiting /\ Kept /\ Answered

-----------------------------------------------------------------------------
(* What a search leaves is what PocketUI takes it for. *)

\* The answer of the latest search, and the hits it is made of.
LEMMA HitsFacts ==
  ASSUME NEW q, NEW en, call = [query |-> q, en |-> en]
  PROVE  /\ Len(HitsOf(q, en)) \in Nat
         /\ DP!Answer \in Seq(DP!Rows)
         /\ Len(DP!Answer) = UI!Capped(Len(HitsOf(q, en)))
         /\ \A k \in 1..Len(DP!Answer) : HitsOf(q, en)[k] = DP!EntryOf("simulator", DP!Answer[k])
<1> DEFINE m == D!Matching("simulator", call)
           h == HitsOf(q, en)
<1>1. DP!Answer = DP!Limited(m)
  BY SameRows DEF DP!Answer
<1>2. /\ m \in Seq(DP!Rows) /\ DP!Limited(m) \in Seq(DP!Rows)
      /\ Len(DP!Limited(m)) = DP!Shorter(Len(m), MAX_RESULTS)
      /\ \A k \in 1..Len(DP!Limited(m)) : k <= Len(m) /\ DP!Limited(m)[k] = m[k]
  <2>1. DP!Matching("simulator", call) = m
    BY SameRows
  <2> QED BY <2>1, DictRows
<1>3. h = [k \in DOMAIN m |-> D!EntryOf("simulator", m[k])]
  BY DEF HitsOf
<1> HIDE DEF m, h
<1>4. Len(m) \in Nat /\ DOMAIN m = 1..Len(m)
  BY <1>2
<1>5. h \in Seq({D!EntryOf("simulator", m[k]) : k \in 1..Len(m)}) /\ Len(h) = Len(m)
  BY <1>3, <1>4
<1>6. \A k \in 1..Len(m) : h[k] = DP!EntryOf("simulator", m[k])
  BY <1>3, <1>4, SameRows
<1>7. DP!Shorter(Len(m), MAX_RESULTS) = UI!Capped(Len(m))
  BY DEF DP!Shorter, UI!Capped
<1>8. \A k \in 1..Len(DP!Limited(m)) : k \in 1..Len(m)
  BY <1>2, <1>4
<1> QED BY <1>1, <1>2, <1>4, <1>5, <1>6, <1>7, <1>8 DEF h

\* When a search returns, its count and its slots are those of PocketUI's
\* one-step search over the slots as they were before it.
LEMMA SearchFinds ==
  ASSUME DInv, task # "none", dpc = "idle", NEW q, NEW en, call = [query |-> q, en |-> en]
  PROVE  /\ n \in UI!Found(HitsOf(q, en))
         /\ g_results = UI!Filled(n, HitsOf(q, en))
<1> DEFINE h == HitsOf(q, en)
<1>1. /\ Len(h) \in Nat /\ DP!Answer \in Seq(DP!Rows)
      /\ Len(DP!Answer) = UI!Capped(Len(h))
      /\ \A k \in 1..Len(DP!Answer) : h[k] = DP!EntryOf("simulator", DP!Answer[k])
  BY HitsFacts
<1>2. /\ n \in 0..MAX_RESULTS /\ n <= Len(DP!Answer)
      /\ \A k \in 0..(n - 1) : g_results[k] = DP!EntryOf("simulator", DP!Answer[k + 1])
      /\ g_results = [k \in Slot |-> g_results[k]]
  BY DEF DInv, DP!Inv, DP!TypeOK, DP!Stored, DP!Slot, Slot
<1>3. /\ g_db # "open" => n = 0
      /\ \A k \in Slot : k >= n => g_results[k] = before[k]
  <2>1. \A k \in Slot : k >= n => k > n \/ k = n
    BY <1>2, SizeAssumption DEF Slot
  <2> QED BY <2>1 DEF DInv, Kept
<1> HIDE DEF h
<1>4. n \in UI!Found(h)
  <2>1. n \in 0..UI!Capped(Len(h))
    BY <1>1, <1>2, SizeAssumption
  <2> QED BY <2>1, <1>3 DEF UI!Found
<1>5. ASSUME NEW k \in Slot PROVE g_results[k] = IF k < n THEN h[k + 1] ELSE before[k]
  <2>1. CASE k < n
    <3>1. k \in 0..(n - 1) /\ k + 1 \in 1..Len(DP!Answer)
      BY <2>1, <1>1, <1>2, SizeAssumption DEF Slot
    <3> QED BY <3>1, <2>1, <1>1, <1>2
  <2>2. CASE ~(k < n)
    <3>1. k >= n
      BY <2>2, <1>2, SizeAssumption DEF Slot
    <3> QED BY <3>1, <2>2, <1>3
  <2> QED BY <2>1, <2>2
<1>6. g_results = [k \in Slot |-> IF k < n THEN h[k + 1] ELSE before[k]]
  BY <1>2, <1>5
<1>7. g_results = UI!Filled(n, h)
  <2>1. UI!Filled(n, h) = [k \in Slot |-> IF k < n THEN h[k + 1] ELSE before[k]]
    BY DEF UI!Filled, UI!Slot, Slot
  <2> QED BY <2>1, <1>6
<1> QED BY <1>4, <1>7 DEF h

-----------------------------------------------------------------------------
(* The steps. *)

\* Nobody waits for a search while main() is in a step that makes none.
LEMMA NoTaskElsewhere ==
  ASSUME Waiting, pc \in {"start", "display", "input", "exit"}
  PROVE  task = "none"
  BY DEF Waiting

\* While nobody waits, PocketUI's console and slots are the actual ones.
LEMMA Transparent ==
  ASSUME tty \in Seq(Key), task = "none" => handling = <<>>
  PROVE  /\ task = "none" => Pending = tty
         /\ task = "none" => (IF task = "none" THEN g_results ELSE before) = g_results
         /\ task # "none" => (IF task = "none" THEN g_results ELSE before) = before
<1>1. task = "none" => Pending = tty
  <2>1. <<>> \o tty = tty
    OBVIOUS
  <2> QED BY <2>1 DEF Pending
<1> QED BY <1>1

\* Reading a key and typing one leave a sequence of keys.
LEMMA KeysStay ==
  ASSUME Waiting, [DNext]_dvars
  PROVE  tty' \in Seq(Key)
<1> DEFINE Same == tty' = tty
           Read == tty # <<>> /\ tty' = Tail(tty)
<1>1. \/ Same \/ Read
      \/ \E k \in Key : tty' = Append(tty, k)
  <2>1. ASSUME NEW k, Reads(k) PROVE Read
    BY <2>1 DEF Reads
  <2>2. CASE BootStep
    BY <2>2 DEF BootStep, InitDisplay, OpenDb, create_ui
  <2>3. CASE BeginFirstSearch \/ EndFirstSearch \/ EndEnter \/ SearchStep
    BY <2>3 DEF BeginFirstSearch, EndFirstSearch, EndEnter, SearchStep, Returned
  <2>4. CASE OtherKeys
    BY <2>1, <2>4
       DEF OtherKeys, TypeLetter, Overrun, Backspace, Up, Down, SwitchMode, BottomRight, Ignore
  <2>5. ASSUME NEW k, BeginEnter(k) PROVE Read
    BY <2>1, <2>5 DEF BeginEnter
  <2>6. ASSUME NEW k \in Key, DPress(k) PROVE tty' = Append(tty, k)
    BY <2>6 DEF DPress
  <2>7. CASE Idle \/ UNCHANGED dvars
    BY <2>7 DEF Idle, dvars, vars
  <2> HIDE DEF Same, Read
  <2> QED BY <2>2, <2>3, <2>4, <2>5, <2>6, <2>7 DEF DNext, Run, EnterKey
<1>2. tty \in Seq(Key)
  BY DEF Waiting
<1>3. CASE Same
  BY <1>2, <1>3
<1>4. CASE Read
  BY <1>2, <1>4
<1>5. ASSUME NEW k \in Key, tty' = Append(tty, k) PROVE tty' \in Seq(Key)
  BY <1>2, <1>5
<1> HIDE DEF Same, Read
<1> QED BY <1>1, <1>3, <1>4, <1>5

\* The calls are paired: a search has one caller from its call to its return.
LEMMA WaitingStep ==
  ASSUME DInv, [DNext]_dvars
  PROVE  Waiting'
<1>0. Waiting /\ tty' \in Seq(Key)
  BY KeysStay DEF DInv
<1>1. CASE BootStep
  <2>1. task = "none"
    BY <1>0, <1>1, NoTaskElsewhere DEF BootStep, InitDisplay, OpenDb, create_ui
  <2> QED BY <2>1, <1>0, <1>1 DEF BootStep, Waiting, searching
<1>2. CASE BeginFirstSearch
  <2>1. /\ task = "none" /\ task' = "boot" /\ pc = "db" /\ pc' = pc /\ handling' = handling
        /\ call' = [query |-> <<97, 109, 101>>, en |-> FALSE]
    BY <1>2 DEF BeginFirstSearch, Call, D!Prepare
  <2> QED BY <2>1, <1>0 DEF Waiting
<1>3. CASE EndFirstSearch \/ EndEnter
  BY <1>0, <1>3 DEF EndFirstSearch, EndEnter, Returned, Waiting, searching
<1>4. CASE OtherKeys
  BY <1>0, <1>4 DEF OtherKeys, Waiting, searching
<1>5. ASSUME NEW k \in {CR, LF}, BeginEnter(k) PROVE Waiting'
  <2>1. /\ task' = "enter" /\ pc = "loop" /\ pc' = pc /\ handling' = <<k>>
        /\ call' = [query |-> Question, en |-> en_mode]
    BY <1>5 DEF BeginEnter, Call, D!Prepare, Reads
  <2>2. Question' = Question /\ en_mode' = en_mode
    BY <1>5 DEF BeginEnter, Question, labels, typing
  <2> QED BY <2>1, <2>2, <1>0 DEF Waiting
<1>6. CASE SearchStep
  <2>1. /\ dpc # "idle" /\ UNCHANGED <<pc, task, handling, call>>
        /\ UNCHANGED <<search_word, furigana_word, en_mode>>
    BY <1>6 DEF SearchStep, D!StoreWord, D!StoreDetail, D!Return, D!search, labels, typing
  <2>2. Question' = Question
    BY <2>1 DEF Question
  <2> QED BY <2>1, <2>2, <1>0 DEF Waiting
<1>7. ASSUME NEW k \in Key, DPress(k) PROVE Waiting'
  <2>1. UNCHANGED <<pc, task, handling, call, dpc, search_word, furigana_word, en_mode>>
    BY <1>7 DEF DPress, searching, labels, typing
  <2>2. Question' = Question
    BY <2>1 DEF Question
  <2> QED BY <2>1, <2>2, <1>0 DEF Waiting
<1>8. CASE Idle \/ UNCHANGED dvars
  <2>1. UNCHANGED <<pc, task, handling, call, dpc, search_word, furigana_word, en_mode>>
    BY <1>8 DEF Idle, dvars, vars, searching, typing
  <2>2. Question' = Question
    BY <2>1 DEF Question
  <2> QED BY <2>1, <2>2, <1>0 DEF Waiting
<1> QED BY <1>1, <1>2, <1>3, <1>4, <1>5, <1>6, <1>7, <1>8 DEF DNext, Run, EnterKey

\* While nobody waits, the steps of PocketUI are those of its own variables.
LEMMA QuietStep ==
  ASSUME Waiting, Waiting', task = "none", task' = "none",
         \/ InitDisplay \/ OpenDb \/ create_ui
         \/ \E c \in Letter : TypeLetter(c) \/ Overrun(c)
         \/ Backspace \/ Up \/ Down \/ SwitchMode \/ BottomRight
         \/ \E k \in OtherKey : Ignore(k)
  PROVE  UI!Next
<1> DEFINE shown == IF task = "none" THEN g_results ELSE before
<1>1. Pending = tty /\ shown = g_results
  BY Transparent DEF Waiting
<1>2. Pending' = tty' /\ shown' = g_results'
  <2>1. <<>> \o tty' = tty'
    BY DEF Waiting
  <2> QED BY <2>1 DEF Pending, Waiting
<1>3. UI!TopByte = TopByte
  BY DEF UI!TopByte, TopByte
<1>4. ASSUME InitDisplay PROVE UI!InitDisplay
  BY <1>1, <1>2, <1>4, Zenon
    DEF InitDisplay, UI!InitDisplay, typing, UI!typing, found, UI!found, window, UI!window
<1>5. ASSUME OpenDb PROVE UI!OpenDb
  BY <1>1, <1>2, <1>5, Zenon
    DEF OpenDb, UI!OpenDb, typing, UI!typing, found, UI!found, window, UI!window
<1>6. ASSUME create_ui PROVE UI!create_ui
  BY <1>1, <1>2, <1>6, Zenon
    DEF create_ui, UI!create_ui, update_search_bar, UI!update_search_bar, found, UI!found,
        ShowWindow, UI!ShowWindow, Row, UI!Row, update_results, UI!update_results
<1>7. ASSUME NEW k, TypeLetter(k) PROVE UI!TypeLetter(k)
  BY <1>1, <1>2, <1>7, Zenon
    DEF TypeLetter, UI!TypeLetter, HasRoom, UI!HasRoom, Reads, UI!Reads, ConvertAndEcho,
        UI!ConvertAndEcho,
        ToKana, UI!ToKana, update_search_bar, UI!update_search_bar, found, UI!found, window,
        UI!window
<1>8. ASSUME Backspace PROVE UI!Backspace
  BY <1>1, <1>2, <1>8, <1>3, Zenon
    DEF Backspace, UI!Backspace, Reads, UI!Reads, DEL, UI!DEL, ConvertAndEcho,
        UI!ConvertAndEcho, ToKana, UI!ToKana, update_search_bar, UI!update_search_bar,
        window, UI!window
<1>9. ASSUME Up PROVE UI!Up
  BY <1>1, <1>2, <1>9, Zenon
    DEF Up, UI!Up, Reads, UI!Reads, One, UI!One, typing, UI!typing, found, UI!found,
        populate_list, UI!populate_list, ShowWindow, UI!ShowWindow, Row, UI!Row,
        update_results, UI!update_results, Details, UI!Details, window, UI!window
<1>10. ASSUME Down PROVE UI!Down
  BY <1>1, <1>2, <1>10, Zenon
    DEF Down, UI!Down, Reads, UI!Reads, Two, UI!Two, typing, UI!typing, found, UI!found,
        ResultsBelow, UI!ResultsBelow, populate_list, UI!populate_list, ShowWindow,
        UI!ShowWindow, Row, UI!Row, update_results, UI!update_results, Details, UI!Details,
        window, UI!window
<1>11. ASSUME SwitchMode PROVE UI!SwitchMode
  BY <1>1, <1>2, <1>11, Zenon
    DEF SwitchMode, UI!SwitchMode, Reads, UI!Reads, Three, UI!Three, BottomLeft,
        UI!BottomLeft, ToggleMode, UI!ToggleMode, ModePrompt, UI!ModePrompt, Prompt,
        UI!Prompt, found, UI!found, window, UI!window
<1>12. ASSUME BottomRight PROVE UI!BottomRight
  BY <1>1, <1>2, <1>12, Zenon
    DEF BottomRight, UI!BottomRight, Reads, UI!Reads, Four, UI!Four, typing, UI!typing,
        found, UI!found, window, UI!window
<1>13. ASSUME NEW k, Ignore(k) PROVE UI!Ignore(k)
  BY <1>1, <1>2, <1>13, Zenon
    DEF Ignore, UI!Ignore, Reads, UI!Reads, typing, UI!typing, found, UI!found, window,
        UI!window
<1>14. ASSUME NEW k, Overrun(k) PROVE UI!Overrun(k)
  BY <1>1, <1>2, <1>14, Zenon
    DEF Overrun, UI!Overrun, HasRoom, UI!HasRoom, found, UI!found, window, UI!window
<1> QED BY <1>4, <1>5, <1>6, <1>7, <1>8, <1>9, <1>10, <1>11, <1>12, <1>13, <1>14
  DEF UI!Next, UI!Boot, UI!poll_keyboard

\* Device's dictionary does what module Dict does.
LEMMA DictPart ==
  ASSUME DInv, [DNext]_dvars
  PROVE  [D!Next]_(D!vars)
<1>0. Waiting
  BY DEF DInv
<1>1. CASE BootStep
  <2>1. task = "none" /\ dpc = "idle" /\ UNCHANGED <<dpc, call, cursor, n, rc>>
    BY <1>0, <1>1, NoTaskElsewhere
       DEF BootStep, InitDisplay, OpenDb, create_ui, Waiting, searching
  <2>2. CASE OpenDb
    <3>1. g_db = "NULL" /\ g_db' \in {"open", "failed"} /\ g_results' = g_results
      <4>1. pc = "display" => g_db = "NULL"
        BY DEF DInv, ScreenPart, UP!ScreenInv, UP!Booting
      <4> QED BY <4>1, <2>2 DEF OpenDb, found
    <3> QED BY <2>1, <3>1 DEF D!Next, D!dict_open, D!search
  <2>3. CASE InitDisplay \/ create_ui
    <3>1. g_db' = g_db /\ g_results' = g_results
      BY <2>3 DEF InitDisplay, create_ui, found
    <3> QED BY <2>1, <3>1 DEF D!vars, D!search
  <2> QED BY <2>2, <2>3, <1>1 DEF BootStep
<1>2. CASE BeginFirstSearch
  <2>1. D!Prepare(<<97, 109, 101>>, FALSE) /\ <<97, 109, 101>> \in Asked
    BY <1>2 DEF BeginFirstSearch, Call, Asked
  <2> QED BY <2>1 DEF D!Next, D!Search
<1>3. CASE EndFirstSearch \/ EndEnter
  BY <1>3 DEF EndFirstSearch, EndEnter, Returned, searching, D!vars, D!search
<1>4. CASE OtherKeys
  <2>1. g_results' = g_results /\ g_db' = g_db
    BY <1>4 DEF OtherKeys, TypeLetter, Overrun, Backspace, Up, Down, SwitchMode, BottomRight,
       Ignore, Reads, found
  <2> QED BY <2>1, <1>4 DEF OtherKeys, searching, D!vars, D!search
<1>5. ASSUME NEW k, BeginEnter(k) PROVE D!Next
  <2>1. Question \in Asked /\ en_mode \in BOOLEAN
    BY <1>5 DEF BeginEnter, Reads, DInv, ScreenPart, UP!TypeOK, UP!TypingOK, Question, Asked,
       Word, UP!Word, Reading, UP!Reading
  <2> QED BY <2>1, <1>5 DEF BeginEnter, Call, D!Next, D!Search
<1>6. CASE SearchStep
  BY <1>6 DEF SearchStep, D!Next, D!Search
<1>7. ASSUME NEW k, DPress(k) PROVE UNCHANGED D!vars
  BY <1>7 DEF DPress, found, searching, D!vars, D!search
<1>8. CASE Idle \/ UNCHANGED dvars
  BY <1>8 DEF Idle, dvars, vars, found, searching, D!vars, D!search
<1> QED BY <1>1, <1>2, <1>3, <1>4, <1>5, <1>6, <1>7, <1>8 DEF DNext, Run, EnterKey

\* Reading the Enter and searching are not seen by PocketUI.
LEMMA UnseenStep ==
  ASSUME DInv, Waiting',
         BeginFirstSearch \/ (\E k \in {CR, LF} : BeginEnter(k)) \/ SearchStep
  PROVE  UNCHANGED UI!vars
<1> DEFINE shown == IF task = "none" THEN g_results ELSE before
<1>0. Waiting
  BY DEF DInv
<1>1. Pending' = Pending /\ shown' = shown
  <2>1. CASE BeginFirstSearch
    <3>1. /\ task = "none" /\ task' = "boot" /\ UNCHANGED <<tty, handling>>
          /\ before' = g_results
      BY <2>1 DEF BeginFirstSearch, Call
    <3> QED BY <3>1 DEF Pending
  <2>2. ASSUME NEW k \in {CR, LF}, BeginEnter(k) PROVE Pending' = Pending /\ shown' = shown
    <3>1. /\ task = "none" /\ task' = "enter" /\ before' = g_results
          /\ tty # <<>> /\ Head(tty) = k /\ tty' = Tail(tty) /\ handling' = <<k>>
      BY <2>2 DEF BeginEnter, Call, Reads
    <3>2. tty \in Seq(Key) /\ handling = <<>>
      BY <3>1, <1>0 DEF Waiting
    <3>3. <<Head(tty)>> \o Tail(tty) = tty /\ <<>> \o tty = tty
      BY <3>1, <3>2
    <3> QED BY <3>1, <3>2, <3>3 DEF Pending
  <2>3. CASE SearchStep
    <3>1. dpc # "idle" /\ UNCHANGED <<task, handling, tty, before>>
      BY <2>3 DEF SearchStep, D!StoreWord, D!StoreDetail, D!Return
    <3>2. task # "none"
      BY <3>1, <1>0 DEF Waiting
    <3> QED BY <3>1, <3>2 DEF Pending
  <2> QED BY <2>1, <2>2, <2>3
<1>2. UNCHANGED <<pc, typing, window, bottom_sel_index, results_count, g_db>>
  BY DEF BeginFirstSearch, BeginEnter, Reads, Call, SearchStep, labels,
     D!Prepare, D!StoreWord, D!StoreDetail, D!Return
<1> HIDE DEF shown
<1>3. UNCHANGED <<pc, Pending, typing, results_count, shown, window, bottom_sel_index, g_db>>
  BY <1>1, <1>2
<1> QED BY <1>3, Zenon
    DEF UI!vars, UI!typing, UI!found, UI!window, typing, window, shown

\* The end of main()'s search is PocketUI's first search.
LEMMA FirstSearchEnds ==
  ASSUME DInv, Waiting', EndFirstSearch
  PROVE  UI!FirstSearch
<1> DEFINE hits == HitsOf(<<97, 109, 101>>, FALSE)
<1>1. /\ task = "boot" /\ dpc = "idle" /\ task' = "none" /\ handling' = <<>>
      /\ UNCHANGED <<tty, g_db, g_results, labels, results_count>> /\ pc' = "input"
  BY DEF EndFirstSearch, Returned
<1>2. pc = "db" /\ handling = <<>> /\ call = [query |-> <<97, 109, 101>>, en |-> FALSE]
  BY <1>1 DEF DInv, Waiting
<1>3. n \in UI!Found(hits) /\ g_results = UI!Filled(n, hits)
  BY <1>1, <1>2, SearchFinds
<1>4. JpHits(<<97, 109, 101>>) = hits
  BY DatabaseAssumption
<1> HIDE DEF hits
<1>5. Pending' = Pending
  BY <1>1, <1>2 DEF Pending
<1>6. (IF task = "none" THEN g_results ELSE before)' = UI!Filled(n, hits)
  BY <1>1, <1>3
<1> QED BY <1>1, <1>2, <1>3, <1>4, <1>5, <1>6
    DEF UI!FirstSearch, UI!typing, UI!window, labels, typing, window

\* The end of an Enter is PocketUI's whole Enter.
LEMMA EnterEnds ==
  ASSUME DInv, Waiting', EndEnter
  PROVE  \E k \in {UI!CR, UI!LF} : UI!Enter(k)
<1>1. /\ task = "enter" /\ dpc = "idle" /\ task' = "none" /\ handling' = <<>>
      /\ UNCHANGED <<tty, g_db, g_results, pc>> /\ results_count' = n /\ ShowAnswer
  BY DEF EndEnter, Returned
<1>2. /\ pc = "loop" /\ tty \in Seq(Key)
      /\ call = [query |-> Question, en |-> en_mode]
  BY <1>1 DEF DInv, Waiting
<1>3. PICK k \in {CR, LF} : handling = <<k>>
  BY <1>1 DEF DInv, Waiting
<1> DEFINE hits == HitsOf(Question, en_mode)
           shown == IF task = "none" THEN g_results ELSE before
<1>4. n \in UI!Found(hits) /\ g_results = UI!Filled(n, hits)
  BY <1>1, <1>2, SearchFinds
<1>5. (IF en_mode THEN EnHits(search_word) ELSE JpHits(furigana_word)) = hits
  <2>1. search_word \in Word /\ furigana_word \in Reading /\ en_mode \in BOOLEAN
    BY <1>2 DEF DInv, ScreenPart, UP!TypeOK, UP!TypingOK, Word, UP!Word, Reading, UP!Reading
  <2> QED BY <2>1, DatabaseAssumption DEF Question
<1> HIDE DEF hits
<1>6. shown' = g_results'
  BY <1>1
<1>7. UI!Reads(k)
  <2>1. /\ <<k>> \o tty # <<>> /\ Head(<<k>> \o tty) = k
        /\ Tail(<<k>> \o tty) = tty /\ <<>> \o tty = tty
    BY <1>2
  <2>2. Pending = <<k>> \o tty /\ Pending' = tty
    BY <1>1, <1>3, <2>1 DEF Pending
  <2> QED BY <1>1, <1>2, <2>1, <2>2 DEF UI!Reads
<1>8. UI!Lookup
  <2>1. results_count' = n /\ shown' = UI!Filled(n, hits)
    BY <1>1, <1>4, <1>6
  <2> QED BY <2>1, <1>4, <1>5 DEF UI!Lookup
<1>9. UI!ShowAnswer
  BY <1>1, <1>6, Zenon
    DEF ShowAnswer, UI!ShowAnswer, ClearWord, UI!ClearWord, ModePrompt, UI!ModePrompt,
        Prompt, UI!Prompt, ShowFromTop, UI!ShowFromTop, populate_list, UI!populate_list,
        ShowWindow, UI!ShowWindow, Row, UI!Row, update_results, UI!update_results, Details,
        UI!Details
<1>10. k \in {UI!CR, UI!LF}
  BY DEF UI!CR, CR, UI!LF, LF
<1> QED BY <1>7, <1>8, <1>9, <1>10 DEF UI!Enter

\* Typing is PocketUI's typing, also during a search.
LEMMA PressStep ==
  ASSUME DInv, NEW k \in Key, DPress(k)
  PROVE  UI!Press(k)
<1>1. tty \in Seq(Key) /\ Pending = handling \o tty
  BY DEF DInv, Waiting, Pending
<1>2. handling = <<>> \/ \E c \in Key : handling = <<c>>
  BY DEF DInv, Waiting, Key, Command
<1>3. Pending' = Append(Pending, k)
  <2>1. tty' = Append(tty, k) /\ handling' = handling
    BY DEF DPress
  <2>2. handling \in Seq(Key)
    <3>1. <<>> \in Seq(Key)
      OBVIOUS
    <3>2. \A c \in Key : <<c>> \in Seq(Key)
      OBVIOUS
    <3> QED BY <1>2, <3>1, <3>2, Zenon
  <2>3. handling \o Append(tty, k) = Append(handling \o tty, k)
    BY <1>1, <2>2
  <2> QED BY <2>1, <2>3, <1>1 DEF Pending
<1>4. UNCHANGED <<pc, typing, window, bottom_sel_index, results_count, g_db, task, before,
                  g_results>>
  BY DEF DPress, labels, found
<1>5. pc \notin {"exit", "overrun"} /\ Len(Pending) < TTY_CAP
  BY DEF DPress
<1> QED BY <1>3, <1>4, <1>5, Zenon
    DEF UI!Press, UI!typing, UI!found, UI!window, typing, window

\* Every step of the application is a step of PocketUI or not seen by it.
LEMMA ScreenSteps ==
  ASSUME DInv, [DNext]_dvars
  PROVE  [UI!Next]_(UI!vars)
<1>0. Waiting /\ Waiting'
  BY WaitingStep DEF DInv
<1>1. CASE BootStep
  <2>1. task = "none" /\ task' = "none"
    BY <1>0, <1>1, NoTaskElsewhere DEF BootStep, InitDisplay, OpenDb, create_ui
  <2> QED BY <2>1, <1>0, <1>1, QuietStep DEF BootStep
<1>2. CASE BeginFirstSearch \/ SearchStep
  BY <1>0, <1>2, UnseenStep
<1>3. CASE EndFirstSearch
  BY <1>0, <1>3, FirstSearchEnds DEF UI!Next, UI!Boot
<1>4. CASE OtherKeys
  <2>1. task = "none" /\ task' = "none"
    BY <1>4 DEF OtherKeys
  <2> QED BY <2>1, <1>0, <1>4, QuietStep DEF OtherKeys
<1>5. ASSUME NEW k \in {CR, LF}, BeginEnter(k) PROVE UNCHANGED UI!vars
  BY <1>0, <1>5, UnseenStep
<1>6. CASE EndEnter
  BY <1>0, <1>6, EnterEnds DEF UI!Next, UI!poll_keyboard
<1>7. ASSUME NEW k \in Key, DPress(k) PROVE UI!Next
  <2>1. k \in UI!Key
    BY DEF Key, UI!Key, Command, UI!Command, DEL, UI!DEL, CR, UI!CR, LF, UI!LF,
       One, UI!One, Two, UI!Two, Three, UI!Three, Four, UI!Four
  <2> QED BY <2>1, <1>7, PressStep DEF UI!Next
<1>8. CASE Idle \/ UNCHANGED dvars
  <2>1. UNCHANGED <<vars, task, handling, before>>
    BY <1>8 DEF Idle, dvars
  <2>2. UNCHANGED Pending
    BY <2>1 DEF Pending, vars
  <2> QED BY <2>1, <2>2
      DEF UI!vars, UI!typing, UI!found, UI!window, vars, typing, found, window
<1> QED BY <1>1, <1>2, <1>3, <1>4, <1>5, <1>6, <1>7, <1>8 DEF DNext, Run, EnterKey

\* A search writes the slot of its next row only.
LEMMA KeptStep ==
  ASSUME DInv, Waiting', [DNext]_dvars
  PROVE  Kept'
<1>0. /\ Waiting /\ Kept /\ n \in Nat
      /\ g_results \in [Slot -> [word : Seq(D!Byte), detail : Seq(D!Byte)]]
  BY DEF DInv, DP!Inv, DP!TypeOK, DP!Slot, Slot, DP!Byte, D!Byte
<1>1. CASE BootStep
  <2>1. task = "none" /\ task' = task
    BY <1>0, <1>1, NoTaskElsewhere DEF BootStep, InitDisplay, OpenDb, create_ui
  <2> QED BY <2>1 DEF Kept
<1>2. CASE EndFirstSearch \/ EndEnter \/ OtherKeys
  BY <1>2 DEF EndFirstSearch, EndEnter, Returned, OtherKeys, Kept
<1>3. ASSUME NEW t, NEW q, NEW en, Call(t, q, en) PROVE Kept'
  <2>1. /\ n' = 0 /\ UNCHANGED <<g_db, g_results>> /\ before' = g_results
        /\ g_db = "open" \/ dpc' = "idle"
    BY <1>3 DEF Call, D!Prepare, D!ResetCount
  <2> QED BY <2>1 DEF Kept
<1>4. CASE SearchStep
  <2>1. /\ UNCHANGED <<task, before, g_db>> /\ dpc # "idle"
    BY <1>4 DEF SearchStep, D!StoreWord, D!StoreDetail, D!Return
  <2>2. task # "none" /\ g_db = "open"
    BY <2>1, <1>0 DEF Waiting, Kept
  <2>3. \A k \in Slot : k > n \/ (k = n /\ dpc # "row") => g_results[k] = before[k]
    BY <2>2, <1>0 DEF Kept
  <2>4. CASE D!StoreWord
    <3>1. /\ n' = n /\ dpc' = "row"
          /\ g_results' = [g_results EXCEPT ![n].word = D!WordOf("simulator", Head(cursor))]
      BY <2>4 DEF D!StoreWord, D!search
    <3>2. \A k \in Slot : k > n => g_results'[k] = g_results[k]
      BY <3>1, <1>0, SizeAssumption DEF Slot
    <3> QED BY <3>1, <3>2, <2>1, <2>2, <2>3 DEF Kept
  <2>5. CASE D!StoreDetail
    <3>1. /\ n' = n + 1
          /\ g_results' = [g_results EXCEPT ![n].detail = D!DetailOf("simulator", Head(cursor)),
                                            ![n].word = D!EndedAtAccent(@)]
      BY <2>5 DEF D!StoreDetail, D!CountRow
    <3>2. \A k \in Slot : k # n => g_results'[k] = g_results[k]
      BY <3>1, <1>0
    <3>3. \A k \in Slot : k > n' \/ k = n' => k > n /\ k # n
      BY <3>1, <1>0, SizeAssumption DEF Slot
    <3> QED BY <3>2, <3>3, <2>1, <2>2, <2>3 DEF Kept
  <2>6. CASE D!Return
    <3>1. UNCHANGED <<n, g_results>> /\ dpc = "scan"
      BY <2>6 DEF D!Return
    <3> QED BY <3>1, <2>1, <2>2, <2>3 DEF Kept
  <2> QED BY <2>4, <2>5, <2>6, <1>4 DEF SearchStep
<1>5. ASSUME \/ \E k \in Key : DPress(k)
             \/ Idle \/ UNCHANGED dvars
      PROVE  Kept'
  <2>1. UNCHANGED <<task, before, g_db, g_results, n, dpc>>
    BY <1>5 DEF DPress, Idle, dvars, vars, found, searching
  <2> QED BY <2>1, <1>0 DEF Kept
<1> QED BY <1>1, <1>2, <1>3, <1>4, <1>5
    DEF DNext, Run, EnterKey, BeginFirstSearch, BeginEnter

\* The count on the screen is the count of the latest search.
LEMMA AnsweredStep ==
  ASSUME DInv, Waiting', [DNext]_dvars
  PROVE  Answered'
<1>0. /\ Waiting /\ Answered /\ n \in 0..MAX_RESULTS
      /\ results_count \in 0..MAX_RESULTS
  BY DEF DInv, ScreenPart, UP!TypeOK, UP!FoundOK, DP!Inv, DP!TypeOK
<1>1. ASSUME task' = task, UNCHANGED <<results_count, g_results, call>> PROVE Answered'
  <2>1. DP!Answer' = DP!Answer
    BY <1>1 DEF DP!Answer
  <2> QED BY <2>1, <1>1, <1>0 DEF Answered
<1>2. CASE BootStep
  <2>1. results_count' = results_count
    BY <1>2 DEF BootStep, InitDisplay, OpenDb, create_ui, found
  <2>2. g_results' = g_results
    BY <1>2 DEF BootStep, InitDisplay, OpenDb, create_ui, found
  <2> QED BY <2>1, <2>2, <1>1, <1>2 DEF BootStep, searching
<1>3. ASSUME NEW t \in {"boot", "enter"}, NEW q, NEW en, Call(t, q, en) PROVE Answered'
  BY <1>3 DEF Call, Answered
<1>4. CASE SearchStep
  <2>1. task # "none" /\ task' = task
    BY <1>0, <1>4 DEF SearchStep, D!StoreWord, D!StoreDetail, D!Return, Waiting
  <2> QED BY <2>1 DEF Answered
<1>5. CASE EndFirstSearch
  <2>1. results_count' = 0
    BY <1>0, <1>5 DEF EndFirstSearch, Returned, Waiting, DInv, ScreenPart, UP!ScreenInv, UP!Booting
  <2>2. Len(DP!Answer') \in Nat
    BY DictRows DEF DP!Answer
  <2> QED BY <2>1, <2>2, SizeAssumption DEF Answered, Slot
<1>6. CASE EndEnter
  <2>1. results_count' = n /\ UNCHANGED <<g_results, call>>
    BY <1>6 DEF EndEnter, Returned, searching
  <2>2. /\ n <= Len(DP!Answer)
        /\ \A k \in 0..(n - 1) : g_results[k] = DP!EntryOf("simulator", DP!Answer[k + 1])
    BY DEF DInv, DP!Inv, DP!Stored
  <2>3. DP!Answer' = DP!Answer
    BY <2>1 DEF DP!Answer
  <2>4. \A k \in Slot : k < n => k \in 0..(n - 1)
    BY <1>0, SizeAssumption DEF Slot
  <2> QED BY <2>1, <2>2, <2>3, <2>4 DEF Answered
<1>7. CASE OtherKeys
  <2>1. results_count % TopByte = results_count
    BY <1>0, SizeAssumption DEF TopByte
  <2>2. UNCHANGED <<results_count, g_results>>
    BY <2>1, <1>7 DEF OtherKeys, TypeLetter, Overrun, Backspace, Up, Down, SwitchMode, BottomRight,
       Ignore, found
  <2> QED BY <2>2, <1>1, <1>7 DEF OtherKeys, searching
<1>8. ASSUME \/ \E k \in Key : DPress(k)
             \/ Idle \/ UNCHANGED dvars
      PROVE  Answered'
  <2>1. UNCHANGED <<task, results_count, g_results, call>>
    BY <1>8 DEF DPress, Idle, dvars, vars, found, searching
  <2> QED BY <2>1, <1>1
<1> QED BY <1>2, <1>3, <1>4, <1>5, <1>6, <1>7, <1>8
    DEF DNext, Run, EnterKey, BeginFirstSearch, BeginEnter

\* The invariant holds at start-up.
LEMMA DInvInit == DInit => DInv /\ UI!Init /\ D!Init
<1> SUFFICES ASSUME DInit PROVE DInv /\ UI!Init /\ D!Init
  OBVIOUS
<1>1. Pending = <<>> /\ task = "none" /\ handling = <<>>
  BY DEF DInit, Init, Pending
<1>2. UP!Init /\ UI!Init
  BY <1>1 DEF DInit, Init, UP!Init, UI!Init, Slot, UP!Slot, UI!Slot, Row, UP!Row, UI!Row
<1>3. ScreenPart
  BY <1>2, UP!TypeInit, UP!ScreenInit, SizeAssumption, KeyAssumption, KanaAssumption, HitsAssumption
     DEF ScreenPart, Word, UP!Word, Reading, UP!Reading, Byte, UP!Byte, Command, UP!Command,
         DEL, UP!DEL, CR, UP!CR, LF, UP!LF, One, UP!One, Two, UP!Two, Three, UP!Three,
         Four, UP!Four
<1>4. D!Init /\ DP!Init
  BY DatabaseAssumption DEF DInit, Init, D!Init, DP!Init, D!Slot, DP!Slot, Slot
<1>5. DP!Inv
  BY <1>4, DP!InvInit, TableAssumption
     DEF D!Whole, DP!Whole, D!WholeAt, DP!WholeAt, D!Continuing, DP!Continuing, D!Row, DP!Row, D!Byte, DP!Byte,
         D!Text, DP!Text, D!Elements, DP!Elements
<1>6. Waiting /\ Kept
  BY <1>1 DEF DInit, Init, Waiting, Kept
<1>7. Answered
  <2>1. Len(DP!Answer) \in Nat
    BY DictRows DEF DP!Answer
  <2> QED BY <2>1, SizeAssumption DEF DInit, Init, Answered, Slot
<1> QED BY <1>2, <1>3, <1>4, <1>5, <1>6, <1>7 DEF DInv

\* Every step keeps it: the two modules' parts by their own lemmas.
LEMMA DInvNext == DInv /\ [DNext]_dvars => DInv'
<1> SUFFICES ASSUME DInv, [DNext]_dvars PROVE DInv'
  OBVIOUS
<1>1. Waiting'
  BY WaitingStep
<1>2. Kept' /\ Answered'
  BY <1>1, KeptStep, AnsweredStep
<1>3. ScreenPart'
  <2>1. [UP!Next]_(UP!vars)
    BY ScreenSteps, SameStep
  <2> QED BY <2>1, UIStep DEF DInv, ScreenPart
<1>4. DP!Inv'
  <2>1. [DP!Next]_(DP!vars)
    BY DictPart, SameDictStep
  <2> QED BY <2>1, DictStep DEF DInv
<1> QED BY <1>1, <1>2, <1>3, <1>4 DEF DInv

\* It always holds.
LEMMA Invariance == DSpec => []DInv
<1>1. DInit => DInv
  BY DInvInit
<1> QED BY <1>1, DInvNext, PTL DEF DSpec

-----------------------------------------------------------------------------
(* The theorems. *)

\* The handler with the row-by-row search implements PocketUI: no key, label or
\* failure in the middle of a search shows that it is not one step.
THEOREM RefinesPocketUI == DSpec => ImplementsUI
<1>1. DInit => UI!Init
  BY DInvInit
<1>2. DInv /\ [DNext]_dvars => [UI!Next]_(UI!vars)
  BY ScreenSteps
<1> QED BY <1>1, <1>2, Invariance, PTL DEF DSpec, ImplementsUI, UI!SafeSpec

\* The handler uses the dictionary as module Dict specifies it: it opens it
\* once, makes one search at a time, and touches no slot or count of its own.
THEOREM UsesDict == DSpec => D!Spec
<1>1. DInit => D!Init
  BY DInvInit
<1>2. DInv /\ [DNext]_dvars => [D!Next]_(D!vars)
  BY DictPart
<1> QED BY <1>1, <1>2, Invariance, PTL DEF DSpec, D!Spec

\* The screen agrees with the state of the program whenever no search is under
\* way, although the slots it was made from are overwritten row by row.
THEOREM ScreenAgrees ==
  DSpec => [](task = "none" => /\ SelectionInResults /\ ScreenShowsResults
                               /\ DetailsOfSelection /\ WhatIsShownIsSearched /\ PromptOfMode)
<1>1. DInv /\ task = "none" => /\ SelectionInResults /\ ScreenShowsResults
                               /\ DetailsOfSelection /\ WhatIsShownIsSearched /\ PromptOfMode
  BY DEF DInv, ScreenPart, UP!ScreenInv, UP!Shown, UP!Typed,
     SelectionInResults, UP!SelectionInResults, ScreenShowsResults, UP!ScreenShowsResults,
     DetailsOfSelection, UP!DetailsOfSelection, WhatIsShownIsSearched, UP!WhatIsShownIsSearched,
     PromptOfMode, UP!PromptOfMode, Prompt, UP!Prompt, Row, UP!Row
<1> QED BY <1>1, Invariance, PTL

\* Every row on the screen is the entry that the table has, in its place, for
\* the latest search.
THEOREM ScreenAnswers == DSpec => []ScreenAnswersQuery
<1>1. ASSUME DInv, pc = "loop", task = "none", NEW i \in Row, window_start + i < results_count
      PROVE  /\ window_start + i < Len(D!Matching("simulator", call))
             /\ list_items[i] =
                  D!EntryOf("simulator", D!Matching("simulator", call)[window_start + i + 1])
  <2> DEFINE w == window_start + i
             m == D!Matching("simulator", call)
  <2>1. w \in Slot /\ w + 1 \in 1..Len(DP!Answer) /\ w \in Nat
    <3>1. window_start \in Nat /\ results_count \in 0..MAX_RESULTS /\ i \in Nat
      BY <1>1, SizeAssumption DEF DInv, ScreenPart, UP!TypeOK, UP!WindowOK, UP!FoundOK, UP!Slot, Row
    <3>2. results_count <= Len(DP!Answer) /\ Len(DP!Answer) \in Nat
      BY <1>1, DictRows DEF DInv, Answered, DP!Answer
    <3> QED BY <1>1, <3>1, <3>2, SizeAssumption DEF Slot
  <2>2. list_items[i] = g_results[w]
    BY <1>1 DEF DInv, ScreenPart, UP!ScreenInv, UP!Shown, UP!ScreenShowsResults, Row, UP!Row
  <2>3. g_results[w] = D!EntryOf("simulator", DP!Answer[w + 1])
    BY <1>1, <2>1, SameRows DEF DInv, Answered
  <2>4. m \in Seq(DP!Rows) /\ w + 1 <= Len(m) /\ DP!Answer[w + 1] = m[w + 1]
    <3>1. DP!Matching("simulator", call) = m /\ DP!Answer = DP!Limited(m)
      BY SameRows DEF DP!Answer
    <3> QED BY <3>1, <2>1, DictRows
  <2> HIDE DEF m, w
  <2> QED BY <2>1, <2>2, <2>3, <2>4 DEF m, w
<1>2. DInv => ScreenAnswersQuery
  BY <1>1 DEF ScreenAnswersQuery
<1> QED BY <1>2, Invariance, PTL
=============================================================================
