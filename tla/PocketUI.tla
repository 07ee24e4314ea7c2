------------------------------ MODULE PocketUI ------------------------------
(***************************************************************************)
(* The application of the simulator build,                                 *)
(* NUTTXSIM/apps/examples/lvgldemo/lvgldemo.c: main()'s start-up sequence, *)
(* the key handler poll_keyboard() that LVGL's input timer calls, and the  *)
(* labels the handler writes.                                              *)
(*                                                                         *)
(* The program is one thread.  A call of poll_keyboard() reads at most one *)
(* byte of the console and runs to its end before the next call, so each   *)
(* key is one action.  The only other actor is the user, who types ahead   *)
(* into the console's receive buffer (tty).                                *)
(*                                                                         *)
(* Colours, fonts and layout are left out, and so is the accent label:     *)
(* dict.c only ever stores the empty string in it.  `entries' always       *)
(* points at g_results once main() has made its first search.              *)
(***************************************************************************)
EXTENDS Integers, Sequences

CONSTANTS
  Letter,       \* the bytes 'a'..'z' the user types
  OtherKey,     \* bytes poll_keyboard() reads and ignores
  WORD_CAP,     \* sizeof search_word and furigana_word (512)
  MAX_RESULTS,  \* DICT_MAX_RESULTS (64)
  LIST_COUNT,   \* list_element_count (5), the selected label included
  BOTTOM_ITEM_COUNT,    \* 4
  TTY_CAP,      \* bound: keys typed ahead of the handler
  Kana(_),      \* Kana(w): what romaji_to_kana leaves in furigana_word for w
  JpHits(_),    \* the rows SQLite has for dict_search(q), in order
  EnHits(_),    \* the same for dict_search_en(q)
  Entry,        \* what a row puts into a result slot (word and detail)
  Blank,        \* a zeroed slot, and the text "" of a list label
  Help,         \* the key help create_ui puts into the details label
  PromptJP, PromptEN,   \* the two prompts of the search label
  NULL          \* a label that is not created yet

VARIABLES
  pc,               \* where main() is: "start", "display", "db", "input", "loop",
                    \* "exit", or "overrun" once a write has left search_word
  tty,              \* bytes typed and not yet read from STDIN_FILENO
  search_word, furigana_word, en_mode, bottom_sel_index,
  window_start, results_count,
  g_db,             \* dict.c: "NULL", "open", or "failed" (dict_open returned 1)
  g_results,        \* dict.c: the static result array `entries' points to
  search, furigana, list_items, details_label, bot_label    \* label texts

typing == <<search_word, furigana_word, en_mode, search, furigana>>
found  == <<results_count, g_results>>
window == <<window_start, list_items, details_label, bot_label>>
vars   == <<pc, tty, typing, found, window, bottom_sel_index, g_db>>

-----------------------------------------------------------------------------
DEL == 127
CR  == 13
LF  == 10
One == 49
Two == 50
Three == 51
Four == 52

TopByte == 16777216     \* 2^24

Command == {DEL, CR, LF, One, Two, Three, Four}
Key == Letter \cup OtherKey \cup Command

Byte == 1..255
\* Typed words that fit search_word with their terminator, and their readings.
Word == UNION {[1..k -> Letter] : k \in 0..(WORD_CAP - 1)}
Reading == {Kana(w) : w \in Word}
Slot == 0..(MAX_RESULTS - 1)
Row  == 0..(LIST_COUNT - 1)

ASSUME SizeAssumption ==
  /\ WORD_CAP \in Nat \ {0, 1}
  /\ MAX_RESULTS \in 1..64
  /\ LIST_COUNT \in Nat \ {0}
  /\ BOTTOM_ITEM_COUNT \in Nat \ {0}
  /\ TTY_CAP \in Nat \ {0}

ASSUME KeyAssumption ==
  /\ Letter \subseteq 97..122
  /\ OtherKey \subseteq Byte \ (97..122 \cup Command)

\* What module Romaji establishes of the converter.
ASSUME KanaAssumption ==
  /\ \A w \in Word : Kana(w) \in Seq(Byte) /\ Len(Kana(w)) < WORD_CAP
  /\ Kana(<<>>) = <<>>

ASSUME HitsAssumption ==
  /\ \A w \in Word : EnHits(w) \in Seq(Entry)
  /\ \A r \in Reading : JpHits(r) \in Seq(Entry)
  /\ JpHits(<<97, 109, 101>>) \in Seq(Entry)

-----------------------------------------------------------------------------
Init ==
  /\ pc = "start"
  /\ tty = <<>>
  /\ search_word = <<>>
  /\ furigana_word = <<>>
  /\ en_mode = FALSE
  /\ bottom_sel_index = 0
  /\ window_start = 0
  /\ results_count = 0
  /\ g_db = "NULL"
  /\ g_results = [k \in Slot |-> Blank]
  /\ search = NULL
  /\ furigana = NULL
  /\ list_items = [i \in Row |-> NULL]
  /\ details_label = NULL
  /\ bot_label = NULL

-----------------------------------------------------------------------------
(* The dictionary as the handler sees it (module Dict has the loop). *)

\* Mutant: the count is not capped.
Uncapped(k) == k
Capped(k) == IF k < MAX_RESULTS THEN k ELSE MAX_RESULTS

\* How many rows a search can store.  It stops early when sqlite3_step or
\* sqlite3_prepare_v2 fails.  dict.c does not look at the handle itself: that
\* the prepare fails on one that did not open is assumed of SQLite.
Found(hits) == IF g_db = "open" THEN 0..Capped(Len(hits)) ELSE {0}

\* The slots after storing the first n of hits: later slots keep old rows.
Filled(n, hits) == [k \in Slot |-> IF k < n THEN hits[k + 1] ELSE g_results[k]]

-----------------------------------------------------------------------------
(* Writing the labels. *)

Prompt(en) == IF en THEN PromptEN ELSE PromptJP

update_search_bar(f_word, s_word) ==
  /\ furigana' = f_word
  /\ search' = s_word

\* Mutant: the count is the one of the search before.
update_resultsLate == bot_label' = <<window_start' + 1, results_count>>

\* "%d/%d" of the selected position and the number of results.
update_results == bot_label' = <<window_start' + 1, results_count'>>

\* The labels of populate_list(start) except details_label; list_items[0] is
\* the container of selected_label, so the loop rewrites that label too.
ShowWindow(start) ==
  /\ window_start' = start
  /\ list_items' = [i \in Row |-> IF start + i < results_count'
                                  THEN g_results'[start + i] ELSE Blank]
  /\ update_results

\* Mutant: the details are read before window_start is moved.
OldDetails(start) == details_label' = g_results'[window_start]
Details(start) == details_label' = g_results'[start]

populate_list(start) == ShowWindow(start) /\ Details(start)

-----------------------------------------------------------------------------
(* main() up to its loop. *)

\* lv_init .. lv_nuttx_init: without a display main() returns 1.
InitDisplay ==
  /\ pc = "start"
  /\ pc' \in {"display", "exit"}
  /\ UNCHANGED <<tty, typing, found, window, bottom_sel_index, g_db>>

\* mount_hostfs, dict_open: neither result is looked at.
OpenDb ==
  /\ pc = "display"
  /\ pc' = "db"
  /\ g_db' \in {"open", "failed"}
  /\ UNCHANGED <<tty, typing, found, window, bottom_sel_index>>

\* dict_search("ame", &entries): fills slots, the count is dropped.
FirstSearch ==
  /\ pc = "db"
  /\ pc' = "input"
  /\ LET hits == JpHits(<<97, 109, 101>>)
     IN  \E n \in Found(hits) : g_results' = Filled(n, hits)
  /\ UNCHANGED <<tty, typing, results_count, window, bottom_sel_index, g_db>>

\* Raw mode, the input device, and the labels with their first texts.
create_ui ==
  /\ pc = "input"
  /\ pc' = "loop"
  /\ update_search_bar(<<>>, PromptJP)
  /\ UNCHANGED found
  /\ ShowWindow(0)
  /\ details_label' = Help
  /\ UNCHANGED <<tty, search_word, furigana_word, en_mode, bottom_sel_index, g_db>>

-----------------------------------------------------------------------------
(* poll_keyboard(), one action per key. *)

\* The byte read is k.
Reads(k) ==
  /\ pc = "loop"
  /\ tty # <<>>
  /\ Head(tty) = k
  /\ tty' = Tail(tty)
  /\ UNCHANGED <<pc, g_db>>

\* Mutant: a shorter word is not converted again.
ToKanaIfLonger(word) ==
  furigana_word' = IF Len(word) > Len(search_word) THEN Kana(word) ELSE furigana_word
ToKana(word) == furigana_word' = Kana(word)

\* romaji_to_kana(search_word, furigana_word, ..) and update_search_bar.
ConvertAndEcho(word) ==
  /\ search_word' = word
  /\ ToKana(word)
  /\ update_search_bar(furigana_word', word)

\* search_word has room for a letter and the NUL behind it.
HasRoom == Len(search_word) + 1 < WORD_CAP

TypeLetter(c) ==
  /\ HasRoom
  /\ Reads(c)
  /\ ConvertAndEcho(Append(search_word, c))
  /\ UNCHANGED <<en_mode, found, window, bottom_sel_index>>

\* poll_keyboard does not compare len with the size of search_word: the letter
\* that fills it puts its NUL behind the array, which is undefined behaviour.
\* (With furigana_word behind it the conversion overwrites that NUL, and the
\* word has no end.)  Nothing is said of what the program does from then on.
Overrun(c) ==
  /\ ~HasRoom
  /\ pc = "loop" /\ tty # <<>> /\ Head(tty) = c
  /\ tty' = Tail(tty)
  /\ pc' = "overrun"
  /\ search_word' = Append(search_word, c)
  /\ UNCHANGED <<furigana_word, search, furigana, en_mode, found, window, bottom_sel_index, g_db>>

\* With nothing typed, search_word[len - 1] is the byte before the array.
\* Depending on how the build orders its statics that is padding, the last
\* byte of furigana_word (rewritten below), or the top byte of results_count.
Backspace ==
  /\ Reads(DEL)
  /\ IF search_word = <<>>
     THEN results_count' \in {results_count, results_count % TopByte}
     ELSE UNCHANGED results_count
  /\ ConvertAndEcho(SubSeq(search_word, 1, Len(search_word) - 1))
  /\ UNCHANGED <<en_mode, g_results, window, bottom_sel_index>>

Up ==
  /\ Reads(One)
  /\ UNCHANGED <<typing, found, bottom_sel_index>>
  /\ IF window_start > 0 THEN populate_list(window_start - 1) ELSE UNCHANGED window

\* Mutant: the last position is one too far.
ResultsBelowOrHere == window_start < results_count
ResultsBelow == window_start < results_count - 1

Down ==
  /\ Reads(Two)
  /\ UNCHANGED <<typing, found, bottom_sel_index>>
  /\ IF ResultsBelow THEN populate_list(window_start + 1) ELSE UNCHANGED window

BottomLeft == bottom_sel_index' = IF bottom_sel_index > 0 THEN bottom_sel_index - 1
                                                          ELSE bottom_sel_index

\* Mutant: there is no way back from English.
ToEnglish == en_mode' = TRUE
ToggleMode == en_mode' = ~en_mode

\* Mutant: the prompt is chosen before the mode is changed.
OldPrompt == search' = Prompt(en_mode)
ModePrompt == search' = Prompt(en_mode')

\* '3' is tested twice: it moves the bottom selection and switches the mode.
SwitchMode ==
  /\ Reads(Three)
  /\ BottomLeft
  /\ ToggleMode
  /\ search_word' = <<>>
  /\ ModePrompt
  /\ UNCHANGED <<furigana_word, furigana, found, window>>

BottomRight ==
  /\ Reads(Four)
  /\ bottom_sel_index' = IF bottom_sel_index < BOTTOM_ITEM_COUNT - 1
                         THEN bottom_sel_index + 1 ELSE bottom_sel_index
  /\ UNCHANGED <<typing, found, window>>

\* dict_search or dict_search_en: the count and the slots.
Lookup ==
  LET hits == IF en_mode THEN EnHits(search_word) ELSE JpHits(furigana_word)
  IN  \E n \in Found(hits) : results_count' = n /\ g_results' = Filled(n, hits)

\* Mutant: an English search does not clear the word.
ClearReading == search_word' = IF en_mode THEN search_word ELSE <<>>
ClearWord == search_word' = <<>>

\* Mutant: the new results are shown from the old position on.
ShowFromHere == populate_list(window_start)
ShowFromTop == populate_list(0)

\* What Enter does after its search.  A Japanese search leaves furigana_word
\* and its label as they are; an English one copies the typed word into the
\* furigana label.
ShowAnswer ==
  /\ furigana' = IF en_mode THEN search_word ELSE furigana
  /\ UNCHANGED <<furigana_word, en_mode, bottom_sel_index>>
  /\ ClearWord
  /\ ModePrompt
  /\ ShowFromTop

Enter(k) == Reads(k) /\ Lookup /\ ShowAnswer

Ignore(k) ==
  /\ Reads(k)
  /\ UNCHANGED <<typing, found, window, bottom_sel_index>>

\* read() finds nothing, and c keeps its value '0'.
NoInput ==
  /\ pc = "loop"
  /\ tty = <<>>
  /\ UNCHANGED vars

poll_keyboard ==
  \/ \E c \in Letter : TypeLetter(c) \/ Overrun(c)
  \/ Backspace
  \/ Up
  \/ Down
  \/ SwitchMode
  \/ BottomRight
  \/ \E k \in {CR, LF} : Enter(k)
  \/ \E k \in OtherKey : Ignore(k)

-----------------------------------------------------------------------------
(* The user types any key at any time.  Bound: TTY_CAP keys wait.          *)
Press(k) ==
  /\ pc \notin {"exit", "overrun"}
  /\ Len(tty) < TTY_CAP
  /\ tty' = Append(tty, k)
  /\ UNCHANGED <<pc, typing, found, window, bottom_sel_index, g_db>>

Stopped == pc \in {"exit", "overrun"} /\ UNCHANGED vars

Boot == InitDisplay \/ OpenDb \/ FirstSearch \/ create_ui

Next ==
  \/ Boot
  \/ poll_keyboard
  \/ NoInput
  \/ \E k \in Key : Press(k)
  \/ Stopped

\* main() runs on, and its loop calls lv_timer_handler() forever, which calls
\* poll_keyboard() each period.  The user owes nothing.
Fairness == WF_vars(Boot) /\ WF_vars(poll_keyboard)

SafeSpec == Init /\ [][Next]_vars
Spec == SafeSpec /\ Fairness

-----------------------------------------------------------------------------
(* Properties. *)

TypingOK ==
  /\ search_word \in Word \/ (pc = "overrun" /\ search_word \in [1..WORD_CAP -> Letter])
  /\ furigana_word \in Reading
  /\ en_mode \in BOOLEAN
  /\ search \in Word \cup {PromptJP, PromptEN, NULL}
  /\ furigana \in Word \cup Reading \cup {NULL}

FoundOK ==
  /\ results_count \in 0..MAX_RESULTS
  /\ g_results \in [Slot -> Entry \cup {Blank}]

WindowOK ==
  /\ window_start \in Slot
  /\ list_items \in [Row -> Entry \cup {Blank, NULL}]
  /\ details_label \in Entry \cup {Blank, Help, NULL}
  /\ bot_label \in {NULL} \cup ((1..MAX_RESULTS) \X (0..MAX_RESULTS))

\* Typing alone leaves the types, by a word that fills search_word; the count,
\* the slots and the position never leave their arrays.
TypeOK ==
  /\ pc \in {"start", "display", "db", "input", "loop", "exit", "overrun"}
  /\ tty \in Seq(Key)
  /\ bottom_sel_index \in 0..(BOTTOM_ITEM_COUNT - 1)
  /\ g_db \in {"NULL", "open", "failed"}
  /\ TypingOK
  /\ FoundOK
  /\ WindowOK

\* The selection never leaves the results: poll_keyboard compares window_start
\* with the count of the latest search, so no order of searches, moves and
\* backspaces makes populate_list read a slot the search did not fill, except
\* slot 0 of an empty result.
SelectionInResults ==
  /\ results_count > 0 => window_start < results_count
  /\ results_count = 0 => window_start = 0

\* Every label is up to date between two keys: the rows are the results from
\* window_start on, blank after the last one, and the counter agrees.
ScreenShowsResults ==
  pc = "loop" =>
    /\ \A i \in Row : list_items[i] = IF window_start + i < results_count
                                      THEN g_results[window_start + i] ELSE Blank
    /\ bot_label = <<window_start + 1, results_count>>

\* The details are those of the first row whenever there is a first row: what
\* the selected label names is what the details label explains.
DetailsOfSelection ==
  (pc = "loop" /\ results_count > 0) => details_label = list_items[0]

\* While something is typed, the search label shows it, the furigana label its
\* reading, and a Japanese search would look up that reading: no mode switch,
\* search or backspace leaves an old reading beside a new word.
WhatIsShownIsSearched ==
  (pc = "loop" /\ search_word # <<>>) =>
    /\ search = search_word
    /\ furigana_word = Kana(search_word)
    /\ furigana = furigana_word

\* With nothing typed the search label is the prompt of the mode Enter will
\* search in, or empty after a backspace.
PromptOfMode ==
  (pc = "loop" /\ search_word = <<>>) => search \in {<<>>, Prompt(en_mode)}

\* A key only moves the selection by one row or, with Enter, back to the first;
\* the results themselves change under Enter only.
SelectionMoves ==
  [][ /\ window_start' \in {window_start - 1, window_start, window_start + 1, 0}
      /\ (pc = "loop" /\ <<results_count', g_results'>> # <<results_count, g_results>>)
           => window_start' = 0 /\ search_word' = <<>> ]_vars

\* The list part of the screen implements ResultList: the results are the
\* first results_count slots of g_results, the cursor is window_start.
Screen == INSTANCE ResultList WITH
  Item <- Entry, Capacity <- MAX_RESULTS, Rows <- LIST_COUNT,
  Empty <- Blank, Dark <- NULL,
  lit <- pc \in {"loop", "overrun"},
  results <- [k \in 1..results_count |-> g_results[k - 1]],
  cursor <- window_start, rows <- list_items, counter <- bot_label

ImplementsResultList == Screen!Spec

-----------------------------------------------------------------------------
(* What the program and its documents say of it and the code does not do.  *)

\* "search cleared" (lvgldemo.c:146): nothing of the search is kept.
SearchCleared == (pc = "loop" /\ search_word = <<>>) => furigana_word = <<>>

\* dict.h:21-22, "valid until the next dict_search call": an entry of an
\* earlier search is not used after a search that found nothing.
NoDetailsOfAnOldSearch ==
  (pc = "loop" /\ results_count = 0) => details_label \in {Help, Blank}
=============================================================================
