------------------------------- MODULE Device -------------------------------
(***************************************************************************)
(* The whole application of the simulator build: the key handler of        *)
(* lvgldemo.c (PocketUI) calling the dictionary of dict.c (Dict), with     *)
(* the handle and the result array they share.  PocketUI takes a search    *)
(* for one step; here it goes row by row, the slots are overwritten while  *)
(* the labels still show the earlier results, and the user goes on typing. *)
(***************************************************************************)
EXTENDS PocketUI

CONSTANTS Table, DICT_WORD_LEN, DICT_ACCENT_LEN, DICT_DETAIL_LEN, sanitize(_)

VARIABLES
  task,     \* who waits for a search: "none", "boot" (main) or "enter"
  handling, \* the Enter whose search is under way: <<>> or <<k>>
  before,   \* history: the slots as they were when the latest search began or ended
  dpc, call, cursor, n, rc      \* variables of Dict (its pc is dpc)

searching == <<dpc, call, cursor, n, rc>>
labels == <<typing, window, bottom_sel_index>>
dvars == <<vars, task, handling, before, searching>>

\* romaji__hira_to_kata of romaji.rs.
NoShift(s) == s

\* The strings the two callers search for: main()'s "ame", words and readings.
Asked == {<<97, 109, 101>>} \cup Word \cup Reading

D == INSTANCE Dict WITH
  Builds <- {"simulator"}, build <- "simulator", HiraToKata <- NoShift,
  Query <- Asked, DICT_MAX_RESULTS <- MAX_RESULTS, pc <- dpc

\* What the slots of a complete search hold, uncapped.
HitsOf(q, en) ==
  LET rows == D!Matching("simulator", [query |-> q, en |-> en])
  IN  [k \in DOMAIN rows |-> D!EntryOf("simulator", rows[k])]

\* The table and the sizes are as module Dict assumes.
ASSUME TableAssumption == D!SizeAssumption /\ D!TableAssumption /\ D!TextAssumption

\* The hits PocketUI is told of are those of the table, and its blank slot is
\* a zeroed DictEntry.
ASSUME DatabaseAssumption ==
  /\ Blank = [word |-> <<>>, detail |-> <<>>]
  /\ \A w \in Word : EnHits(w) = HitsOf(w, TRUE)
  /\ \A r \in Reading \cup {<<97, 109, 101>>} : JpHits(r) = HitsOf(r, FALSE)

-----------------------------------------------------------------------------
DInit ==
  /\ Init
  /\ task = "none" /\ handling = <<>>
  /\ before = g_results
  /\ dpc = "idle" /\ call = [query |-> <<>>, en |-> FALSE]
  /\ cursor = <<>> /\ n = 0 /\ rc = "none"

\* Keys read and not yet dealt with: the Enter whose search is under way too.
Pending == handling \o tty

\* A call of dict_search or dict_search_en by t.
Call(t, q, en) ==
  /\ task = "none"
  /\ task' = t
  /\ before' = g_results
  /\ D!Prepare(q, en)

\* The rows of the search; the caller waits for them.
SearchStep ==
  /\ D!StoreWord \/ D!StoreDetail \/ D!Return
  /\ UNCHANGED <<pc, tty, labels, results_count, task, handling, before>>

\* The call has returned to t.
Returned(t) ==
  /\ task = t /\ dpc = "idle"
  /\ task' = "none" /\ handling' = <<>>
  /\ before' = g_results
  /\ UNCHANGED <<tty, g_db, g_results, searching>>

BeginFirstSearch ==
  /\ pc = "db"
  /\ Call("boot", <<97, 109, 101>>, FALSE)
  /\ UNCHANGED <<pc, tty, labels, results_count, handling>>

EndFirstSearch ==
  /\ Returned("boot")
  /\ pc' = "input"
  /\ UNCHANGED <<labels, results_count>>

\* The parts of main() that make no search.
BootStep ==
  /\ InitDisplay \/ OpenDb \/ create_ui
  /\ UNCHANGED <<task, handling, before, searching>>

\* Mutant: a Japanese search asks for the letters typed.
TypedWord == search_word

Question == IF en_mode THEN search_word ELSE furigana_word

BeginEnter(k) ==
  /\ Reads(k)
  /\ handling' = <<k>>
  /\ Call("enter", Question, en_mode)
  /\ UNCHANGED <<labels, results_count>>

\* The count is taken over and the labels are written.
EndEnter ==
  /\ Returned("enter")
  /\ UNCHANGED pc
  /\ results_count' = n
  /\ ShowAnswer

\* A key that makes no search; poll_keyboard() is not called during one.
OtherKeys ==
  /\ task = "none"
  /\ \/ \E c \in Letter : TypeLetter(c) \/ Overrun(c)
     \/ Backspace \/ Up \/ Down \/ SwitchMode \/ BottomRight
     \/ \E k \in OtherKey : Ignore(k)
  /\ UNCHANGED <<task, handling, before, searching>>

EnterKey == (\E k \in {CR, LF} : BeginEnter(k)) \/ EndEnter

\* The bound of Press, with the Enter under way among the keys.
DPress(k) ==
  /\ pc \notin {"exit", "overrun"}
  /\ Len(Pending) < TTY_CAP
  /\ tty' = Append(tty, k)
  /\ UNCHANGED <<pc, labels, found, g_db, task, handling, before, searching>>

Idle == (NoInput \/ Stopped) /\ UNCHANGED dvars

Run == BootStep \/ BeginFirstSearch \/ EndFirstSearch \/ OtherKeys \/ EnterKey \/ SearchStep

DNext == Run \/ (\E k \in Key : DPress(k)) \/ Idle

\* The one thread runs on, through start-up, searches and keys.
DSpec == DInit /\ [][DNext]_dvars /\ WF_dvars(Run)

-----------------------------------------------------------------------------
(* Properties. *)

\* The application as PocketUI specifies it: the search as one step, taken when
\* Enter is done.  Until then its key counts as unread and the slots as they
\* were, so no key, no label and no failure in the middle of a search can tell
\* that the rows arrive one by one.
UI == INSTANCE PocketUI WITH
  tty <- Pending,
  g_results <- IF task = "none" THEN g_results ELSE before

ImplementsUI == UI!SafeSpec

\* Between two keys every row on the screen is the entry that the table has, in
\* its place, for the latest search that was made: a search that fails half-way
\* or at once never leaves rows of another question under a count.
ScreenAnswersQuery ==
  (pc = "loop" /\ task = "none" /\ results_count > 0) =>
    LET rows == D!Matching("simulator", call)
    IN  \A i \in Row : window_start + i < results_count =>
          /\ window_start + i < Len(rows)
          /\ list_items[i] = D!EntryOf("simulator", rows[window_start + i + 1])

\* Once Enter is in the console's buffer, the word being typed is cleared in
\* the end, after all the keys before it, however many the user types behind it
\* and however the search ends, unless a word has overrun search_word.
EnterIsHonoured ==
  (search_word # <<>> /\ \E j \in DOMAIN Pending : Pending[j] \in {CR, LF})
    ~> (search_word = <<>> \/ pc = "overrun")

\* A '3' at the head of the buffer always changes the mode, also when it was
\* typed during a search.
SwitchIsHonoured ==
  \A m \in BOOLEAN : (pc = "loop" /\ tty # <<>> /\ Head(tty) = Three /\ en_mode = m)
                       ~> (en_mode # m)
=============================================================================
