--------------------------- MODULE PocketUIProofs ---------------------------
(***************************************************************************)
(* Proofs about module PocketUI, for every alphabet, buffer size, number   *)
(* of results, converter and dictionary.                                   *)
(***************************************************************************)
EXTENDS PocketUI, TLAPS

-----------------------------------------------------------------------------
(* Words. *)

\* A word is a sequence of letters that leaves room for the terminator.
LEMMA WordIsSeq ==
  \A w : w \in Word <=> (w \in Seq(Letter) /\ Len(w) < WORD_CAP)
<1>1. ASSUME NEW w, w \in Word PROVE w \in Seq(Letter) /\ Len(w) < WORD_CAP
  <2>1. PICK k \in 0..(WORD_CAP - 1) : w \in [1..k -> Letter]
    BY <1>1 DEF Word
  <2>2. w \in Seq(Letter) /\ Len(w) = k
    BY <2>1, SizeAssumption
  <2> QED BY <2>1, <2>2, SizeAssumption
<1>2. ASSUME NEW w, w \in Seq(Letter), Len(w) < WORD_CAP PROVE w \in Word
  <2>1. Len(w) \in 0..(WORD_CAP - 1) /\ w \in [1..Len(w) -> Letter]
    BY <1>2, SizeAssumption
  <2> QED BY <2>1 DEF Word
<1> QED BY <1>1, <1>2

\* Nothing typed is a word, and its reading a reading.
LEMMA EmptyWord == <<>> \in Word /\ <<>> \in Reading
<1>1. <<>> \in Word
  <2>1. <<>> \in Seq(Letter) /\ Len(<<>>) < WORD_CAP
    BY SizeAssumption
  <2> QED BY <2>1, WordIsSeq
<1> QED BY <1>1, KanaAssumption DEF Reading

\* Typing a letter makes a word of a word that leaves room for it.
LEMMA AppendWord ==
  ASSUME NEW w \in Word, NEW c \in Letter, Len(w) + 1 < WORD_CAP
  PROVE  Append(w, c) \in Word /\ Len(Append(w, c)) = Len(w) + 1
<1>1. w \in Seq(Letter)
  BY WordIsSeq
<1>2. Append(w, c) \in Seq(Letter) /\ Len(Append(w, c)) = Len(w) + 1
  BY <1>1
<1> QED BY <1>2, WordIsSeq

\* What a backspace leaves is a word.
LEMMA FrontWord ==
  ASSUME NEW w \in Word
  PROVE  /\ SubSeq(w, 1, Len(w) - 1) \in Word
         /\ Len(SubSeq(w, 1, Len(w) - 1)) <= Len(w)
<1>1. w \in Seq(Letter) /\ Len(w) < WORD_CAP /\ Len(w) \in Nat
  BY WordIsSeq
<1>2. SubSeq(w, 1, Len(w) - 1) \in Seq(Letter)
  BY <1>1
<1>3. Len(SubSeq(w, 1, Len(w) - 1)) <= Len(w)
  <2>1. CASE Len(w) = 0
    BY <1>1, <2>1
  <2>2. CASE Len(w) > 0
    BY <1>1, <2>2
  <2> QED BY <1>1, <2>1, <2>2
<1>4. Len(SubSeq(w, 1, Len(w) - 1)) < WORD_CAP
  <2> DEFINE f == SubSeq(w, 1, Len(w) - 1)
  <2>1. Len(f) \in Nat
    BY <1>2
  <2> HIDE DEF f
  <2> QED BY <1>1, <1>3, <2>1, SizeAssumption DEF f
<1> QED BY <1>2, <1>3, <1>4, WordIsSeq

-----------------------------------------------------------------------------
(* Type correctness. *)

\* What a search finds fits the result array, and the slots it counts are entries.
LEMMA SearchFills ==
  ASSUME FoundOK, NEW hits \in Seq(Entry), NEW n \in Found(hits)
  PROVE  /\ n \in 0..MAX_RESULTS
         /\ Filled(n, hits) \in [Slot -> Entry \cup {Blank}]
         /\ \A k \in Slot : k < n => Filled(n, hits)[k] \in Entry
<1>1. n \in Nat /\ n <= MAX_RESULTS /\ n <= Len(hits)
  BY SizeAssumption DEF Found, Capped
<1>2. \A k \in Slot : k < n => hits[k + 1] \in Entry
  BY <1>1, SizeAssumption DEF Slot
<1>3. \A k \in Slot : g_results[k] \in Entry \cup {Blank}
  BY DEF FoundOK
<1> QED BY <1>1, <1>2, <1>3, SizeAssumption DEF Filled

\* Enter's search leaves a count and slots of the right kind.
LEMMA LookupFills ==
  ASSUME TypeOK, pc = "loop", Lookup
  PROVE  FoundOK' /\ \A k \in Slot : k < results_count' => g_results'[k] \in Entry
<1> DEFINE hits == IF en_mode THEN EnHits(search_word) ELSE JpHits(furigana_word)
<1>1. hits \in Seq(Entry)
  BY HitsAssumption DEF TypeOK, TypingOK
<1>2. PICK n \in Found(hits) : results_count' = n /\ g_results' = Filled(n, hits)
  BY DEF Lookup
<1> HIDE DEF hits
<1> QED BY <1>1, <1>2, SearchFills DEF TypeOK, FoundOK

\* populate_list writes labels of the right kind.
LEMMA ShowWindowType ==
  ASSUME FoundOK', NEW start \in Slot, ShowWindow(start)
  PROVE  /\ window_start' \in Slot
         /\ list_items' \in [Row -> Entry \cup {Blank, NULL}]
         /\ bot_label' \in {NULL} \cup ((1..MAX_RESULTS) \X (0..MAX_RESULTS))
<1>1. window_start' = start /\ start + 1 \in 1..MAX_RESULTS
  BY SizeAssumption DEF ShowWindow, Slot
<1>2. \A i \in Row : start + i < results_count' => start + i \in Slot
  BY SizeAssumption DEF FoundOK, Slot, Row
<1>3. list_items' \in [Row -> Entry \cup {Blank, NULL}]
  BY <1>2 DEF ShowWindow, FoundOK
<1>4. bot_label' \in (1..MAX_RESULTS) \X (0..MAX_RESULTS)
  BY <1>1 DEF ShowWindow, update_results, FoundOK
<1> QED BY <1>1, <1>3, <1>4

\* The same with the details.
LEMMA PopulateListType ==
  ASSUME FoundOK', NEW start \in Slot, populate_list(start)
  PROVE  WindowOK'
BY ShowWindowType DEF populate_list, Details, WindowOK, FoundOK

\* Reading a key leaves the keys behind it, and a word that fits search_word
\* unless it was overrun before.
LEMMA ReadsKeys ==
  ASSUME TypeOK, NEW k, Reads(k)
  PROVE  tty' \in Seq(Key) /\ pc = "loop" /\ pc' = pc /\ search_word \in Word
<1>1. tty \in Seq(Key) /\ tty # <<>> /\ tty' = Tail(tty)
  BY DEF TypeOK, Reads
<1>2. tty' \in Seq(Key)
  BY <1>1
<1> QED BY <1>2 DEF Reads, TypeOK, TypingOK

\* Converting a word and showing it keeps the types of the search bar.
LEMMA ConvertType ==
  ASSUME NEW word \in Word, ConvertAndEcho(word)
  PROVE  /\ search_word' = word /\ search_word' \in Word
         /\ furigana_word' \in Reading
         /\ search' \in Word /\ furigana' \in Reading
BY DEF ConvertAndEcho, ToKana, update_search_bar, Reading

\* A move that poll_keyboard allows stays in the result array.
LEMMA MovesStay ==
  ASSUME WindowOK, FoundOK
  PROVE  /\ window_start > 0 => window_start - 1 \in Slot
         /\ window_start < results_count - 1 => window_start + 1 \in Slot
<1>1. window_start \in 0..(MAX_RESULTS - 1) /\ results_count \in 0..MAX_RESULTS
  BY DEF WindowOK, FoundOK, Slot
<1>2. MAX_RESULTS \in Nat
  BY SizeAssumption
<1> QED BY <1>1, <1>2 DEF Slot

\* A step keeps the types.
LEMMA TypeStep ==
  ASSUME TypeOK, [Next]_vars
  PROVE  TypeOK'
<1> USE DEF TypeOK
<1>0. <<>> \in Word /\ <<>> \in Reading /\ 0 \in Slot
  BY EmptyWord, SizeAssumption DEF Slot
<1>1. CASE InitDisplay
  BY <1>1 DEF InitDisplay, typing, found, window, TypingOK, FoundOK, WindowOK
<1>2. CASE OpenDb
  BY <1>2 DEF OpenDb, typing, found, window, TypingOK, FoundOK, WindowOK
<1>3. CASE FirstSearch
  <2>1. PICK n \in Found(JpHits(<<97, 109, 101>>)) :
               g_results' = Filled(n, JpHits(<<97, 109, 101>>))
    BY <1>3 DEF FirstSearch
  <2>2. FoundOK'
    BY <1>3, <2>1, SearchFills, HitsAssumption DEF FirstSearch, FoundOK
  <2> QED BY <1>3, <2>2 DEF FirstSearch, typing, window, TypingOK, WindowOK
<1>4. CASE create_ui
  <2>1. FoundOK'
    BY <1>4 DEF create_ui, found, FoundOK
  <2>2. WindowOK'
    BY <1>0, <1>4, <2>1, ShowWindowType DEF create_ui, WindowOK
  <2>3. TypingOK'
    BY <1>0, <1>4 DEF create_ui, update_search_bar, TypingOK
  <2> QED BY <1>4, <2>1, <2>2, <2>3 DEF create_ui
<1>5. ASSUME NEW c \in Letter, TypeLetter(c) PROVE TypeOK'
  <2>1. Reads(c) /\ ConvertAndEcho(Append(search_word, c)) /\ Len(search_word) + 1 < WORD_CAP
    BY <1>5 DEF TypeLetter, HasRoom
  <2>2. tty' \in Seq(Key) /\ search_word \in Word
    BY <2>1, ReadsKeys
  <2>3. Append(search_word, c) \in Word
    BY <2>1, <2>2, AppendWord
  <2>4. TypingOK'
    BY <1>5, <2>1, <2>3, ConvertType DEF TypeLetter, TypingOK
  <2> QED BY <1>5, <2>2, <2>4 DEF TypeLetter, Reads, found, window, FoundOK, WindowOK
<1>15. ASSUME NEW c \in Letter, Overrun(c) PROVE TypeOK'
  <2>1. /\ tty \in Seq(Key) /\ tty # <<>> /\ tty' = Tail(tty)
        /\ pc = "loop" /\ pc' = "overrun" /\ ~(Len(search_word) + 1 < WORD_CAP)
        /\ search_word' = Append(search_word, c)
    BY <1>15 DEF Overrun, HasRoom
  <2>2. tty' \in Seq(Key)
    BY <2>1
  <2>3. search_word' \in [1..WORD_CAP -> Letter]
    <3>1. search_word \in Seq(Letter) /\ Len(search_word) < WORD_CAP
      BY <2>1, WordIsSeq DEF TypingOK
    <3>2. Len(search_word) + 1 = WORD_CAP
      BY <2>1, <3>1, SizeAssumption
    <3>3. /\ Append(search_word, c) \in Seq(Letter)
          /\ Len(Append(search_word, c)) = Len(search_word) + 1
      BY <3>1
    <3> DEFINE v == Append(search_word, c)
    <3> HIDE DEF v
    <3>4. v \in Seq(Letter) /\ Len(v) = WORD_CAP
      BY <3>2, <3>3 DEF v
    <3>5. v \in [1..WORD_CAP -> Letter]
      BY <3>4
    <3> QED BY <2>1, <3>5 DEF v
  <2>4. TypingOK'
    BY <1>15, <2>1, <2>3 DEF Overrun, TypingOK
  <2> QED BY <1>15, <2>1, <2>2, <2>4 DEF Overrun, found, window, FoundOK, WindowOK
<1>6. CASE Backspace
  <2> DEFINE w == SubSeq(search_word, 1, Len(search_word) - 1)
  <2>1. Reads(DEL) /\ ConvertAndEcho(w)
    BY <1>6 DEF Backspace
  <2>2. tty' \in Seq(Key) /\ search_word \in Word
    BY <2>1, ReadsKeys
  <2>3. w \in Word
    BY <2>2, FrontWord
  <2> HIDE DEF w
  <2>4. TypingOK'
    BY <1>6, <2>1, <2>3, ConvertType DEF Backspace, TypingOK
  <2>5. FoundOK'
    BY <1>6, SizeAssumption DEF Backspace, FoundOK, TopByte
  <2> QED BY <1>6, <2>2, <2>4, <2>5 DEF Backspace, Reads, window, WindowOK
<1>7. CASE Up
  <2>1. tty' \in Seq(Key) /\ pc = "loop" /\ pc' = pc /\ search_word \in Word
    BY <1>0, <1>7, ReadsKeys DEF Up, typing, TypingOK
  <2>2. TypingOK' /\ FoundOK'
    BY <1>7, <2>1 DEF Up, typing, found, TypingOK, FoundOK
  <2>3. WindowOK'
    <3>1. CASE window_start > 0
      <4>1. window_start - 1 \in Slot
        BY <3>1, MovesStay
      <4> QED BY <1>7, <2>2, <3>1, <4>1, PopulateListType DEF Up
    <3>2. CASE ~(window_start > 0)
      BY <1>7, <3>2 DEF Up, window, WindowOK
    <3> QED BY <3>1, <3>2
  <2> QED BY <1>7, <2>1, <2>2, <2>3 DEF Up, Reads
<1>8. CASE Down
  <2>1. tty' \in Seq(Key) /\ pc = "loop" /\ pc' = pc /\ search_word \in Word
    BY <1>0, <1>8, ReadsKeys DEF Down, ResultsBelow, typing, TypingOK
  <2>2. TypingOK' /\ FoundOK'
    BY <1>8, <2>1 DEF Down, ResultsBelow, typing, found, TypingOK, FoundOK
  <2>3. WindowOK'
    <3>1. CASE window_start < results_count - 1
      <4>1. window_start + 1 \in Slot
        BY <3>1, MovesStay
      <4> QED BY <1>8, <2>2, <3>1, <4>1, PopulateListType DEF Down, ResultsBelow
    <3>2. CASE ~(window_start < results_count - 1)
      BY <1>8, <3>2 DEF Down, ResultsBelow, window, WindowOK
    <3> QED BY <3>1, <3>2
  <2> QED BY <1>8, <2>1, <2>2, <2>3 DEF Down, ResultsBelow, Reads
<1>9. CASE SwitchMode
  <2>1. tty' \in Seq(Key) /\ pc = "loop" /\ pc' = pc /\ search_word \in Word
    BY <1>0, <1>9, ReadsKeys DEF SwitchMode, ToggleMode, ModePrompt
  <2>2. TypingOK'
    BY <1>0, <1>9 DEF SwitchMode, ToggleMode, ModePrompt, Prompt, TypingOK
  <2>3. bottom_sel_index' \in 0..(BOTTOM_ITEM_COUNT - 1)
    BY <1>9, SizeAssumption DEF SwitchMode, ToggleMode, ModePrompt, BottomLeft
  <2> QED BY <1>9, <2>1, <2>2, <2>3
      DEF SwitchMode, ToggleMode, ModePrompt, Reads, found, window, FoundOK, WindowOK
<1>10. CASE BottomRight
  <2>1. tty' \in Seq(Key) /\ pc = "loop" /\ pc' = pc /\ search_word \in Word
    BY <1>0, <1>10, ReadsKeys DEF BottomRight, typing, TypingOK
  <2>2. bottom_sel_index' \in 0..(BOTTOM_ITEM_COUNT - 1)
    BY <1>10, SizeAssumption DEF BottomRight
  <2> QED BY <1>10, <2>1, <2>2
          DEF BottomRight, Reads, typing, found, window, TypingOK, FoundOK, WindowOK
<1>11. ASSUME NEW k \in {CR, LF}, Enter(k) PROVE TypeOK'
  <2>1. tty' \in Seq(Key) /\ pc = "loop" /\ pc' = pc /\ search_word \in Word
    BY <1>0, <1>11, ReadsKeys DEF Enter, ShowAnswer, ClearWord, ModePrompt, ShowFromTop
  <2>2. FoundOK'
    BY <1>11, <2>1, LookupFills DEF Enter, ShowAnswer, ClearWord, ModePrompt, ShowFromTop
  <2>3. WindowOK'
    BY <1>0, <1>11, <2>2, PopulateListType
        DEF Enter, ShowAnswer, ClearWord, ModePrompt, ShowFromTop
  <2>4. TypingOK'
    BY <1>0, <1>11, <2>1
       DEF Enter, ShowAnswer, ClearWord, ModePrompt, ShowFromTop, Prompt, TypingOK
  <2> QED BY <1>11, <2>1, <2>2, <2>3, <2>4
      DEF Enter, ShowAnswer, ClearWord, ModePrompt, ShowFromTop, Reads
<1>12. ASSUME NEW k \in OtherKey, Ignore(k) PROVE TypeOK'
  <2>1. tty' \in Seq(Key) /\ pc = "loop" /\ pc' = pc /\ search_word \in Word
    BY <1>0, <1>12, ReadsKeys DEF Ignore, typing, TypingOK
  <2> QED BY <1>12, <2>1
          DEF Ignore, Reads, typing, found, window, TypingOK, FoundOK, WindowOK
<1>13. ASSUME NEW k \in Key, Press(k) PROVE TypeOK'
  <2>1. tty' \in Seq(Key)
    BY <1>13 DEF Press
  <2> QED BY <1>13, <2>1 DEF Press, typing, found, window, TypingOK, FoundOK, WindowOK
<1>14. CASE UNCHANGED vars
  BY <1>14 DEF vars, typing, found, window, TypingOK, FoundOK, WindowOK
<1> QED
  BY <1>1, <1>2, <1>3, <1>4, <1>5, <1>6, <1>7, <1>8, <1>9, <1>10, <1>11, <1>12, <1>13, <1>14, <1>15
     DEF Next, Boot, poll_keyboard, NoInput, Stopped

\* The types at start-up.
LEMMA TypeInit == Init => TypeOK
BY EmptyWord, SizeAssumption
   DEF Init, TypeOK, TypingOK, FoundOK, WindowOK, Slot, Row

\* Every variable of the program keeps its type but for search_word, and that
\* one only by the letter that fills it: the count, the slots and the position
\* stay inside the result array, also after such a letter.
THEOREM TypeCorrect == Spec => []TypeOK
<1>1. Init => TypeOK
  BY TypeInit
<1>2. TypeOK /\ [Next]_vars => TypeOK'
  BY TypeStep
<1> QED BY <1>1, <1>2, PTL DEF Spec, SafeSpec

-----------------------------------------------------------------------------
(* The screen. *)

\* Before its loop main() has searched nothing that counts and shown nothing.
Booting ==
  /\ pc \in {"start", "display"} => g_db = "NULL"
  /\ pc \notin {"loop", "overrun"} =>
       /\ search_word = <<>>
       /\ en_mode = FALSE
       /\ results_count = 0
       /\ window_start = 0
       /\ list_items = [i \in Row |-> NULL]
       /\ bot_label = NULL

Shown == SelectionInResults /\ ScreenShowsResults /\ DetailsOfSelection
Typed == WhatIsShownIsSearched /\ PromptOfMode
ScreenInv == Booting /\ Shown /\ Typed

\* populate_list at a position of the results makes the screen agree with them.
LEMMA PopulateListShows ==
  ASSUME FoundOK', NEW start \in Slot, populate_list(start),
         results_count' > 0 => start < results_count',
         results_count' = 0 => start = 0
  PROVE  Shown'
<1>1. window_start' = start
  BY DEF populate_list, Details, ShowWindow
<1>2. SelectionInResults'
  BY <1>1 DEF SelectionInResults
<1>3. ScreenShowsResults'
  BY <1>1 DEF ScreenShowsResults, populate_list, Details, ShowWindow, update_results
<1>4. DetailsOfSelection'
  <2>1. 0 \in Row /\ start + 0 = start
    BY SizeAssumption DEF Row, Slot
  <2> QED BY <2>1 DEF DetailsOfSelection, populate_list, Details, ShowWindow
<1> QED BY <1>2, <1>3, <1>4 DEF Shown

\* A step that writes none of it leaves the screen in agreement.
LEMMA ShownUnchanged ==
  ASSUME Shown, UNCHANGED <<pc, found, window>>
  PROVE  Shown'
BY DEF Shown, SelectionInResults, ScreenShowsResults, DetailsOfSelection, found, window

\* The one key that may touch the count outside a search leaves its value.
LEMMA BackspaceKeepsCount ==
  ASSUME FoundOK, Backspace
  PROVE  UNCHANGED found
BY SizeAssumption DEF Backspace, FoundOK, TopByte, found

\* The screen invariant is inductive on top of the types.
LEMMA ScreenStep ==
  ASSUME TypeOK, TypeOK', ScreenInv, [Next]_vars
  PROVE  ScreenInv'
<1> USE DEF ScreenInv
<1>0. 0 \in Slot /\ FoundOK /\ FoundOK'
  BY SizeAssumption DEF Slot, TypeOK
<1>1. CASE InitDisplay
  <2>1. pc = "start" /\ pc' \notin {"loop", "overrun"} /\ UNCHANGED <<typing, found, window, g_db>>
    BY <1>1 DEF InitDisplay
  <2> QED BY <2>1 DEF typing, found, window, Booting, Shown, Typed,
          SelectionInResults, ScreenShowsResults, DetailsOfSelection,
          WhatIsShownIsSearched, PromptOfMode
<1>2. CASE OpenDb
  BY <1>2 DEF OpenDb, typing, found, window, Booting, Shown, Typed,
     SelectionInResults, ScreenShowsResults, DetailsOfSelection,
     WhatIsShownIsSearched, PromptOfMode
<1>3. CASE FirstSearch
  BY <1>3 DEF FirstSearch, typing, window, Booting, Shown, Typed, SelectionInResults,
     ScreenShowsResults, DetailsOfSelection, WhatIsShownIsSearched, PromptOfMode
<1>4. CASE create_ui
  <2>1. Shown'
    BY <1>4 DEF create_ui, found, ShowWindow, update_results, Booting, Shown,
       SelectionInResults, ScreenShowsResults, DetailsOfSelection
  <2>2. Typed'
    BY <1>4 DEF create_ui, update_search_bar, Booting, Typed, WhatIsShownIsSearched,
       PromptOfMode, Prompt
  <2> QED BY <1>4, <2>1, <2>2 DEF create_ui, found, Booting
<1>5. ASSUME NEW c \in Letter, TypeLetter(c) PROVE ScreenInv'
  <2>1. Typed'
    <3>1. search_word' # <<>>
      <4>1. search_word \in Seq(Letter)
        BY <1>5, ReadsKeys, WordIsSeq DEF TypeLetter
      <4> QED BY <1>5, <4>1 DEF TypeLetter, ConvertAndEcho, ToKana
    <3> QED BY <1>5, <3>1 DEF TypeLetter, ConvertAndEcho, ToKana, update_search_bar, Typed,
            WhatIsShownIsSearched, PromptOfMode
  <2>2. Shown'
    BY <1>5, ShownUnchanged DEF TypeLetter, Reads
  <2> QED BY <1>5, <2>1, <2>2 DEF TypeLetter, Reads, found, Booting
<1>15. ASSUME NEW c \in Letter, Overrun(c) PROVE ScreenInv'
  <2>1. pc = "loop" /\ pc' = "overrun" /\ UNCHANGED <<found, window>>
    BY <1>15 DEF Overrun
  <2> QED BY <2>1 DEF found, window, Booting, Shown, Typed, SelectionInResults,
          ScreenShowsResults, DetailsOfSelection, WhatIsShownIsSearched, PromptOfMode
<1>6. CASE Backspace
  <2>1. UNCHANGED found
    BY <1>0, <1>6, BackspaceKeepsCount
  <2>2. Shown'
    BY <1>6, <2>1, ShownUnchanged DEF Backspace, Reads
  <2>3. Typed'
    BY <1>6 DEF Backspace, ConvertAndEcho, ToKana, update_search_bar, Typed,
       WhatIsShownIsSearched, PromptOfMode
  <2> QED BY <1>6, <2>1, <2>2, <2>3 DEF Backspace, Reads, found, Booting
<1>7. CASE Up
  <2>1. Shown'
    <3>1. CASE window_start > 0
      <4>1. window_start - 1 \in Slot /\ results_count' = results_count
        BY <1>7, <3>1, SizeAssumption DEF Up, found, TypeOK, WindowOK, Slot
      <4>2. populate_list(window_start - 1)
        BY <1>7, <3>1 DEF Up
      <4>3. window_start - 1 < results_count' /\ results_count' # 0
        BY <3>1, <4>1 DEF Shown, SelectionInResults, TypeOK, WindowOK, FoundOK, Slot
      <4> QED BY <1>0, <4>1, <4>2, <4>3, PopulateListShows
    <3>2. CASE ~(window_start > 0)
      BY <1>7, <3>2, ShownUnchanged DEF Up, Reads
    <3> QED BY <3>1, <3>2
  <2> QED BY <1>7, <2>1 DEF Up, Reads, typing, found, Booting, Typed,
          WhatIsShownIsSearched, PromptOfMode
<1>8. CASE Down
  <2>1. Shown'
    <3>1. CASE window_start < results_count - 1
      <4>1. window_start + 1 \in Slot /\ results_count' = results_count
        BY <1>8, <3>1, SizeAssumption
            DEF Down, ResultsBelow, found, TypeOK, WindowOK, FoundOK, Slot
      <4>2. populate_list(window_start + 1)
        BY <1>8, <3>1 DEF Down, ResultsBelow
      <4>3. window_start + 1 < results_count' /\ results_count' # 0
        BY <3>1, <4>1 DEF TypeOK, WindowOK, FoundOK, Slot
      <4> QED BY <1>0, <4>1, <4>2, <4>3, PopulateListShows
    <3>2. CASE ~(window_start < results_count - 1)
      BY <1>8, <3>2, ShownUnchanged DEF Down, ResultsBelow, Reads
    <3> QED BY <3>1, <3>2
  <2> QED BY <1>8, <2>1 DEF Down, ResultsBelow, Reads, typing, found, Booting, Typed,
          WhatIsShownIsSearched, PromptOfMode
<1>9. CASE SwitchMode
  <2>1. Shown'
    BY <1>9, ShownUnchanged DEF SwitchMode, ToggleMode, ModePrompt, Reads
  <2>2. Typed'
    BY <1>9 DEF SwitchMode, ToggleMode, ModePrompt, Typed, WhatIsShownIsSearched, PromptOfMode
  <2> QED BY <1>9, <2>1, <2>2
      DEF SwitchMode, ToggleMode, ModePrompt, Reads, found, Booting
<1>10. CASE BottomRight
  <2>1. Shown'
    BY <1>10, ShownUnchanged DEF BottomRight, Reads
  <2> QED BY <1>10, <2>1 DEF BottomRight, Reads, typing, found, Booting, Typed,
          WhatIsShownIsSearched, PromptOfMode
<1>11. ASSUME NEW k \in {CR, LF}, Enter(k) PROVE ScreenInv'
  <2>1. Shown'
    <3>1. results_count' > 0 => 0 < results_count'
      OBVIOUS
    <3> QED BY <1>0, <1>11, <3>1, PopulateListShows
        DEF Enter, ShowAnswer, ClearWord, ModePrompt, ShowFromTop
  <2>2. Typed'
    BY <1>11
        DEF Enter, ShowAnswer, ClearWord, ModePrompt, ShowFromTop, Typed,
            WhatIsShownIsSearched, PromptOfMode
  <2> QED BY <1>11, <2>1, <2>2
      DEF Enter, ShowAnswer, ClearWord, ModePrompt, ShowFromTop, Reads, Booting
<1>12. ASSUME NEW k \in OtherKey, Ignore(k) PROVE ScreenInv'
  <2>1. Shown'
    BY <1>12, ShownUnchanged DEF Ignore, Reads
  <2> QED BY <1>12, <2>1 DEF Ignore, Reads, typing, found, Booting, Typed,
          WhatIsShownIsSearched, PromptOfMode
<1>13. ASSUME NEW k \in Key, Press(k) PROVE ScreenInv'
  <2>1. Shown'
    BY <1>13, ShownUnchanged DEF Press
  <2> QED BY <1>13, <2>1 DEF Press, typing, found, window, Booting, Typed,
          WhatIsShownIsSearched, PromptOfMode
<1>14. CASE UNCHANGED vars
  <2>1. Shown'
    BY <1>14, ShownUnchanged DEF vars
  <2> QED BY <1>14, <2>1 DEF vars, typing, found, window, Booting, Typed,
          WhatIsShownIsSearched, PromptOfMode
<1> QED
  BY <1>1, <1>2, <1>3, <1>4, <1>5, <1>6, <1>7, <1>8, <1>9, <1>10, <1>11, <1>12, <1>13, <1>14, <1>15
     DEF Next, Boot, poll_keyboard, NoInput, Stopped

\* The screen invariant holds at start-up.
LEMMA ScreenInit == Init => ScreenInv
BY SizeAssumption
   DEF Init, ScreenInv, Booting, Shown, Typed, SelectionInResults, ScreenShowsResults,
       DetailsOfSelection, WhatIsShownIsSearched, PromptOfMode

\* The screen invariant holds throughout.
LEMMA ScreenCorrect == Spec => []ScreenInv
<1>1. TypeOK /\ TypeOK' /\ ScreenInv /\ [Next]_vars => ScreenInv'
  BY ScreenStep
<1> QED BY <1>1, ScreenInit, TypeCorrect, PTL DEF Spec, SafeSpec

\* The selection is always a result, whatever the order of searches and moves.
THEOREM SelectionCorrect == Spec => []SelectionInResults
<1>1. ScreenInv => SelectionInResults
  BY DEF ScreenInv, Shown
<1> QED BY <1>1, ScreenCorrect, PTL

\* The list and the counter never lag behind the results.
THEOREM ScreenAgrees == Spec => []ScreenShowsResults
<1>1. ScreenInv => ScreenShowsResults
  BY DEF ScreenInv, Shown
<1> QED BY <1>1, ScreenCorrect, PTL

\* The details are those of the selected row.
THEOREM DetailsAgree == Spec => []DetailsOfSelection
<1>1. ScreenInv => DetailsOfSelection
  BY DEF ScreenInv, Shown
<1> QED BY <1>1, ScreenCorrect, PTL

\* What is typed, shown and searched for is the same word.
THEOREM SearchBarAgrees == Spec => []WhatIsShownIsSearched
<1>1. ScreenInv => WhatIsShownIsSearched
  BY DEF ScreenInv, Typed
<1> QED BY <1>1, ScreenCorrect, PTL

\* With nothing typed the prompt names the mode Enter will search in.
THEOREM PromptAgrees == Spec => []PromptOfMode
<1>1. ScreenInv => PromptOfMode
  BY DEF ScreenInv, Typed
<1> QED BY <1>1, ScreenCorrect, PTL

-----------------------------------------------------------------------------
(* The selection step by step, and the abstract list. *)

\* The keys move the selection by at most one row, and only Enter, which takes
\* it to the first row and clears the word, changes the results.
THEOREM SelectionSteps == Spec => SelectionMoves
<1> DEFINE A == /\ window_start' \in {window_start - 1, window_start, window_start + 1, 0}
                /\ (pc = "loop" /\ <<results_count', g_results'>> # <<results_count, g_results>>)
                     => window_start' = 0 /\ search_word' = <<>>
<1>1. TypeOK /\ [Next]_vars => [A]_vars
  <2> SUFFICES ASSUME TypeOK, Next PROVE A
    OBVIOUS
  <2>1. CASE Boot
    BY <2>1 DEF Boot, InitDisplay, OpenDb, FirstSearch, create_ui, ShowWindow, found, window
  <2>2. ASSUME NEW c \in Letter, TypeLetter(c) \/ Overrun(c) PROVE A
    BY <2>2 DEF TypeLetter, Overrun, found, window
  <2>3. CASE Backspace
    BY <2>3, BackspaceKeepsCount DEF Backspace, found, window, TypeOK
  <2>4. CASE Up
    BY <2>4 DEF Up, populate_list, Details, ShowWindow, found, window
  <2>5. CASE Down
    BY <2>5 DEF Down, ResultsBelow, populate_list, Details, ShowWindow, found, window
  <2>6. CASE SwitchMode \/ BottomRight
    BY <2>6 DEF SwitchMode, ToggleMode, ModePrompt, BottomRight, found, window
  <2>7. ASSUME NEW k \in {CR, LF}, Enter(k) PROVE A
    BY <2>7
        DEF Enter, ShowAnswer, ClearWord, ModePrompt, ShowFromTop, populate_list,
            Details, ShowWindow
  <2>8. ASSUME NEW k \in OtherKey, Ignore(k) PROVE A
    BY <2>8 DEF Ignore, found, window
  <2>9. ASSUME NEW k \in Key, Press(k) PROVE A
    BY <2>9 DEF Press, found, window
  <2>10. CASE UNCHANGED vars
    BY <2>10 DEF vars, found, window
  <2> QED BY <2>1, <2>2, <2>3, <2>4, <2>5, <2>6, <2>7, <2>8, <2>9, <2>10
          DEF Next, poll_keyboard, NoInput, Stopped
<1> QED BY <1>1, TypeCorrect, PTL DEF Spec, SafeSpec, SelectionMoves

\* The list that the slots hold.
Listed == [k \in 1..results_count |-> g_results[k - 1]]

\* The list the refinement maps to has results_count entries.
LEMMA ListedFacts ==
  ASSUME FoundOK
  PROVE  /\ Len(Listed) = results_count
         /\ \A k \in 1..results_count : Listed[k] = g_results[k - 1]
BY SizeAssumption DEF FoundOK, Listed

\* A step that changes neither count nor slots does not change the list, nor
\* does one that writes slots while none of them counts.
LEMMA ListedUnchanged ==
  ASSUME UNCHANGED results_count, results_count = 0 \/ UNCHANGED g_results
  PROVE  UNCHANGED Listed
BY DEF Listed

\* ShowWindow paints what the abstract list would paint.
LEMMA ShowWindowPaints ==
  ASSUME FoundOK', NEW start \in Slot, ShowWindow(start)
  PROVE  Screen!Paint
<1>1. Len(Listed') = results_count' /\ results_count' \in Nat
  BY SizeAssumption DEF FoundOK, Listed
<1>2. ASSUME NEW r \in Row, start + r < results_count'
      PROVE  Listed'[start + r + 1] = g_results'[start + r]
  BY <1>2, SizeAssumption DEF Listed, FoundOK, Slot, Row
<1> QED BY <1>1, <1>2 DEF Screen!Paint, ShowWindow, update_results, Listed, Row

\* The list part of the screen implements the abstract list, for any
\* dictionary and any sequence of keys.
THEOREM ScreenImplementsList == Spec => ImplementsResultList
<1>1. Init => Screen!Init
  BY DEF Init, Screen!Init, Row
<1>2. ASSUME TypeOK, TypeOK', ScreenInv, [Next]_vars
      PROVE  [Screen!Next]_(Screen!vars)
  <2>0. 0 \in Slot /\ FoundOK /\ FoundOK'
    BY <1>2, SizeAssumption DEF Slot, TypeOK
  <2>1. CASE InitDisplay \/ OpenDb \/ FirstSearch
    <3>1. /\ pc \notin {"loop", "overrun"} /\ pc' \notin {"loop", "overrun"} /\ results_count = 0
          /\ UNCHANGED <<results_count, window>>
      BY <1>2, <2>1 DEF InitDisplay, OpenDb, FirstSearch, found, ScreenInv, Booting
    <3> QED BY <3>1, ListedUnchanged DEF Listed, window, Screen!vars
  <2>2. CASE create_ui
    <3>1. Screen!Paint
      BY <2>0, <2>2, ShowWindowPaints DEF create_ui
    <3>2. /\ pc \notin {"loop", "overrun"} /\ pc' = "loop" /\ window_start = 0 /\ window_start' = 0
          /\ UNCHANGED <<results_count, g_results>>
      BY <1>2, <2>2 DEF create_ui, ShowWindow, found, ScreenInv, Booting
    <3> QED BY <3>1, <3>2, ListedUnchanged DEF Listed, Screen!Next, Screen!SwitchOn
  <2>3. ASSUME UNCHANGED <<pc, found, window>>
        PROVE  UNCHANGED Screen!vars
    BY <2>3, ListedUnchanged DEF Listed, found, window, Screen!vars
  <2>4. ASSUME NEW start \in Slot, pc = "loop", pc' = "loop", UNCHANGED found,
               populate_list(start),
               \/ start = window_start - 1 /\ window_start > 0
               \/ start = window_start + 1 /\ window_start < results_count - 1
        PROVE  Screen!MoveUp \/ Screen!MoveDown
    <3>1. Screen!Paint /\ window_start' = start
      BY <2>0, <2>4, ShowWindowPaints DEF populate_list, Details, ShowWindow
    <3>2. UNCHANGED Listed /\ Len(Listed) = results_count
      BY <2>0, <2>4, ListedUnchanged, ListedFacts DEF found
    <3>3. window_start \in Nat /\ results_count \in Nat
      BY <1>2, SizeAssumption DEF TypeOK, WindowOK, FoundOK, Slot
    <3> QED BY <2>4, <3>1, <3>2, <3>3 DEF Listed, Screen!MoveUp, Screen!MoveDown
  <2>5. CASE Up
    <3>1. CASE window_start > 0
      <4>1. window_start - 1 \in Slot
        BY <1>2, <3>1, SizeAssumption DEF TypeOK, WindowOK, Slot
      <4> QED BY <2>4, <2>5, <3>1, <4>1 DEF Up, Reads, Screen!Next
    <3>2. CASE ~(window_start > 0)
      BY <2>3, <2>5, <3>2 DEF Up, Reads
    <3> QED BY <3>1, <3>2
  <2>6. CASE Down
    <3>1. CASE window_start < results_count - 1
      <4>1. window_start + 1 \in Slot
        BY <1>2, <3>1, SizeAssumption DEF TypeOK, WindowOK, FoundOK, Slot
      <4> QED BY <2>4, <2>6, <3>1, <4>1 DEF Down, ResultsBelow, Reads, Screen!Next
    <3>2. CASE ~(window_start < results_count - 1)
      BY <2>3, <2>6, <3>2 DEF Down, ResultsBelow, Reads
    <3> QED BY <3>1, <3>2
  <2>7. ASSUME NEW k \in {CR, LF}, Enter(k) PROVE Screen!Search
    <3>1. Screen!Paint /\ window_start' = 0 /\ pc = "loop" /\ pc' = "loop"
      BY <2>0, <2>7, ShowWindowPaints
          DEF Enter, ShowAnswer, ClearWord, ModePrompt, ShowFromTop, Reads,
              populate_list, Details, ShowWindow
    <3>2. \A j \in Slot : j < results_count' => g_results'[j] \in Entry
      BY <1>2, <2>7, <3>1, LookupFills DEF Enter, ShowAnswer, ClearWord, ModePrompt, ShowFromTop
    <3>3. results_count' \in 0..MAX_RESULTS /\ Listed' \in [1..results_count' -> Entry]
      BY <2>0, <3>2, SizeAssumption DEF Listed, FoundOK, Slot
    <3> QED BY <3>1, <3>3 DEF Listed, Screen!Search
  <2>8. CASE Backspace
    BY <2>0, <2>3, <2>8, BackspaceKeepsCount DEF Backspace, Reads
  <2>9. ASSUME NEW c \in Letter, TypeLetter(c) PROVE UNCHANGED Screen!vars
    BY <2>3, <2>9 DEF TypeLetter, Reads
  <2>13. ASSUME NEW c \in Letter, Overrun(c) PROVE UNCHANGED Screen!vars
    BY <2>13, ListedUnchanged DEF Overrun, Listed, found, window, Screen!vars
  <2>10. CASE SwitchMode \/ BottomRight
    BY <2>3, <2>10 DEF SwitchMode, ToggleMode, ModePrompt, BottomRight, Reads
  <2>11. ASSUME NEW k \in OtherKey, Ignore(k) PROVE UNCHANGED Screen!vars
    BY <2>3, <2>11 DEF Ignore, Reads
  <2>12. CASE (\E k \in Key : Press(k)) \/ UNCHANGED vars
    BY <2>3, <2>12 DEF Press, vars
  <2> QED
    BY <1>2, <2>1, <2>2, <2>5, <2>6, <2>7, <2>8, <2>9, <2>10, <2>11, <2>12, <2>13
       DEF Next, Boot, poll_keyboard, NoInput, Stopped, Screen!Next
<1> QED BY <1>1, <1>2, TypeCorrect, ScreenCorrect, PTL
        DEF Spec, SafeSpec, ImplementsResultList, Screen!Spec
=============================================================================
