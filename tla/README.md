# PocketDictionary: a TLA+ model of the pocket dictionary

PocketDictionary is a Japanese-English dictionary for a small NuttX device. The
program that is built and run is the simulator application

| part | source |
|---|---|
| application: start-up, key handler, labels | `NUTTXSIM/apps/examples/lvgldemo/lvgldemo.c` |
| dictionary: SQLite handle, searches, result array | `NUTTXSIM/apps/examples/lvgldemo/dict.c`, `graphics/lvgl/dict.h` |
| romaji converter | `NUTTXSIM/apps/graphics/lvgl/rust/romaji.rs`, `graphics/lvgl/romaji.h` |

(paths relative to `src/`). Everything else under `NUTTXSIM/` is NuttX, LVGL and
SQLite. `Dictionary_Resources/` holds the stand-alone dictionary library with the
C version of the converter, its tests, and the script that builds the database;
`GUI/` an earlier interface, `Installation_info/` the container scripts.

## Inventory

**User interface** (`lvgldemo.c`). State: `search_word[512]` (what is typed),
`furigana_word[512]` (its reading), `en_mode`, `bottom_sel_index`,
`window_start` (the selected result), `results_count`, `entries` (a pointer into
the dictionary's static array), and the texts of the labels. Operations: `main()`
(display, file system, database, a first search, keyboard, labels, loop) and
`poll_keyboard()`, called by LVGL's input timer, which reads one byte and
handles it: a letter, backspace, `1`/`2` (up/down), `3` (bottom selection left
and mode switch), `4` (bottom selection right), Enter. Hard: nothing is
recomputed, every handler must itself bring every label and counter up to date;
failures of mounting and opening are ignored; keys are typed ahead of the
handler; what is cleared when; nothing stops the letter that fills `search_word`. Correct when the screen always agrees with the
search state.

**Dictionary** (`dict.c`). State: `g_db`, and one static array `g_results[64]`
that all searches share and none clears. Operations: `dict_open`, `dict_search`
(by reading), `dict_search_en` (by senses), `dict_close`. It calls SQLite, which
calls back into `sanitize`. Hard: any SQLite call may fail, also between two rows;
`strcat` into fixed arrays; a cap applied twice. Correct when the slots below the
returned count are the answer to the latest query and strings stay in their slot.
The library of `Dictionary_Resources` has the same loop without the English
search and builds its words with `copy_first_element`. It calls
`romaji__hira_to_kata` too, but no rule of the repository links it with one.

**Senses filter** (`copy_field_sanitize` in `dict.c`). A pure function with two
loops over a bounded buffer. Correct when no `[...]` tag is left, no other text is
lost and the output fits.

**Romaji converter** (`romaji.rs`). Pure functions over a bounded buffer:
`romaji_to_kana`, called after every letter, whose failure result the caller
ignores, and `romaji_to_katakana`, which then shifts the hiragana in place with
`hira_to_kata`. It replaces `romaji.c` behind the same header. Correct when it
stores inside the buffer, never cuts a kana, turns any two syllables of its table
into their two kana, and gives what the C version gives.

**Database builder** (`build_db.py`). State: the file `dict.db` and the script's
open transaction. It drops and creates the tables, inserts the words of JMdict,
commits, inserts the characters of KANJIDIC, commits. Hard: it is run again over
what is there, and can end at any statement. Correct when nobody ever finds part
of a dictionary, and a finished run leaves exactly what its files say.

The components of the device interact by direct calls in one thread:
`poll_keyboard` calls `romaji_to_kana`, `dict_search`/`dict_search_en` and reads
`g_results` through `entries` until the next search. The only concurrency is the
user typing into the console while the program works. The builder and the device
interact through the database: the `[...]` tags one writes the other takes out.

`PROJECT.json` lists the hazards at their lines, with the properties about each.

## Modules

| module | models |
|---|---|
| `PocketUI` | `main()` and `poll_keyboard()`: one action per start-up step and per key, every label the handler writes; a search is one step |
| `ResultList` | what the list on the screen promises, without buffers (abstract) |
| `MCPocketUI` | a dictionary of four words over the letters a and k |
| `Device` | `PocketUI`'s handler composed with `Dict`'s search loop over the handle and the array they share |
| `MCDevice` | three rows, one letter |
| `Romaji` | `romaji_to_kana`: one step per pass of `to_kana`'s loop, the buffer byte by byte |
| `Katakana` | `romaji_to_katakana`: `Romaji`, then one step per pass of `hira_to_kata`'s loop |
| `RomajiTable` | the 118 entries of the table, generated from the structure of the syllabary |
| `RomajiRef`, `KatakanaRef` | the C version, `romaji.c`, as functions: the conversion and the shift to katakana |
| `MCRomaji`, `MCKatakana` | all short strings; all pairs of syllables, kana, mixed and cut text |
| `Sanitize` | `copy_field_sanitize`: one step per pass of its two loops |
| `SanitizeRef` | the filter as a function |
| `MCSanitize` | all short strings over brackets, blanks and a letter |
| `Dict` | `dict_open`, `dict_search`, `dict_search_en`, `dict_close` of both versions (simulator and library); a search is prepare, then two steps per row, then return |
| `DictService` | what `dict.h` promises of a search (abstract) |
| `MCDict` | six rows over scaled-down arrays |
| `BuildDb` | `build_db.py`: one step per statement that writes, runs that fail anywhere and are repeated |
| `MCBuildDb` | four JMdict files, one of them faulty, and two KANJIDIC files |
| `Characters` | what a whole UTF-8 text is, for `Dict`, its proofs and the filter's |
| `Lemmas` | for the proofs: least and greatest elements, recursive functions, cutting and joining whole text, where tags end |
| `PocketUIProofs`, `DictProofs`, `DeviceProofs`, `RomajiProofs`, `KatakanaProofs`, `SanitizeProofs`, `BuildDbProofs` | the theorems about the module each is named after |

How they fit together: `PocketUI` takes the converter and the dictionary as
constant operators (`Kana`, `JpHits`, `EnHits`) with the assumptions
`KanaAssumption` and `HitsAssumption`. `Device` replaces the search by `Dict`'s
loop (`D == INSTANCE Dict`, sharing `g_db` and `g_results`) and shows that it
implements `PocketUI` (`ImplementsUI`): under the mapping an Enter whose search is
under way counts as unread, and the slots are as they were before it. `DeviceProofs` proves it
for every table, alphabet and size, and that the composition is a behaviour of `Dict`, so
what is proved of the two alone holds of the application.
`Romaji`'s step machine computes `RomajiRef`'s function and `Sanitize`'s that of
`SanitizeRef` (`MatchesReference` of each), so the composing modules may use the
functions. `Katakana` extends `Romaji` and is compared with `KatakanaRef` (`SameAsC`).
`TagsAreStripped` relates `BuildDb`'s rows to `SanitizeRef`. The references are recursive
functions from the end of the text, one value per position, not recursive operators, so that
the proofs can use them.

Correspondence, where it is not one to one:

* In `PocketUI` a key is one action, because `poll_keyboard` runs to its end in the only thread.
  `Reads(k)` is the `read()` of one byte; `NoInput` is a call that finds none. In `Device`
  Enter is a call, the rows, and the return (`task` says who waits).
* `Overrun` is the letter that fills `search_word`: its NUL goes behind the array, where the
  handler does not look, which is undefined behaviour. The program is then in `pc = "overrun"`, and the
  model says nothing of what follows.
* That no row is found through a handle that did not open (`Found`, `Prepare`) is assumed of SQLite, whose
  `prepare` fails on one; `dict.c` looks at the result of the `prepare` only.
* The `'3'` branch and the second `if` on `'3'` are one action, `SwitchMode`.
* Backspace with nothing typed writes `search_word[-1]`. The byte before the array
  depends on how the build orders its statics: padding, the last byte of
  `furigana_word`, which the conversion behind it rewrites, or the top byte of
  `results_count`, which a count of at most 64 has zero in any case. The action
  leaves the choice open; `SizeAssumption` bounds `MAX_RESULTS` by 64.
* In `Dict`, `kanji` and `readings` are the sequences of their `;`-separated elements. Queries
  with `%`, `_` or `;` are excluded, as the keyboard cannot produce them. `rc` and `call` record
  what the code keeps in local variables. `build` says which of the two `dict.c` runs. The library's
  `romaji__hira_to_kata` is the constant `HiraToKata`, any function of a string, as whoever uses the library must
  bring one; the runs give it the one of `romaji.c`, the proofs none in particular.
* A slot's `word` is the C string that begins at `word[0]`. It may run into
  `accent[]` between the `strcat` calls and `accent[0] = '\0'`, hence two steps a row.
* In `BuildDb`, `disk` is what another process reads and `tx` what the script's connection
  sees. `executescript` runs outside a transaction, so every statement of it is on disk at
  once; the INSERTs are on disk with the commit. A row's `word_form` INSERTs go with the
  word's: both are in one transaction. `Abort` is the uncaught `IntegrityError` of a
  repeated `ent_seq`, `Fail` everything else that ends the script.

## Runs

| run | question | result |
|---|---|---|
| `ui` | do screen and search state agree after any keys, with any failure of the database, do the indices stay in their arrays, and does the list implement `ResultList`? | holds |
| `device` | with the rows arriving one by one: does every row on the screen answer the latest search, is this `PocketUI`, is an Enter or a `'3'` typed ahead or during a search always acted on? | holds |
| `romaji` | is the buffer always a C string of whole kana, does the loop end, does it compute the reference? | holds |
| `katakana` | do pairs of syllables and doubled consonants of the real table become the kana that the table has for each; does the shift keep the string's length, end, and agree with `romaji.c`? | holds |
| `sanitize` | does the filter fit its buffer, leave no tag, lose no text, leave nothing for a second pass, end, and compute the reference? | holds |
| `dict` | over sequences of searches with failures anywhere, in both versions: do the counted slots answer the latest query, do strings stay in their slot, are they cut only where the array is full, is `DictService` implemented? | holds |
| `build_db` | over repeated and failing runs: is there never half a dictionary on disk, does `word_form` lead to the words, does a finished run win, are the tags the ones that are stripped? | holds |
| `ui_cleared` | is a search really cleared after Enter? | violated |
| `ui_details` | are details of an old search never shown with an empty list? | violated |
| `romaji_kana` | does text that is kana already pass through? | violated |
| `dict_kanji` | is a word found by its kanji? | violated |
| `dict_katakana` | does the simulator find a katakana word by its hiragana reading? | violated |

The five violated runs each state what a comment, test or document of the
repository says; `PROJECT.json` quotes the lines:

* After Enter the log says `search cleared`, but `furigana_word` keeps the reading,
  and a second Enter searches for it again.
* A search without results still puts `entries[0].detail` on the screen, which is an
  entry of an earlier search.
* The doubled-consonant test compares raw bytes, so a kana whose last two UTF-8
  bytes are equal (for instance U+3041) is damaged.
* Both `LIKE` clauses test the readings only, in the library too, so no word is found by its kanji.
* `romaji__hira_to_kata` has no body in the shipped converter, so katakana readings are not
  found.

Seen while modelling, without a run of its own:

* `strcat` of `") "` is not bounded: in the simulator a word can fill `word[]` and end in
  `accent[]`, where `test_dict.c:49` of the library asserts that it is shorter.
  `WordStaysInSlot` and `StringsEnd` show that it goes no further and is cut off at
  `accent[0]` when the row is finished, and that the library keeps the assertion.
* The library's README (`Dictionary_Resources/README.md:49-50`) has `konnichiwa` as こんにちは and `koohii` as
  コーヒー. The converter goes syllable by syllable, and its table has one kana for `wa` and none for a long vowel: it
  writes こんにちわ and コオヒイ, and `romaji.c` does the same. `SyllablesSurvive` asserts nothing of such pairs
  (`SpeltOtherwise`); what is stored for them is `RomajiRef`'s value, as for all input (`MatchesReference`).
* The library's `dict.c` calls `romaji__hira_to_kata`, but `makefile`, `Makefile` and the README of
  `Dictionary_Resources` link it without a converter, and the `romaji.rs` there has no such function.
* An interrupted build leaves `dict.db` with tables missing or empty, since the old ones are
  dropped first; `NoHalfDictionary` says that this is the worst of it.
* On malformed text `hira_to_kata` can step over the NUL, up to the end of the buffer.
  `LengthKept` is stated for whole characters that the conversion does not damage
  (`Clean`); `ShiftEnds` holds of the rest too.
* The English search looks into the senses as stored, so it also finds words by the text of
  their tags, which is not shown.

### Bounds, and why they are enough

* `ui`: two letters, words of up to 3, four database rows with an array of 3 (so the
  cap is met), 3 list rows, one key in the console. Typing ahead adds no behaviour to the
  safety properties, since the handler sees keys one at a time. The queries include ones
  with no, one and more than `MAX_RESULTS` matches; the word `kka` overflows the buffer of
  its reading (`WORD_CAP = 4`), so the ignored `-1` of the converter happens.
* `device`: one letter, words of up to 3, three rows of which two are kept, two list rows, and two keys in
  the console, so that keys wait behind one another and behind a search under way. English and Japanese
  queries match different rows, so a mix of two searches would be seen.
* The user's typing is bounded by `TTY_CAP`, the room of the console, only. Words are as long as they get:
  `ui` and `device` reach the letter that fills `search_word`.
* `romaji`: every string of up to 4 bytes over `a k n y K` and a kana byte (vowel,
  consonant, n, digraphs, capitals, raw bytes), buffers of 0 to 13 bytes: too small
  for anything, cut inside a kana, exact, ample.
* `katakana`: all pairs of the real table, every kana, and characters of one to four bytes, whole and
  cut, alone, in pairs, and up against the end of a buffer of 16 bytes.
* `sanitize`: every string of up to 5 bytes over `[ ] space newline x`, so nested,
  unclosed, adjacent and empty tags occur; buffers from 1 to 7 bytes.
* `dict`: `word[]` of 8, `accent[]` of 5 and `detail[]` of 6 bytes, so that kanji, readings and
  senses run over each of them; 3 slots for up to 5 matches; NULL, empty and
  multi-element columns, hiragana and katakana readings of one sound.
* `build_db`: files of up to three entries, one empty, one with a repeated `ent_seq`, two that
  give one `ent_seq` different words, a repeated literal; any number of runs, two of which are killed
  (`MAX_FAILURES`): one kill can leave any state on disk, the second hits a run over that state.

### Fairness

`PocketUI` assumes weak fairness of the start-up steps and of `poll_keyboard`:
`main()` calls `lv_timer_handler()` in an endless loop, and LVGL calls the input
callback every period. `Device` assumes weak fairness of `Run`, everything the one
thread does: it cannot stop while it has a next instruction, and a search returns
when SQLite does. Nothing is assumed of the user. `Romaji`, `Katakana` and `Sanitize`
assume that a call that has begun goes on; that a search comes to its end is part of
`EnterIsHonoured` in `device`. `Dict` and `BuildDb` state safety only. Deadlock is checked in all runs but those of the pure functions
(`romaji`, `katakana`, `sanitize`), which end when the call returns.

## Proofs

Every invariant, action property and refinement of the passing runs is also a theorem, for
every value of the constants that satisfies the named assumptions, except those listed under
"Only model-checked". TLC evaluates the assumptions for the constants of the runs.

**`PocketUIProofs`** (from `SizeAssumption`, `KeyAssumption`, `KanaAssumption`, `HitsAssumption`):

* `TypeCorrect`. `TypeOK` is inductive: whatever is typed, count, slots and position stay in their
  arrays. `search_word` leaves its array by one step only, `Overrun`, and the theorem says so; `TypeStep` is the
  induction step.
* `SelectionCorrect`, `ScreenAgrees`, `DetailsAgree`, `SearchBarAgrees` and `PromptAgrees` follow from one
  invariant, `ScreenInv`: before the loop nothing counts and nothing is shown
  (`Booting`), afterwards the selection, rows, counter and details agree (`Shown`), and
  so do word, reading and labels (`Typed`). The details need the selection, the
  selection needs the rows' count, hence one invariant.
* `SelectionSteps`: the action property, by cases on the key.
* `ScreenImplementsList`: initial states map to initial states, every key to a
  step of `ResultList` or a stutter, from `TypeOK` and `ScreenInv`.

**`DictProofs`** (any table, queries and array sizes, both versions, any `HiraToKata`). `SizeAssumption` asks for
an `accent[]` and a `detail[]` of at least five bytes (the code has 64 and 512). `TextAssumption` says
that the database holds whole UTF-8 text and that `sanitize` cuts only what fills `detail[]`; the
second part is what `SanitizeProofs.CharactersSurvive` proves of the filter.

* The invariant is `TypeOK`, `SlotsFit` (what any row, of this search or an earlier one, leaves
  in a slot), `Stored` (the slots below `n` are the first `n` rows of the answer) and
  `Progress` (`cursor` is the rest of the answer, the row being written included). It gives `TypeCorrect`,
  `NoOverrun`, `EveryStringEnds`, `CutOnlyWhenFull`, `LatestQueryAnswered` and `DoneIsComplete`.
* `NothingMissed` needs in addition that `Matching`, the function that collects the rows,
  leaves out no row its clauses accept (`NoMatchLost`).
* `RefinesDictService`: the first step of a search is `Ask`, the last one `Reply`, the rows between
  them stutter.

**`DeviceProofs`** (`Device`'s `TableAssumption` and `DatabaseAssumption`: the hits `PocketUI` is told of
are those of the table):

* `RefinesPocketUI`: the row-by-row search under the keys of a typing user implements the
  one-step search. `UsesDict`: the handler uses the dictionary as `Dict` specifies it.
* `ScreenAgrees`: the screen properties of `PocketUI` hold of the composition whenever no search is
  under way. `ScreenAnswers`: the rows shown are those the table has for the latest search.
* The invariant, `DInv`, is that of `PocketUI` under the mapping, that of `Dict`, and what relates
  them: who waits for which search (`Waiting`), that the slots behind the count are still the old ones
  (`Kept`), and that `results_count` covers rows of the latest search (`Answered`). The step lemmas of the
  two modules are reused by instancing their proof modules (`UP`, `DP`).

**`RomajiProofs`** holds for every table whose keys are 1 to 3 lower-case letters and whose kana
are whole characters of at most three bytes per byte of the key (`TableAssumption`) and appear
once (`KeyAssumption`), every input and every buffer size. TLC evaluates both for the real table. With a key listed
twice the code takes its first entry; the table, a set in the model, would not say which that is.

* `ConvTypeCorrect`, `ConvStringInBuffer`, `ConvFitsBuffer` from `ConvInv`, which
  adds `Expansion` (`pos <= 3 * i`) and `Begun`. The three branches of the loop are
  reduced to one lemma (`PassAppends`: each stores at most three bytes per byte consumed)
  and one about `append` (`AppendStep`).
* `ConvWholeCharacters`: whole text followed by whole text is whole
  (`WellFormedConcat`), so no pass cuts a kana.
* `ConvMatchesReference`: in the loop, what is stored followed by the reference's value of the unread
  input in the room that is left is the reference's value of the input (`RefInv`). A pass that
  stores moves one unit across (`RefAppend`); a unit that does not fit ends both.

**`KatakanaProofs`** (the same assumptions): `ShiftKeepsLength`. The conversion is seen as rewriting one text,
the bytes stored followed by the bytes not yet read (`Text`). A pass moves a byte across, which leaves the
text as it is, or replaces ASCII bytes by a whole kana (`PassRewrites`, `Replaced`), so the text stays
parted into whole characters though raw bytes are copied one at a time. The shift then starts each pass at the
beginning of a character (`SInv`, `AtCharacter`) and keeps the kind of every byte (`ShiftStep`), so it arrives at
the NUL. `KatakanaSameAsC`: the first `p` bytes are shifted, the others are still those of the kana, and
the shifted ones followed by the reference's value of the rest are the reference's value (`Shifted`); that
decoding, adding 96 and encoding three bytes is the C code's shift is arithmetic on the bytes. Together with
`ConvMatchesReference` it says that the Rust converter can stand in for the C one.

**`SanitizeProofs`** (every input, every buffer of at least one byte): `TypeCorrect`; `TagsRemoved`, where
the invariant adds that once a `[` has been copied no `]` is ahead; `CharactersSurvive`, from
`Uncut`: output and unread input are whole together until the buffer is full. `ReferenceComputed`: while copying, the output
followed by the reference's value of the unread input is that of the input (`RefInv`); where the code's two
scans for `]` and for blanks stop is where `TagEnd` says (`RefSkip`). `CleanForGood`: the output has no tag and no
trailing white space, and of such a text the reference changes nothing (`NothingToRemove`).

**`BuildDbProofs`** (every set of input files, any number of runs and failures): `NeverHalf`, `FormsAgree`,
`EarlierRunsForgotten`. The invariant says for each phase of the script what is on disk and what the
transaction has (`SchemaAt`, `WordsAt`, `KanjiAt`): the rows inserted so far are those of the entries
before `next`, over tables that were empty. `BuildAssumption` excludes forms, parts of speech and glosses without text,
which `join` refuses; such a run ends as `Fail`.

`RowsWithoutTags` joins builder and search: what stands before a text does not change its tags (`TagEndShift`,
`UntaggedSuffix`), text without `[` stays (`UntaggedPlain`), a tag goes with its blank (`UntaggedTag`), so a line becomes
its glosses (`LineUntagged`) and the joined lines the joined glosses (`EntryUntagged`). It is stated for senses
without brackets of their own (`Unbracketed`): a `]` in a part of speech would end the tag early, a bracketed
remark in a gloss is taken out with the tags, and a gloss that begins with a blank loses it.

Induction over a table, a string or a file is by its least counterexample (`Lemmas.Least`), from the
library's well-foundedness of `<`, because the provers cannot instantiate the induction theorems.
That a recursive function exists and satisfies its own equation is proved the same way: `Lemmas.Backwards` constructs
the function for any recursion from the end of a sequence, given by its next positions and its steps, and
`Lemmas.SameBackwards` says that there is only one. `UntaggedEquation`, `KanaEquation`, `KataEquation` and `JoinEquation`
are its uses, and every "the loop computes the reference" starts from them.

Only model-checked:

* `Termination` of `Romaji` and of `Sanitize`, `ShiftEnds`, `EnterIsHonoured`, `SwitchIsHonoured`: liveness,
  which needs fairness and ENABLED.
* `SyllablesSurvive`: a fact about the 118 entries of the real table, which has no parameters to
  generalise; the run goes through all pairs of entries, but for those that `SpeltOtherwise` names.

## Not modelled

* The earlier interface `GUI/nuttxspace/lvgldemo.c`: nothing builds it. Its handler is smaller than the one
  that `PocketUI` models: it has no English mode, and it clears `furigana_word` on Enter.
* The container and installation scripts: straight-line shell without state of the program.
* NuttX, LVGL and SQLite, which are almost all the lines of the repository: third-party code. What the
  application relies on is modelled: a `read()` that returns one byte or none, label texts, SQLite
  calls that may fail, transactions that are rolled back.
* What the program does once a letter has overrun `search_word`: it is undefined.
* The checks of `romaji.rs` for null pointers: the callers pass arrays.
* Parsing of the XML files, colours, fonts, layout and the accent label, which is always empty.

All code of the repository's own that is built or run and keeps state is modelled.

## Plan

1. Done: `PocketUI`, `ResultList`, `Romaji`, `Sanitize`, `Dict`, `DictService` with their runs;
   proofs about `PocketUI` and `Romaji`.
2. Done: `Katakana`, the library version of `Dict`, `BuildDb`, and the composition `Device`.
3. Done, proved: `Dict`, `Sanitize`, `BuildDb`, `Katakana`, and that `Device` implements `PocketUI` and `Dict`.
4. Done, proved: the references as recursive functions, that `Romaji`, `Katakana` and `Sanitize` compute them, that
   the filter is idempotent, and that it takes out the builder's tags. Every safety property of the passing runs
   is a theorem, `SyllablesSurvive` excepted.
