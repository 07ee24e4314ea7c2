\* words of 8 bytes, details of 6, 3 results
SPECIFICATION Spec
CONSTANTS
  Table <- MCTable
  Query <- MCQuery
  HiraToKata <- KataOf
  Builds = {"simulator", "library"}
  sanitize <- MCsanitize
  DICT_MAX_RESULTS = 3
  DICT_WORD_LEN = 8
  DICT_ACCENT_LEN = 5
  DICT_DETAIL_LEN = 6
INVARIANTS TypeOK WordStaysInSlot StringsEnd WholeUnlessFull
  AnswersLatestQuery CompleteWhenDone
PROPERTY ImplementsDictService
