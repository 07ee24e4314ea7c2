SPECIFICATION Spec
CONSTANTS
  Table <- MCTable
  Query <- KanjiQuery
  HiraToKata <- KataOf
  Builds = {"simulator", "library"}
  sanitize <- MCsanitize
  DICT_MAX_RESULTS = 3
  DICT_WORD_LEN = 8
  DICT_ACCENT_LEN = 5
  DICT_DETAIL_LEN = 6
INVARIANT FoundByKanji
