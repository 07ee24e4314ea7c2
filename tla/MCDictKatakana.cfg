SPECIFICATION Spec
CONSTANTS
  Table <- MCTable
  Query <- HiraganaQuery
  HiraToKata <- KataOf
  Builds = {"simulator"}
  sanitize <- MCsanitize
  DICT_MAX_RESULTS = 3
  DICT_WORD_LEN = 8
  DICT_ACCENT_LEN = 5
  DICT_DETAIL_LEN = 6
INVARIANT FoundByKatakana
