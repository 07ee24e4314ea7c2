\* words of up to 3 letters, 2 of 3 rows kept, two keys in the console
SPECIFICATION DSpec
CONSTANTS
  Letter = {97}
  OtherKey = {48}
  WORD_CAP = 4
  MAX_RESULTS = 2
  LIST_COUNT = 2
  BOTTOM_ITEM_COUNT = 1
  TTY_CAP = 2
  Kana <- KanaOfA
  JpHits <- MCJpHits
  EnHits <- MCEnHits
  Table <- MCTable
  DICT_WORD_LEN = 8
  DICT_ACCENT_LEN = 5
  DICT_DETAIL_LEN = 5
  sanitize <- MCsanitize
  Entry <- MCEntry
  Blank <- MCBlank
  Help = Help
  PromptJP = PromptJP
  PromptEN = PromptEN
  NULL = NULL
INVARIANT ScreenAnswersQuery
PROPERTIES ImplementsUI EnterIsHonoured SwitchIsHonoured
