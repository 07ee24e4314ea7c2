\* a Japanese search is repeated by a second Enter
SPECIFICATION Spec
CONSTANTS
  Letter = {97, 107}
  OtherKey = {48}
  WORD_CAP = 4
  MAX_RESULTS = 3
  LIST_COUNT = 2
  BOTTOM_ITEM_COUNT = 2
  TTY_CAP = 1
  Kana <- MCKana
  JpHits <- MCJpHits
  EnHits <- MCEnHits
  ame = ame
  aki = aki
  kau = kau
  aka = aka
  Entry = {ame, aki, kau, aka}
  Blank = Blank
  Help = Help
  PromptJP = PromptJP
  PromptEN = PromptEN
  NULL = NULL
INVARIANT SearchCleared
