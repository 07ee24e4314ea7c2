\* words of up to 3 letters, 3 of 4 rows kept, one key in the console
SPECIFICATION Spec
CONSTANTS
  Letter = {97, 107}
  OtherKey = {48}
  WORD_CAP = 4
  MAX_RESULTS = 3
  LIST_COUNT = 3
  BOTTOM_ITEM_COUNT = 3
  TTY_CAP = 1
  Kana <- MCKana
  JpHits <- MCJpHits
  EnHits <- MCEnHits
  ame = ame
  aki = aki
  kau = kau
  aka = aka
  Entry = {ame, aki, kau, aka}
  Blank = Blank
  Help = Help
  PromptJP = PromptJP
  PromptEN = PromptEN
  NULL = NULL
INVARIANTS TypeOK SelectionInResults ScreenShowsResults DetailsOfSelection
  WhatIsShownIsSearched PromptOfMode
PROPERTIES SelectionMoves ImplementsResultList
