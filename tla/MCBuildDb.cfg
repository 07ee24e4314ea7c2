\* files of up to 3 entries, two failures
SPECIFICATION Spec
CONSTANTS
  Jmdicts <- MCJmdicts
  Kanjidics <- MCKanjidics
  NoTable = NoTable
  MAX_FAILURES = 2
INVARIANTS NoHalfDictionary FormsOfWords LastRunWins TagsAreStripped
