\* two syllables, kana and mixed text, in a buffer of 16 bytes
SPECIFICATION KSpec
CONSTANTS
  TABLE <- ROMAJI_TABLE
  Source <- Words
  Sizes = {16}
  Junk = {255}
INVARIANTS SyllablesSurvive LengthKept SameAsC
PROPERTY ShiftEnds
CHECK_DEADLOCK FALSE
