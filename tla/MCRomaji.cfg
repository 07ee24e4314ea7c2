\* a k n y K and the first byte of a kana, strings of up to 4
SPECIFICATION Spec
CONSTANTS
  TABLE <- ROMAJI_TABLE
  Source <- MCSource
  Sizes = {0, 1, 2, 4, 5, 7, 10, 13}
  Junk = {255}
  MaxLen = 4
  Alphabet = {97, 107, 110, 121, 75, 227}
INVARIANTS TypeOK StringInBuffer FitsBuffer WholeCharacters MatchesReference
PROPERTY Termination
CHECK_DEADLOCK FALSE
