\* every kana character
SPECIFICATION KSpec
CONSTANTS
  TABLE <- ROMAJI_TABLE
  Source <- KanaCharacters
  Sizes = {16}
  Junk = {0}
INVARIANT KanaPassesThrough
CHECK_DEADLOCK FALSE
