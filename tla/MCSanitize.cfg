\* [ ] space newline x, strings of up to 5
SPECIFICATION Spec
CONSTANTS
  Source <- MCSource
  Sizes = {1, 3, 4, 7}
  MaxLen = 5
  Alphabet = {91, 93, 32, 10, 120}
INVARIANTS TypeOK NoTagLeft Idempotent MatchesReference
PROPERTY Termination
CHECK_DEADLOCK FALSE
