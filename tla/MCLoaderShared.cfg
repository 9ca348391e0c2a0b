CONSTANTS
  Total = 4
  NumMod = 3
  Attempts = 2
  Rounds = 2
  AskTries = 3
  Tries = 2
  EotTries = 2
  MaxAir = 2
SPECIFICATION LoaderSpec
INVARIANTS
  NobodyElse
CHECK_DEADLOCK FALSE
