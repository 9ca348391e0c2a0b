CONSTANTS
  DebounceTime = 3
  WaitTime = 10
  BlankTime = 5
  ReadEvery = 4
  SleepAfter = 6
SPECIFICATION Spec
INVARIANTS
  PressWakes
  UserWakes
