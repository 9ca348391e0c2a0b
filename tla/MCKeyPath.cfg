CONSTANTS
  backlight = backlight
  volume = volume
  exit = exit
  NoKey = NoKey
  Keys <- MCKeys
  Local = backlight
  Rank <- MCRank
  Nav <- MCNav
  DebounceTime = 2
  HoldTime = 2
  SleepTime = 2
  MaxMisreads = 2
  Rollover = FALSE
SPECIFICATION FairSpec
PROPERTIES
  OnePressOneNote
  HoldsClose
  MenuOpensByHold
