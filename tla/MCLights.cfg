CONSTANTS
  Pct <- MCPct
  AlsHold = 2
  LedHold = 1
  SleepTime = 2
SPECIFICATION LightsSpec
INVARIANTS
  BacklightFollows
  ScreenReadable
  ShowsTheState
