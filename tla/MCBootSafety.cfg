CONSTANTS
  MaxBootAttempts = 3
  HealthyAfter = 2
  WatchdogPeriod = 2
  InitGap = 1
  UploadTicks = 6
  FaultAges = {0, 1, 2, 3, 4}
  SpiMayStick = TRUE
  MaxAge = 4
  MaxCount = 5
SPECIFICATION FairSpec
INVARIANTS
  CounterCountsFailures
  RetriesBounded
PROPERTIES
  SafeModeEarned
  Recoverable
  HangBecomesReset
