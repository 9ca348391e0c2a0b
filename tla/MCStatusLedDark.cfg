CONSTANTS
  LedHold = 3
  SleepTime = 2
SPECIFICATION FairSpec
PROPERTIES
  DarkOnBattery
