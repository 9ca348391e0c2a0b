CONSTANTS
  QueueSize = 2
  MissLimit = 3
  MaxPress = 1
SPECIFICATION NetFairSpec
PROPERTIES
  StaleRejoined
