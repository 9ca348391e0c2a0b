CONSTANTS
  QueueSize = 2
  MissLimit = 3
  MaxPress = 3
SPECIFICATION NetFairSpec
PROPERTIES
  SetupOnlyWhenOff
  KeysOnceInOrder
  KeysGoOut
  LossRejoined
