CONSTANTS
  zbnet = zbnet
  receiver = receiver
  Bytes = {1, 2}
  RawQ = 4
  Readers = {zbnet}
  Ahead <- MCAhead
  Restores = {zbnet}
  Patience = 2
  Gap = 1
  ReplyMax = 3
SPECIFICATION FairSpec
INVARIANTS
  TypeOK
  SpeedHeld
PROPERTIES
  IsFifo
  ExchangeEnds
