CONSTANTS
  CkMod = 4
  Erased = 3
  Marker = 1
  Overlay <- MCOverlay
  Region = 4
  PageLen = 3
  FrameLen = 2
  NumSectors = 2
  SectorOf <- MCSectorOf
  TopSector <- MCTopSector
  Images <- MCImages
  StrayFrames <- MCStrayFrames
  StraySizes = {2}
SPECIFICATION FairSpec
INVARIANTS
  TypeOK
  AlwaysBootable
  CommitsWhatWasSent
  StagesWhatIsReceived
PROPERTIES
  UpdateIsAtomic
  CommitCompletes
  TransferEnds
