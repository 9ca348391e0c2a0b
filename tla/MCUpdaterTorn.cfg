CONSTANTS
  CkMod = 4
  Erased = 3
  Marker = 1
  Overlay <- MCOverlay
  Region = 4
  PageLen = 3
  FrameLen = 2
  NumSectors = 2
  SectorOf <- MCSectorOf
  TopSector <- MCTopSector
  Images <- MCImages
  StrayFrames = {}
  StraySizes = {}
SPECIFICATION Spec
INVARIANTS
  WholeProgram
