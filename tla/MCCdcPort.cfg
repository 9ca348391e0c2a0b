CONSTANTS
  FrameLen = 3
  Packet = 2
  RingSize = 4
  main = main
  receiver = receiver
  radio = radio
  Flash = 8
  Window = 5
  Sig = 2
  Stride = 8
  Marks <- MCMarks
  MaxLines = 1
SPECIFICATION FairSpec
INVARIANTS
  InStep
  LinesWhole
  TransferQuiet
  SearchComplete
PROPERTIES
  PacketTaken
  MainEmits
