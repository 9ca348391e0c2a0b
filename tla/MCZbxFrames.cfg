CONSTANTS
  Base = 5
  Esc = 2
  Sof = 3
  Eof = 4
  MaxPayload = 3
  Slots = 4
SPECIFICATION Spec
INVARIANTS
  RoundTrip
  AlteredRejected
  HeldFrameKept
