SPECIFICATION WireSpec
CONSTANTS
  Phases <- MCPhases
  MaxBytes = 12
  Messages <- MCMessages
  Lengths <- MCLengths
  Bytes <- MCBytes
  MaxLen = 4
INVARIANTS PacketRight SampleCentred LineStandard RateHeld HostAccepts
CHECK_DEADLOCK FALSE
