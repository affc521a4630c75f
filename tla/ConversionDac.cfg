CONSTANTS
  Readings = 16384
  Pads <- MCPads
SPECIFICATION WalkSpec
INVARIANT DacIn12Bit
