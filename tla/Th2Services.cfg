SPECIFICATION AllSpec
CONSTANTS
  MaxDepth = 4
  EpSize = 2
  MaxTrans = 5
  Sizes <- MCSizes
  Clears <- Met
  Numbers <- MCNumbers
  Settings <- MCSettings
  MaxSamples = 6
  Readings = 16384
  Pads <- MCPads
INVARIANTS Exclusive EnabledOutside BufferRight QuietUnconfigured ConfiguredWorks ReadingCurrent DevicesAgree OutputsAgree
PROPERTIES OneCallback WarmerIsHigher
