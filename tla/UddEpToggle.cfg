SPECIFICATION EpSpec
CONSTANTS
  EpSize = 2
  MaxTrans = 5
  Sizes <- MCSizes
  Clears <- WhileHalted
INVARIANT TogglesAgree
