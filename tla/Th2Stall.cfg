SPECIFICATION Spec
CONSTANTS
  NSAMPLES = 2
  CONV_TICKS = 1
  POLL_DELAY = 2
  CALIB_DELAY = 7
  HIH_DELAY = 1
  TICKS = 3
  Stall = TRUE
  Switch = {FALSE}
INVARIANTS AgreeWithBus SampleWhole
PROPERTY NoSampleTwice
