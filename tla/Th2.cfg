SPECIFICATION FairSpec
CONSTANTS
  NSAMPLES = 2
  CONV_TICKS = 1
  POLL_DELAY = 4
  CALIB_DELAY = 8
  HIH_DELAY = 2
  TICKS = 16
  Stall = FALSE
  Switch = {TRUE, FALSE}
INVARIANTS TypeOK NeverTorn
PROPERTIES DacShowsValue SamplesFlow CalibrationSeen
