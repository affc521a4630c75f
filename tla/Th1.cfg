SPECIFICATION FairSpec
CONSTANTS
  DELAY = 1
  HALF = 1
  CONV = 2
  NSAMPLES = 3
INVARIANT OutputsTogether
PROPERTIES AnswerOfOneSample NoSampleTwice SamplesFlow
