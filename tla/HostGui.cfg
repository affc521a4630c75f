SPECIFICATION FairSpec
CONSTANTS
  v1 = v1
  th2 = th2
  Devices <- MCDevices
  Kind <- MCKind
  chk_interval = 4
INVARIANTS LabelsRight UnsetOnlyByChange
PROPERTY FoundAgain
