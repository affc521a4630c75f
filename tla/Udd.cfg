SPECIFICATION FairSpec
CONSTANTS
  Requests <- MCRequests
  Lossy <- InOut
  Late = FALSE
INVARIANTS AddressesAgree PayloadRight NoFalseStall
PROPERTIES Delivers Completes
