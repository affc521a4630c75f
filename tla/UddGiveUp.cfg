SPECIFICATION Spec
CONSTANTS
  Requests <- MCFewRequests
  Lossy <- NoLoss
  Late = FALSE
INVARIANT AddressAfterHandshake
