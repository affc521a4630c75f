SPECIFICATION FairSpec
CONSTANTS
  Requests <- MCRequests
  DescriptorSize <- MCDescriptorSize
  NIds = 2
  Words = {0}
INVARIANTS AddressesAgree PacketStays
PROPERTIES Delivers Completes
