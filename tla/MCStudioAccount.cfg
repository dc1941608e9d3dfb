SPECIFICATION FairSpec
INVARIANTS OneOwner KeyStaysForgotten OwnerSuppressesKey
PROPERTIES SessionEndLeaves
CONSTANTS
  NoData = NoData
  MaxCalls = 1
  MaxKeys = 2
CHECK_DEADLOCK FALSE
