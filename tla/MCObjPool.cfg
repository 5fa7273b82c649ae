SPECIFICATION FairSpec
CONSTANTS
  Cap = 3
  MaxInt = 11
  SelfFree = FALSE
INVARIANTS
  ListsOK
  SpentIdsRejected
  TravelVisitsOnce
PROPERTIES
  ImplementsIdPool
  TravelEnds
CHECK_DEADLOCK TRUE
