SPECIFICATION FairSpec
CONSTANTS
  Cap = 2
  MaxInt = 4
  Mode = "MALLOC"
  Reserve = FALSE
  Times = {1, 2}
  Counts = {1}
  ReadyOnly = FALSE
INVARIANTS
  ControlOK
  RunningIdOK
  PoolHoldsUnfinished
PROPERTIES
  AllExpireChecksAll
  TimeoutsAreReal
  PartExpireReachesAll
