SPECIFICATION Spec
CONSTANTS
  Cap = 2
  MaxInt = 3
  Mode = "POOL"
  Reserve = FALSE
  Times = {1}
  Counts = {1}
  ReadyOnly = TRUE
PROPERTY
  YieldSuspends
