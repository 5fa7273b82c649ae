SPECIFICATION NestSpec
CONSTANTS
  Cap = 3
  MaxInt = 5
  Mode = "DYNAMIC"
  Reserve = FALSE
  Times = {1}
  Counts = {2}
  ReadyOnly = TRUE
INVARIANTS
  StackInPlace
