SPECIFICATION MCSpec
CONSTANTS
  Cap = 5
  MaxInt = 10
  Times = {1, 2, 3}
  Bufs = {b1}
  b1 = b1
  NoBuf = NoBuf
  MaxChanges = 2
INVARIANTS
  HeapAndPoolAgree
PROPERTY
  ImplementsTimerSet
CHECK_DEADLOCK FALSE
