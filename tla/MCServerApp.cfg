SPECIFICATION Spec
CONSTANTS
  UsPerMs = 2
  MsPerSec = 4
  Tick = 3
  IdleMax = 2
  Scripts <- MCScripts
  MaxSince = 9
  MaxBack = 3
INVARIANTS
  CommandsWhole
  SleepsUntilTick
PROPERTIES
  TicksOnTime
  TicksUntilStopped
CHECK_DEADLOCK FALSE
