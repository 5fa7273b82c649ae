SPECIFICATION Spec
CONSTANTS
  RollSize = 2
  RollCountMax = 2
  Day = 2
  Zone = 1
  CloseSize = 1
  CatConfs <- MCCatConfs
  Levels = {0, 1}
  Sizes = {1, 2}
  Zones = {0, 1}
  MaxLines = 4
  MaxTime = 4
  MaxStarts = 2
  MaxLapse = 1
INVARIANTS
  EachFileOneRun
  FiledByDay
  FilesBounded
PROPERTIES
  OnlyOldestDropped
  TriesAgain
CHECK_DEADLOCK FALSE
