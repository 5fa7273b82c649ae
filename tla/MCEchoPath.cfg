SPECIFICATION Spec
CONSTANTS
  Bytes = {0, 1, 2, 3, 4}
  Zero = 0
  InitSize = 6
  Base = 5
  HeadSize = 2
  Payloads <- MCPayloads
  Positions = {0, 2}
  Fields = {0, 2}
  MaxMsgs = 2
INVARIANTS
  EchoesWhole
  NothingLeft
CHECK_DEADLOCK FALSE
