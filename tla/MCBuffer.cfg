SPECIFICATION Spec
CONSTANTS
  Bytes = {0, 1, 2}
  Zero = 0
  InitSize = 3
  Chunks <- MCChunks
  Lens = {0, 1, 2, 3}
  MaxQueue = 5
PROPERTY
  ImplementsFifo
