SPECIFICATION Spec
CONSTANTS
  MaxConn = 2
  MaxInt = 3
  FDs = {5, 6, 7}
  NChannels = 1
  Ids <- MCIds
INVARIANTS
  FreeIndexesOK
  RecordHasChannel
  RetiredIdsIgnored
  ChannelHasOwnRecord
  ChannelsAreOpen
