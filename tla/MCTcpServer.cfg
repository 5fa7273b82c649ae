SPECIFICATION FairSpec
CONSTANTS
  NFDs = 4
  Addrs = {c1, c2}
  ListSize = 1
  MaxPeers = 3
INVARIANTS
  TablesAgree
  EventsReachLive
PROPERTIES
  ClosedByPeer
  EverybodyIsServed
CHECK_DEADLOCK FALSE
