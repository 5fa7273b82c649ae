SPECIFICATION FairSpec
CONSTANTS
  NFDs = 3
  MaxMsgs = 3
  MaxSendBuf = 2
  MaxRecvBuf = 1
INVARIANTS
  RegistrationOK
  ConnectedIsReal
  WholeMessages
PROPERTIES
  KeptWhileAlive
  QueueDrains
