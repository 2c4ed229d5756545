SPECIFICATION Spec
CONSTANTS
  SequenceSize = 4
  MaxGeneration = 3
  MaxPendingCommands = 3
  InitialRetryDelay = 1
  MaxRetryDelay = 2
  CommandTimeout = 3
  PingInterval = 1
  ReceiveTimeout = 3
  PollWait = 1
  ReceiveWait = 2
  MaxWork = 0
  MaxInitFragments = 2
  TransportFails = TRUE
  MaxPackets = 6
  MaxAcks = 4
  MaxTime = 1
INVARIANTS RetiredIsReceived PendingIdsDistinct AckGenerationsResolve
CHECK_DEADLOCK FALSE
