SPECIFICATION Spec
CONSTANTS
  SequenceSize = 6
  MaxGeneration = 3
  MaxPendingCommands = 2
  InitialRetryDelay = 1
  MaxRetryDelay = 2
  CommandTimeout = 4
  PingInterval = 1
  ReceiveTimeout = 6
  PollWait = 1
  ReceiveWait = 2
  MaxWork = 1
  MaxInitFragments = 1
  TransportFails = TRUE
  MaxPackets = 2
  MaxAcks = 2
  MaxTime = 7
INVARIANTS RetriesInTime SilenceIsProbed RttIsRoundTrip
CHECK_DEADLOCK FALSE
