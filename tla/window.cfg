SPECIFICATION FairSpec
CONSTANTS
  SequenceSize = 6
  MaxGeneration = 2
  MaxQueuedPackets = 2
  MaxCommandSize = 2
  ServerWindow = 2
  MaxPacketAge = 2
  PlainSizes = {1, 2, 3}
  CompressedSizes = {2}
  MaxPackets = 6
INVARIANTS QueueInWindow InOrderExactlyOnce AckedIsHeld NoWindowFailure
PROPERTIES ImplementsChannel EventuallyReady
CHECK_DEADLOCK FALSE
