SPECIFICATION ReceiveSpec
CONSTANTS
  Modulus = 32
  Prebuffer = 2
  MaxPending = 3
  MaxReorder = 5
  MaxLosses = 1
  IncomingCapacity = 2
  ResetCapacity = 1
  FirstId = 29
  Malformed = {3}
  MaxDelay = 1
  Gap = 6
  MaxSent = 4
  MaxSentNew = 1
  MaxCopies = 1
CHECK_DEADLOCK FALSE
INVARIANTS StreamInOrder OnlyLateIsRefused NewOwnerStartsFresh
PROPERTIES PlaysOut
