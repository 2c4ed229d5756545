SPECIFICATION Spec
CONSTANTS
  MaxAttempts = 2
  MaxFragments = 3
  MaxResets = 2
  MaxDuplicates = 1
CHECK_DEADLOCK FALSE
INVARIANTS SecureSession CommandsInOrder
PROPERTIES HandoverContinues ConnectEnds
