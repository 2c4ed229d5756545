SPECIFICATION FairSpec
CONSTANTS
  MaxActions = 2
  MaxPackets = 2
  GoodbyePolls = 2
  MayThrow = TRUE
INVARIANT NothingIsLost
PROPERTIES LeavingEnds ActionsAreExecuted
CHECK_DEADLOCK FALSE
