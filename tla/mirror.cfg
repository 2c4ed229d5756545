SPECIFICATION Spec
CONSTANTS
  MaxClientId = 2
  Channel = {1, 2, 3}
  Self = 1
  Others = {2}
  Name = {1, 2}
  MaxOps = 3
  MaxEvents = 2
INVARIANTS
  MirrorIsServer
  PresenceIsTrue
  RepliesReachSender
  VoiceHasItsUsersSettings
PROPERTIES
  FailedCommandChangesNothing
CHECK_DEADLOCK FALSE
