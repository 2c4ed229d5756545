SPECIFICATION FairSpec
CONSTANTS
  CaptureQueueCapacity = 2
  OutgoingQueueCapacity = 3
  HangoverFrames = 0
  TalkStartPackets = 1
  Monitors = {"off", "level"}
  MaxFrames = 2
  MaxRevision = 4
  MaxSettingChanges = 1
  MaxSendFailures = 1
  WorkerMayFail = TRUE
INVARIANTS VoiceMatchesPublished SilenceClosesBurst
PROPERTIES PublishedIsCurrent
CHECK_DEADLOCK FALSE
