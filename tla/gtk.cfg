SPECIFICATION GtkSpec
CONSTANTS
    Channels = {"channel 1", "channel 2"}
    Visited = {"channel 1"}
    MaxSessions = 2
    MaxEvents = 2
    MaxQueued = 1
INVARIANTS GoneLeavesNothing TreeIsCurrent
PROPERTY LeavingTakesEffect
