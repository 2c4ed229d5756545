SPECIFICATION Spec
CONSTANTS
    Processes = {"cli", "gtk"}
    GtkClients = {"gtk"}
    Settings = {"default", "changed"}
    DefaultSecurityLevel = 0
    MaxLevel = 1
    MaxKeys = 2
    MaxSaves = 1
    MaxFaults = 1
INVARIANT NextStartWorks
PROPERTY IdentityIsKept
CHECK_DEADLOCK FALSE
