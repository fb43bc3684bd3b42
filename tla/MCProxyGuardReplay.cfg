SPECIFICATION Spec
CONSTANTS
    Configs <- AutoOnly
    Values <- MCValues
    Registries <- CorporateOnly
    KnownGood <- MCKnownGood
    MaxAttempts = 2
    MaxWrites = 0
    MaxProbeFailures = 2
    MaxCmdFailures = 0
    Cooldown = 1
    Window = 2
    MaxPerWindow = 1
    MaxTime = 2
INVARIANT ReplaysOnlyPriorValues
CHECK_DEADLOCK FALSE
