SPECIFICATION Spec
CONSTANTS
    Configs <- RollbackConfigs
    Values <- MCValues
    Registries <- CorporateOnly
    KnownGood <- MCKnownGood
    MaxAttempts = 2
    MaxWrites = 2
    MaxProbeFailures = 1
    MaxCmdFailures = 1
    Cooldown = 1
    Window = 1
    MaxPerWindow = 1
    MaxTime = 2
INVARIANTS ReactsOnlyToOthers AppliedIsRestored WindowBound ListBounded
PROPERTY UsesLimiter
CHECK_DEADLOCK FALSE
