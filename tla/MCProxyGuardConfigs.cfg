SPECIFICATION FairSpec
CONSTANTS
    Configs <- AllConfigs
    Values <- MCValues
    Registries <- CorporateOrEmpty
    KnownGood <- MCKnownGood
    MaxAttempts = 2
    MaxWrites = 1
    MaxProbeFailures = 1
    MaxCmdFailures = 1
    Cooldown = 1
    Window = 2
    MaxPerWindow = 1
    MaxTime = 2
INVARIANTS TypeOK ConsentedWrites
 
CHECK_DEADLOCK FALSE
