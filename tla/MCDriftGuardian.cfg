SPECIFICATION FairSpec
CONSTANTS
    Options <- MCOptions
    Machines <- MCMachines
    MaxWrites = 1
    MaxFailures = 1
INVARIANTS TypeOK 
PROPERTIES  FixIsComplete DeadProxyIsCleared
CHECK_DEADLOCK FALSE
