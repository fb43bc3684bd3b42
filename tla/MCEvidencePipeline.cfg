SPECIFICATION FairSpec
CONSTANTS
    Requests = {"r1", "r2", "r3"}
    Loads <- MCLoads
    Workers = {"w1", "w2"}
    NoJob = nojob
    NoSource = nosource
    MaxFaults = 1
INVARIANTS  BundleIsWhole AcceptedIsInHand SettledHasRecord 
PROPERTY Drains
CHECK_DEADLOCK FALSE
