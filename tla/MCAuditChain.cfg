SPECIFICATION FairSpec
CONSTANTS
    Writers = {w1, w2}
    NoWriter = NoWriter
    MaxRecords = 3
    MaxFailures = 2
INVARIANTS TypeOK Linked ChainIntact TipDescribesPrefix TipCurrentWhenFree NoFalseAlarm VerifiedIsComplete
PROPERTIES ImplementsAuditLog CallReturns
CHECK_DEADLOCK FALSE
