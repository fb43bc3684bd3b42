SPECIFICATION FairSpec
CONSTANTS
    Events <- MCEvents
    Keys = {"k1", "k2"}
    KeyOf <- MCKeyOf
    max_attempts = 3
    capacity = 1
    MaxRedeliveries = 2
INVARIANTS TypeOK  NothingLost
 
CHECK_DEADLOCK FALSE
