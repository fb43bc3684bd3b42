SPECIFICATION Spec
CONSTANTS
    Workers = {w1, w2}
    Events <- MCEvents
    Keys = {"k1", "k2"}
    KeyOf <- MCKeyOf
    NoKey = "no key"
    NoEvent = "no event"
    Publishes = TRUE
    MaxExpiries = 2
    MaxRestarts = 1
    MaxFailures = 1
INVARIANTS TypeOK OncePerRecord AcceptedIsKept
CHECK_DEADLOCK FALSE
