SPECIFICATION Spec
CONSTANTS
    Workers = {w1, w2}
    Events <- MCEvents
    Keys = {"k1", "k2"}
    KeyOf <- MCKeyOf
    NoKey = "no key"
    NoEvent = "no event"
    Publishes = TRUE
    MaxExpiries = 0
    MaxRestarts = 0
    MaxFailures = 1
INVARIANT AcceptedIsPublished
CHECK_DEADLOCK FALSE
