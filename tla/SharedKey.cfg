\* Two users whose messages carry the same timestamp.
SPECIFICATION FairSpec
CONSTANTS
    Keys = {"k1", "k2"}
    Ttl = 2
    SweepInterval = 1
    Callbacks <- SameInstant
    MaxRequests = 2
    MaxRestarts = 0
    Horizon = 0
    MaxLate = 0
INVARIANT
    DroppedOnlyRepeats
CHECK_DEADLOCK FALSE
