\* Every kind of callback and every way a delivery can fail; the clock stands.
SPECIFICATION FairSpec
CONSTANTS
    Keys = {"k1", "k2"}
    Ttl = 2
    SweepInterval = 1
    Callbacks <- MixedReplies
    MaxRequests = 2
    MaxRestarts = 1
    Horizon = 0
    MaxLate = 1
INVARIANTS
    CompletedMeansShown
    VoiceSuppressesText
PROPERTIES
    ReservationReleased
CHECK_DEADLOCK FALSE
