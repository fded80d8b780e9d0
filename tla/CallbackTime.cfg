\* Repeated text replies, the clock and a restart; no media.
SPECIFICATION Spec
CONSTANTS
    Keys = {k1, k2}
    Ttl = 2
    SweepInterval = 1
    Callbacks <- TextReplies
    MaxRequests = 4
    MaxRestarts = 1
    Horizon = 3
    MaxLate = 0
SYMMETRY KeySymmetry
INVARIANTS
    TypeOK
    InFlightExact
    OneDeliveryPerKey
    OncePerTtl
    SweptClean
PROPERTIES
    OnlyTimeForgets
    KeepsLedger
CHECK_DEADLOCK FALSE
