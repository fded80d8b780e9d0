\* A voice reply with text whose media step raises.
SPECIFICATION FairSpec
CONSTANTS
    Keys = {"k1", "k2"}
    Ttl = 2
    SweepInterval = 1
    Callbacks <- MixedReplies
    MaxRequests = 1
    MaxRestarts = 0
    Horizon = 0
    MaxLate = 1
INVARIANT
    VoiceFailureFallsBackToText
CHECK_DEADLOCK FALSE
