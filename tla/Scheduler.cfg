\* Two sends share a bucket of three tokens that starts faster than the
\* server's, whose state at the start is unknown.
SPECIFICATION FairSpec
CONSTANTS
    Senders <- MixedSenders
    Job <- MixedJobs
    Unit = 2
    Capacity = 3
    DefaultRate = 2
    ServerRate = 1
    MaxAttempts = 2
    Backoff <- Doubling
    NoticeAfter = 2
INVARIANTS
    TypeOK
    NeverOverCredited
    TrueMeansAllSent
PROPERTIES
    NeverLimitedOnceSynced
    SendEnds
