\* A full batch and a voice note behind it wait for the same tokens.
SPECIFICATION Spec
CONSTANTS
    Senders <- TwoSenders
    Job <- TwoJobs
    Unit = 2
    Capacity = 2
    DefaultRate = 1
    ServerRate = 1
    MaxAttempts = 2
    Backoff <- Doubling
    NoticeAfter = 5
PROPERTY
    FifoGrant
