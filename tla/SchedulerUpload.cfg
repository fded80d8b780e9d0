\* A batch of files and a voice note, at the rate of the server.
SPECIFICATION Spec
CONSTANTS
    Senders <- TwoSenders
    Job <- TwoJobs
    Unit = 2
    Capacity = 3
    DefaultRate = 1
    ServerRate = 1
    MaxAttempts = 2
    Backoff <- Doubling
    NoticeAfter = 2
PROPERTY
    UploadNotCredited
