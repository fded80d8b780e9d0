\* The delays of the code, in seconds.
SPECIFICATION Spec
CONSTANTS
    RetryInitial = 2
    RetryMax = 5
    Jitter = 1
    CheckInterval = 5
    CheckTimeout = 5
    StaleThreshold = 30
PROPERTY
    ForcedOnlyWhenQuiet
