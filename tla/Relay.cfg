\* Three messages, two of them with audio.
SPECIFICATION FairSpec
CONSTANTS
    Messages = {m1, m2, m3}
    Voice = {m1, m2}
    MaxAttempts = 3
INVARIANTS
    TypeOK
    AtMostOnce
    InOrder
PROPERTY
    StreamMovesOn
