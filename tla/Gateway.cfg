\* One direct and one group message of the same person, one restart.
SPECIFICATION FairSpec
CONSTANTS
    direct = direct
    ingroup = ingroup
    nina = nina
    nino = nino
    una = una
    uno = uno
    family = family
    Nothing = Nothing
    Messages = {direct, ingroup}
    Voice = {}
    MaxAttempts = 1
    MaxRestarts = 1
    Numbers = {nina, nino}
    Ids = {una, uno}
    Groups = {family}
    Deliveries <- MCDeliveries
    Callers <- MCCallers
    Envelope <- MCEnvelope
    ContactLists <- MCContactLists
INVARIANTS
    TypeOK
    RightPerson
    LockExact
    AnsweredWhereAsked
    ClosedLast
PROPERTIES
    NoNeedlessLookup
    FinalReactionStays
    StopEnds
CHECK_DEADLOCK FALSE
