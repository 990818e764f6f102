CONSTANTS
    MaxConnections = 4
    MaxRequests = 2
    Checks <- MCChecks
    Portable = TRUE
SPECIFICATION Spec
CHECK_DEADLOCK FALSE
INVARIANTS
    ListedIsLive
    IdsHold
    AcceptedIsSigned
    AnswersDriftForward
PROPERTY PortableStops
