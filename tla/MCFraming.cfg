SPECIFICATION FairSpec
CONSTANTS
    MaxFrames = 4
    MaxBreaks = 1
    BodySizes = {2, 3}
    EarlyReturns = TRUE
INVARIANT HandledAsSent
PROPERTY DrainsUnlessEarly
CHECK_DEADLOCK FALSE
