SPECIFICATION Spec
CONSTANTS
    Conns = {1}
    Ids = {7, 8}
    MaxObjs = 2
    Chunks <- MCFewChunks
    RemoteLines = {0}
    AnswerTypes = {1}
    Outcomes = {"started"}
    EventResults = {TRUE}
    Portable = FALSE
INVARIANT StartingHasConfig
CHECK_DEADLOCK FALSE
