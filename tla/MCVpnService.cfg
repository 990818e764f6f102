SPECIFICATION FairSpec
CONSTANTS
    Conns = {1, 2}
    Ids = {7}
    MaxObjs = 2
    Chunks <- MCChunks
    RemoteLines = {1}
    AnswerTypes = {1}
    Outcomes = {"noConfig", "noExe", "failed", "started"}
    EventResults = {TRUE, FALSE}
    Portable = FALSE
INVARIANTS OneListedPerId LiveBehindStatus
PROPERTIES NoStrayRemoval ProcessesEnd
CHECK_DEADLOCK FALSE
