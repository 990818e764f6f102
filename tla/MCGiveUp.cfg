SPECIFICATION FailingSpec
CONSTANTS
    Conns = {1, 2}
    Ids = {7}
    MaxObjs = 2
    Chunks <- MCFailing
    RemoteLines = {2}
    AnswerTypes = {1}
    Outcomes = {"started"}
    EventResults = {TRUE}
    Portable = FALSE
PROPERTY FailingHostsGiveUp
CHECK_DEADLOCK FALSE
