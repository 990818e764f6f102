SPECIFICATION FairSession
CONSTANTS
    Conns = {1}
    Ids = {7}
    MaxObjs = 2
    Chunks <- MCChunks
    RemoteLines = {1}
    AnswerTypes = {1}
    Outcomes = {"started"}
    EventResults = {TRUE, FALSE}
    Portable = TRUE
    Me = 1
    Id = 7
    StartGiven = {}
    MaxQueue = 2
    MaxDialogs = 2
    MaxActs = 2
INVARIANT GreenIsConnected
PROPERTIES NoRefusedResend DisconnectAnswered
CHECK_DEADLOCK FALSE
