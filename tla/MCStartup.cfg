SPECIFICATION FairSpec
CONSTANTS
    AutoStart = 2
    Devices = 1
    MaxDevices = 3
    MaxTries = 3
    MaxClicks = 1
    MaxStops = 1
INVARIANTS EnoughTaps FirstTryIsAnswered
PROPERTY StartupEnds
CHECK_DEADLOCK FALSE
