SPECIFICATION FairSpec
CONSTANTS
    Letters <- MCOptions
    Lines <- MCLines
    OddLines <- MCOddLines
    ProxyInputs <- MCProxyInputs
    Versions <- MCVersions
    Names = {"dhShowSmallKeyInformation", "sendToTrayAfterConnect"}
    Entries = {1}
    MaxRuns = 2
    MaxActs = 4
    CheckedRuns = 1
INVARIANT SplitsAsQuoted
INVARIANT ChoicesKept
INVARIANT NewerIsOffered
INVARIANT MenuTells
INVARIANT ReconnectsLive
CHECK_DEADLOCK FALSE
PROPERTY StartEnds
