SPECIFICATION Spec
CONSTANTS
    Names = {0, 1, 2, 3}
    Illegal = {0}
    Sources <- MCSources
    Picks <- MCPicks
    Missing <- MCMissing
    Given <- MCGiven
    MaxActs = 5
INVARIANT RefsRight
PROPERTY EntryKept
CHECK_DEADLOCK FALSE
