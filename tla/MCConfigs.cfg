SPECIFICATION Spec
CONSTANTS
    Names = {1, 2}
    MaxId = 3
    MaxActs = 5
INVARIANTS RowsAreLive ListMatchesTable NoForeignChecksum ShownAsIs NoOrphan
CHECK_DEADLOCK FALSE
