SPECIFICATION FairSpec
CONSTANTS
    File = {1}
    Broken = {}
    Runner = {r1, r2}
    NoRunner = NoRunner
    Nothing = Nothing
    Faults = 1
    Restores = 1
CHECK_DEADLOCK FALSE
INVARIANTS RowsKeepBytes
PROPERTY OrphansAreRemoved
