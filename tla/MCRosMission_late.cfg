SPECIFICATION FairSpec
CONSTANTS
    NumWaypoints = 2
    MaxRuns = 1
    WritesFail = FALSE
INVARIANT IdleMeansNotDriving
CHECK_DEADLOCK FALSE
