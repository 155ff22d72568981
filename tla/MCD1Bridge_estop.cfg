SPECIFICATION FairSpec
CONSTANTS
    DryRunFallback = TRUE
    Backlog = 1
PROPERTY EstopHaltsArm
CHECK_DEADLOCK FALSE
