SPECIFICATION MissionFairSpec
CONSTANTS
    MaxV = 1
    MinV = 1
    Accel = 1
    Decel = 1
    Hardware = FALSE
    Faults = {}
    executor = executor
    operator = operator
    Callers <- ExecutorAndOperator
    Executor = executor
    Requests = {}
    Operations = {"connection", "mission"}
    Route <- MoveRoute
    Chunks = 3
    MaxRuns = 1
PROPERTY PausedMissionStops
CHECK_DEADLOCK FALSE
