SPECIFICATION MissionSpec
CONSTANTS
    MaxV = 1
    MinV = 1
    Accel = 1
    Decel = 1
    Hardware = FALSE
    Faults = {"checkpoint", "write"}
    executor = executor
    operator = operator
    Callers <- ExecutorAndOperator
    Executor = executor
    Requests = {}
    Operations = {"connection", "manual", "mission", "estop"}
    Route <- ShortRoute
    Chunks = 1
    MaxRuns = 2
INVARIANT CompletedMeansAllSteps
PROPERTIES ReportsWrittenOnce
CHECK_DEADLOCK FALSE
