SPECIFICATION MissionFairSpec
CONSTANTS
    MaxV = 1
    MinV = 1
    Accel = 1
    Decel = 1
    Hardware = FALSE
    Faults = {"checkpoint", "slow_join"}
    executor = executor
    operator = operator
    Callers <- ExecutorAndOperator
    Executor = executor
    Requests = {}
    Operations = {"connection", "mission", "estop"}
    Route <- FullRoute
    Chunks = 3
    MaxRuns = 1
INVARIANTS NoOrphanAutoTarget EndedMissionStopOwed
PROPERTIES MissionEndsUnlessPaused AbortedMissionStops OnlyCallsControlCore
CHECK_DEADLOCK FALSE
