SPECIFICATION Spec
CONSTANTS
    MaxV = 1
    MinV = 1
    Accel = 1
    Decel = 1
    Hardware = FALSE
    Faults = {}
    c1 = c1
    c2 = c2
    Callers = {c1, c2}
    Requests = {0, 2}
    Operations = {"manual", "posture", "mission", "estop"}
SYMMETRY AnyCaller
INVARIANTS EstopStopOwed SilentOperatorStopOwed EstopHoldsMode EstopEndsMission NoResidualManualTarget ShutdownLeavesRobotStill
PROPERTY PausedUntilResumed
CHECK_DEADLOCK FALSE
