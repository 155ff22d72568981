SPECIFICATION FairSpec
CONSTANTS
    MaxV = 1
    MinV = 1
    Accel = 1
    Decel = 1
    Hardware = TRUE
    Faults = {"move", "stand_up", "enter", "exit"}
    c1 = c1
    c2 = c2
    Callers = {c1}
    Requests = {0, 2}
    Operations = {"connection", "manual", "posture", "mission", "estop"}
PROPERTIES SilentOperatorStops ImplementsGate EstopStops
CHECK_DEADLOCK FALSE
