SPECIFICATION Spec
CONSTANTS
    MaxV = 1
    MinV = 1
    Accel = 1
    Decel = 1
    Hardware = FALSE
    Faults = {}
    c1 = c1
    c2 = c2
    Callers = {c1, c2}
    Requests = {0, 2}
    Operations = {"connection", "manual", "posture", "mission", "estop"}
PROPERTY DampedWhileLatched
CHECK_DEADLOCK FALSE
