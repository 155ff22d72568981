SPECIFICATION RampSpec
CONSTANTS
    MaxV = 5
    MinV = 2
    Accel = 2
    Decel = 3
PROPERTIES SpeedRampsUp NeverAgainstTarget RampSettles
