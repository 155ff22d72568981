---------------------------- MODULE MotionProfile ----------------------------
(***************************************************************************)
(* The arithmetic of one velocity axis of the 50 Hz control loop of        *)
(* src/control.py: clamping of a requested velocity, the acceleration ramp *)
(* and the minimum effective speed.  Each of vx, vy and vyaw goes through  *)
(* the same three functions independently, so one axis is enough.          *)
(*                                                                         *)
(* Velocities are integers: the unit is the resolution _AXIS_EPS, below    *)
(* which the code treats a velocity as zero (so |x| <= eps is x = 0).      *)
(***************************************************************************)
EXTENDS Integers

CONSTANTS
    MaxV,     \* max_vx, max_vy or max_vyaw of the configuration
    MinV,     \* _MIN_VX, _MIN_VY or _MIN_VYAW
    Accel,    \* _ACCEL_* times dt: the largest speed-up of one tick
    Decel     \* _DECEL_* times dt: the largest slow-down of one tick

ASSUME ProfileAssumption ==
    /\ MaxV \in Nat \ {0}
    /\ MinV \in Nat
    /\ Accel \in Nat \ {0}
    /\ Decel \in Nat \ {0}

Speed == -MaxV .. MaxV

Abs(x) == IF x >= 0 THEN x ELSE -x
Least(x, y) == IF x <= y THEN x ELSE y
Greatest(x, y) == IF x >= y THEN x ELSE y

\* _clamp(value, self.max_v*)
Clamp(x) == Greatest(-MaxV, Least(MaxV, x))

\* _has_motion, for one axis
HasMotion(v) == v # 0

\* Mutant of StepTowards: the acceleration and deceleration limits are swapped
StepTowardsSwapped(current, target) ==
    LET delta == target - current
        limit == IF Abs(target) > Abs(current) THEN Decel ELSE Accel
    IN  IF delta = 0 THEN target
        ELSE IF delta > 0 THEN Least(target, current + limit)
        ELSE Greatest(target, current - limit)

\* Mutant of StepTowards: the last step is not cut at the target
StepTowardsOvershoots(current, target) ==
    LET limit == IF Abs(target) > Abs(current) THEN Accel ELSE Decel
    IN  IF target = current THEN target
        ELSE IF target > current THEN current + limit
        ELSE current - limit

\* _step_towards: one tick of the ramp.  Decel bounds every step whose target
\* is not faster than the current velocity, a reversal of direction included.
StepTowards(current, target) ==
    LET delta == target - current
        limit == IF Abs(target) > Abs(current) THEN Accel ELSE Decel
    IN  IF delta = 0 THEN target
        ELSE IF delta > 0 THEN Least(target, current + limit)
        ELSE Greatest(target, current - limit)

\* Mutant of EffectiveAxis: the sign is the ramp's
EffectiveAxisOfRamp(current, target) ==
    IF current = 0 THEN 0
    ELSE IF target = 0 THEN Clamp(current)
    ELSE LET sign == IF current >= 0 THEN 1 ELSE -1
         IN  Clamp(sign * Greatest(Abs(current), MinV))

\* _effective_axis: what is sent to the robot for the ramped velocity.  A
\* non-zero target gives its sign to the command, whatever the ramp's sign.
EffectiveAxis(current, target) ==
    IF current = 0 THEN 0
    ELSE IF target = 0 THEN Clamp(current)
    ELSE LET sign == IF target >= 0 THEN 1 ELSE -1
         IN  Clamp(sign * Greatest(Abs(current), MinV))
=============================================================================
