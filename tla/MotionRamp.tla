------------------------------ MODULE MotionRamp ------------------------------
(***************************************************************************)
(* One velocity axis under the control loop, with nothing asking for a     *)
(* stop: submit() changes the target at any time, every tick of            *)
(* _control_loop ramps towards it and sends a command.  The module exists  *)
(* to check the functions of MotionProfile over every sequence of targets. *)
(***************************************************************************)
EXTENDS MotionProfile

VARIABLES
    axis,      \* the component of _current_velocity
    want,      \* the component of the active target
    sent       \* the component of the command of the last tick

rampVars == <<axis, want, sent>>

RampInit == axis = 0 /\ want = 0 /\ sent = 0

\* submit(): a request beyond the configured limit is clamped to it
Retarget ==
    /\ \E request \in -(MaxV + 1) .. MaxV + 1 : want' = Clamp(request)
    /\ UNCHANGED <<axis, sent>>

\* one pass of _control_loop
Tick ==
    /\ axis' = StepTowards(axis, want)
    /\ sent' = EffectiveAxis(axis', want)
    /\ UNCHANGED want

RampNext == Retarget \/ Tick

\* The control thread runs at 50 Hz until shutdown; the callers of submit()
\* owe nothing.
RampSpec == RampInit /\ [][RampNext]_rampVars /\ WF_rampVars(Tick)
-----------------------------------------------------------------------------
\* Neither the ramp nor a command sent to the robot leaves the configured
\* limit, whatever the requests (_clamp in submit and in _effective_axis).
RampTypeOK == axis \in Speed /\ want \in Speed /\ sent \in Speed

\* Raising the ramped velocity to the minimum effective speed never turns into
\* a jump: a tick speeds the robot up by at most one acceleration step, or to
\* the minimum effective speed (_step_towards followed by _effective_axis).
SpeedRampsUp == [][Abs(sent') <= Greatest(Abs(sent) + Accel, MinV)]_rampVars

\* A tick never sends a command against the direction that is asked for, even
\* while the ramp still runs the other way (the sign rule of _effective_axis).
NeverAgainstTarget == [][sent' # sent => sent' * want' >= 0]_rampVars

Settled(target) ==
    /\ axis = target
    /\ sent * target >= 0
    /\ (sent = 0) = (target = 0)

\* A target that stays put is reached and held: the ramp neither overshoots
\* nor oscillates, and the robot is then sent a velocity in that direction, or
\* zero exactly when the target is zero (_step_towards, _effective_axis).
RampSettles == \A target \in Speed : <>[](want = target) => <>[]Settled(target)
=============================================================================
