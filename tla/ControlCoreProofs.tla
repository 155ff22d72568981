--------------------------- MODULE ControlCoreProofs ---------------------------
(***************************************************************************)
(* ControlCore, proved for every set of threads, every velocity limit and  *)
(* ramp, both adapters, and every adapter fault the theorems allow.        *)
(***************************************************************************)
EXTENDS ControlCore, MotionProfileProofs

\* The actions a call can be: what every proof below splits on.
CallStep(c) ==
    \/ Connect(c)
    \/ TakeManual(c)
    \/ ReleaseManual(c)
    \/ ClearManualTarget(c)
    \/ RejectLatched(c)
    \/ StandUp(c)
    \/ SitDown(c)
    \/ StopMotion(c)
    \/ DampingOn(c)
    \/ PauseMission(c)
    \/ ResumeMission(c)
    \/ AbortMission(c)
    \/ LatchEstop(c)
    \/ ResetEstop(c)
    \/ BeginMission(c)
    \/ MarkRunning(c)
    \/ CompleteMission(c)
    \/ FailMission(c)
    \/ TakeEnter(c)
    \/ TakeUndo(c)
    \/ ReleaseExit(c)
    \/ ReleaseUndo(c)
    \/ SwitchStop(c)
    \/ StandUpCall(c)
    \/ StandUpApply(c)
    \/ EstopStop(c)
    \/ EstopDamp(c)
    \/ SitDownCall(c)
    \/ ShutdownJoined(c)
    \/ Shutdown(c)
    \/ Disconnect(c)
    \/ CloseConnection(c)
    \/ \E v \in RouteRequests : Submit(c, "MANUAL", v) \/ Submit(c, "AUTO", v)

LEMMA NextCases ==
    ASSUME Next
    PROVE  (\E c \in Callers : CallStep(c)) \/ Background
BY DEF Next, OperatorCall, MissionCall, Continue, CallStep, RouteRequests
-----------------------------------------------------------------------------
(* Types                                                                    *)

LEMMA ZeroInSpeed == 0 \in Speed
BY ProfileAssumption DEF Speed

LEMMA TypeOKInit == Init => TypeOK
<1> SUFFICES ASSUME Init PROVE TypeOK
  OBVIOUS
<1> USE ZeroInSpeed DEF Init
<1>1. AdapterTypeOK
  BY DEF AdapterTypeOK, AdapterInit
<1>2. ModeTypeOK
  BY DEF ModeTypeOK, RobotMode, MissionStatus
<1>3. MotionTypeOK
  BY DEF MotionTypeOK
<1>4. ThreadTypeOK
  BY DEF ThreadTypeOK
<1>5. CallTypeOK
  BY DEF CallTypeOK, Op, NothingSaved, RobotMode, MissionStatus
<1> QED BY <1>1, <1>2, <1>3, <1>4, <1>5 DEF TypeOK

\* A call goes on at one of the points of Op.
LEMMA GotoTyped ==
    ASSUME CallTypeOK, NEW c \in Callers, NEW next \in Op, Goto(c, next)
    PROVE  CallTypeOK'
<1>1. NothingSaved \in [mode : RobotMode, status : MissionStatus]
  BY DEF NothingSaved, RobotMode, MissionStatus
<1> QED BY <1>1 DEF CallTypeOK, Goto

\* Each method of the adapters leaves the robot in a state of its type.
LEMMA AdapterCallTyped ==
    ASSUME AdapterTypeOK,
           \/ AdapterConnect \/ AdapterDisconnect \/ AdapterClose \/ StopRobot \/ DampRobot
           \/ SeatRobot \/ RaiseRobot \/ EnterManualMode \/ ExitManualMode
           \/ \E v \in Speed : SendVelocity(v)
    PROVE  AdapterTypeOK'
<1> USE ZeroInSpeed, AdapterAssumption DEF AdapterTypeOK
<1>1. CASE AdapterConnect \/ AdapterDisconnect \/ AdapterClose
  BY <1>1 DEF AdapterConnect, AdapterDisconnect, AdapterClose, ZeroVelocity
<1>2. CASE StopRobot \/ DampRobot \/ SeatRobot
  BY <1>2 DEF StopRobot, DampRobot, SeatRobot, ZeroVelocity
<1>3. CASE RaiseRobot \/ EnterManualMode \/ ExitManualMode
  BY <1>3 DEF RaiseRobot, EnterManualMode, ExitManualMode
<1>4. CASE \E v \in Speed : SendVelocity(v)
  BY <1>4 DEF SendVelocity
<1> QED BY <1>1, <1>2, <1>3, <1>4

LEMMA ResetMotionTyped ==
    ASSUME MotionTypeOK, NEW b \in BOOLEAN, ResetMotion(b), UNCHANGED settling
    PROVE  MotionTypeOK'
BY ZeroInSpeed DEF MotionTypeOK, ResetMotion

\* What a step leaves alone keeps its type.
LEMMA Kept ==
    /\ AdapterTypeOK /\ UNCHANGED adapterVars => AdapterTypeOK'
    /\ ModeTypeOK /\ UNCHANGED <<modeVars, stop_event>> => ModeTypeOK'
    /\ MotionTypeOK /\ UNCHANGED <<motionVars, settling>> => MotionTypeOK'
    /\ ThreadTypeOK /\ UNCHANGED <<teleopVars, watchdog_pc, loopVars>> => ThreadTypeOK'
    /\ ThreadTypeOK /\ TouchTeleop /\ UNCHANGED <<watchdog_pc, loopVars>> => ThreadTypeOK'
    /\ CallTypeOK /\ UNCHANGED callVars => CallTypeOK'
BY DEF AdapterTypeOK, adapterVars, ModeTypeOK, modeVars, MotionTypeOK, motionVars,
       ThreadTypeOK, TouchTeleop, teleopVars, loopVars, CallTypeOK, callVars

LEMMA TypeOKStep == TypeOK /\ [Next]_controlVars => TypeOK'
<1> SUFFICES ASSUME TypeOK, [Next]_controlVars
             PROVE  TypeOK'
  OBVIOUS
<1> USE Kept DEF TypeOK
<1>1. ASSUME NEW c \in Callers, CallStep(c)
      PROVE  TypeOK'
  <2>1. CASE Connect(c)
    BY <2>1, AdapterCallTyped
       DEF Connect, AdapterCallUnchanged
  <2>2. CASE TakeManual(c)
    <3>1. [mode |-> mode, status |-> mission_status] \in [mode : RobotMode, status : MissionStatus]
      BY DEF ModeTypeOK
    <3>2. op' \in [Callers -> Op]
      BY <2>2 DEF TakeManual, CallTypeOK, Op
    <3>3. saved' \in [Callers -> [mode : RobotMode, status : MissionStatus]]
      BY <2>2, <3>1 DEF TakeManual, CallTypeOK
    <3>4. ModeTypeOK'
      BY <2>2 DEF TakeManual, ModeSwitchUnchanged, ModeTypeOK, RobotMode, MissionStatus,
                  TerminalStatus
    <3> QED BY <2>2, <3>2, <3>3, <3>4 DEF TakeManual, ModeSwitchUnchanged, CallTypeOK
  <2>3. CASE ReleaseManual(c)
    BY <2>3, GotoTyped
       DEF ReleaseManual, ModeSwitchUnchanged, ModeTypeOK, RobotMode, MissionStatus, TerminalStatus, modeVars, Op
  <2>4. CASE ClearManualTarget(c)
    BY <2>4, ZeroInSpeed
       DEF ClearManualTarget, MotionTypeOK
  <2>5. CASE RejectLatched(c)
    BY <2>5, ZeroInSpeed
       DEF RejectLatched, MotionTypeOK
  <2>6. CASE StandUp(c)
    BY <2>6, GotoTyped
       DEF StandUp, AdapterCallUnchanged, Op
  <2>7. CASE SitDown(c)
    BY <2>7, GotoTyped, ResetMotionTyped
       DEF SitDown, SitDownLocked, ModeTypeOK, RobotMode, MissionStatus, TerminalStatus, modeVars, MissionActive, Op
  <2>8. CASE StopMotion(c)
    BY <2>8, ResetMotionTyped
       DEF StopMotion, MotionOnlyUnchanged
  <2>9. CASE DampingOn(c)
    BY <2>9, GotoTyped
       DEF DampingOn, AdapterCallUnchanged, Op
  <2>10. CASE PauseMission(c)
    BY <2>10, ResetMotionTyped
       DEF PauseMission, SetStatus, MotionOnlyUnchanged, ModeTypeOK, RobotMode, MissionStatus, TerminalStatus, modeVars
  <2>11. CASE ResumeMission(c)
    BY <2>11
       DEF ResumeMission, SetStatus, MotionOnlyUnchanged, ModeTypeOK, RobotMode, MissionStatus, TerminalStatus, modeVars
  <2>12. CASE AbortMission(c)
    BY <2>12, ResetMotionTyped
       DEF AbortMission, SetStatus, MotionOnlyUnchanged, ModeTypeOK, RobotMode, MissionStatus, TerminalStatus, modeVars
  <2>13. CASE LatchEstop(c)
    BY <2>13, GotoTyped, ResetMotionTyped
       DEF LatchEstop, ModeTypeOK, RobotMode, MissionStatus, TerminalStatus, modeVars, Op
  <2>14. CASE ResetEstop(c)
    BY <2>14, ResetMotionTyped
       DEF ResetEstop, MotionOnlyUnchanged, ModeTypeOK, RobotMode, MissionStatus, TerminalStatus, modeVars
  <2>15. CASE BeginMission(c)
    BY <2>15, ZeroInSpeed
       DEF BeginMission, SetStatus, ModeTypeOK, RobotMode, MissionStatus, TerminalStatus, modeVars, MotionTypeOK
  <2>16. CASE MarkRunning(c)
    BY <2>16
       DEF MarkRunning, SetStatus, MotionOnlyUnchanged, ModeTypeOK, RobotMode, MissionStatus, TerminalStatus, modeVars
  <2>17. CASE CompleteMission(c)
    BY <2>17, ResetMotionTyped
       DEF CompleteMission, SetStatus, MotionOnlyUnchanged, ModeTypeOK, RobotMode, MissionStatus, TerminalStatus, modeVars
  <2>18. CASE FailMission(c)
    BY <2>18, ResetMotionTyped
       DEF FailMission, SetStatus, MotionOnlyUnchanged, ModeTypeOK, RobotMode, MissionStatus, TerminalStatus, modeVars
  <2>19. CASE TakeEnter(c)
    BY <2>19, GotoTyped, AdapterCallTyped
       DEF TakeEnter, AdapterCallUnchanged, Op
  <2>20. CASE TakeUndo(c)
    <3>1. saved[c] \in [mode : RobotMode, status : MissionStatus]
      BY DEF CallTypeOK
    <3>2. saved[c].mode \in RobotMode /\ saved[c].status \in MissionStatus
      BY <3>1
    <3>3. ModeTypeOK'
      BY <2>20, <3>2 DEF TakeUndo, ModeSwitchUnchanged, ModeTypeOK
    <3>4. ThreadTypeOK'
      BY <2>20 DEF TakeUndo, ModeSwitchUnchanged, ThreadTypeOK, loopVars
    <3> QED BY <2>20, GotoTyped, <3>3, <3>4 DEF TakeUndo, ModeSwitchUnchanged, Op
  <2>21. CASE ReleaseExit(c)
    BY <2>21, GotoTyped, AdapterCallTyped
       DEF ReleaseExit, AdapterCallUnchanged, Op
  <2>22. CASE ReleaseUndo(c)
    BY <2>22, GotoTyped
       DEF ReleaseUndo, ModeSwitchUnchanged, ModeTypeOK, RobotMode, MissionStatus, TerminalStatus, modeVars, Op
  <2>23. CASE SwitchStop(c)
    BY <2>23, GotoTyped, ResetMotionTyped
       DEF SwitchStop, Op
  <2>24. CASE StandUpCall(c)
    BY <2>24, GotoTyped, AdapterCallTyped
       DEF StandUpCall, AdapterCallUnchanged, Op
  <2>25. CASE StandUpApply(c)
    BY <2>25, GotoTyped, ZeroInSpeed
       DEF StandUpApply, Op, MotionTypeOK
  <2>26. CASE EstopStop(c)
    BY <2>26, GotoTyped, AdapterCallTyped
       DEF EstopStop, AdapterCallUnchanged, Op
  <2>27. CASE EstopDamp(c)
    BY <2>27, GotoTyped, AdapterCallTyped
       DEF EstopDamp, AdapterCallUnchanged, Op
  <2>28. CASE SitDownCall(c)
    BY <2>28, GotoTyped, AdapterCallTyped
       DEF SitDownCall, AdapterCallUnchanged, Op
  <2>29. CASE ShutdownJoined(c)
    BY <2>29, GotoTyped, ResetMotionTyped
       DEF ShutdownJoined, SitDownLocked, ModeTypeOK, RobotMode, MissionStatus, TerminalStatus, modeVars, MissionActive, Op
  <2>30. CASE Shutdown(c)
    BY <2>30, GotoTyped
       DEF Shutdown, ModeTypeOK, RobotMode, MissionStatus, TerminalStatus, modeVars, Op
  <2>31. CASE Disconnect(c)
    BY <2>31, GotoTyped, AdapterCallTyped
       DEF Disconnect, AdapterCallUnchanged, Op
  <2>33. CASE CloseConnection(c)
    BY <2>33, GotoTyped, AdapterCallTyped
       DEF CloseConnection, AdapterCallUnchanged, Op
  <2>32. ASSUME NEW v \in RouteRequests, NEW source \in CommandSource, Submit(c, source, v)
        PROVE  TypeOK'
    <3>1. Clamp(v) \in Speed
      BY ClampInSpeed, CallersAssumption, ProfileAssumption DEF RouteRequests
    <3>2. MotionTypeOK'
      BY <2>32, <3>1 DEF Submit, MotionTypeOK
    <3> QED BY <2>32, <3>2 DEF Submit
  <2> QED BY <1>1, <2>1, <2>2, <2>3, <2>4, <2>5, <2>6, <2>7, <2>8, <2>9, <2>10, <2>11, <2>12, <2>13, <2>14, <2>15, <2>16, <2>17, <2>18, <2>19, <2>20, <2>21, <2>22, <2>23, <2>24, <2>25, <2>26, <2>27, <2>28, <2>29, <2>30, <2>31, <2>32, <2>33 DEF CallStep, CommandSource
<1>2. CASE LoopDecide
  <2> DEFINE ramped == IF Held THEN 0 ELSE StepTowards(current_velocity, ActiveTarget)
             effective == IF Held THEN 0 ELSE EffectiveAxis(ramped, ActiveTarget)
  <2>1. ActiveTarget \in Speed /\ current_velocity \in Speed
    BY ZeroInSpeed DEF ActiveTarget, MotionTypeOK
  <2>2. ramped \in Speed
    BY <2>1, StepTowardsInSpeed, ZeroInSpeed
  <2>3. effective \in Speed
    BY <2>1, <2>2, EffectiveAxisInSpeed, ZeroInSpeed
  <2>4. /\ current_velocity' = ramped
        /\ settling' = IF settling = "new" THEN "seen" ELSE settling
        /\ last_sent' \in {effective, 0, last_sent}
        /\ stop_sent' \in {TRUE, FALSE, stop_sent}
        /\ loop_action' \in {"none", "move", "stop"}
        /\ loop_command' \in {effective, loop_command}
    BY <1>2 DEF LoopDecide, loopVars
  <2> HIDE DEF ramped, effective
  <2>5. MotionTypeOK'
    BY <1>2, <2>2, <2>3, <2>4, ZeroInSpeed DEF LoopDecide, MotionTypeOK
  <2>6. ThreadTypeOK'
    BY <1>2, <2>3, <2>4 DEF LoopDecide, ThreadTypeOK, teleopVars
  <2> QED BY <1>2, <2>5, <2>6 DEF LoopDecide
<1>3. CASE LoopAct
  <2>1. AdapterTypeOK'
    BY <1>3, AdapterCallTyped DEF LoopAct, ThreadTypeOK
  <2>2. ThreadTypeOK'
    BY <1>3, ZeroInSpeed DEF LoopAct, ThreadTypeOK, teleopVars
  <2> QED BY <1>3, <2>1, <2>2 DEF LoopAct
<1>4. CASE Watchdog
  <2>1. ThreadTypeOK'
    BY <1>4 DEF Watchdog, WatchdogCheck, WatchdogRecheck, WatchdogStop, ThreadTypeOK,
                teleopVars, loopVars
  <2> QED BY <1>4, <2>1, ResetMotionTyped
          DEF Watchdog, WatchdogCheck, WatchdogRecheck, WatchdogStop
<1>5. CASE SettleElapses \/ TeleopExpires
  BY <1>5 DEF SettleElapses, TeleopExpires, TimeUnchanged, MotionTypeOK, motionVars,
              ThreadTypeOK, teleopVars, loopVars
<1>6. CASE UNCHANGED controlVars
  BY <1>6 DEF controlVars
<1> QED BY <1>1, <1>2, <1>3, <1>4, <1>5, <1>6, NextCases DEF Background, ControlLoop

\* Every variable of the model keeps its type: in particular no target and no
\* command leaves the configured limits, whatever is requested.
THEOREM TypeCorrect == Spec => []TypeOK
BY TypeOKInit, TypeOKStep, PTL DEF Spec
-----------------------------------------------------------------------------
(* The stop of an emergency                                                 *)

\* EstopStopOwed is not inductive: that a StopMove is owed is lost when the
\* settle time ends, unless it can only end after the control loop has sent
\* the stop.  StopInv keeps what makes the promise good: under the latch the
\* stop is unsent whenever the robot may be moving, and an unsent stop is due
\* by explicit_stop or by a settle time the loop has not seen yet, and the robot
\* moves on a command of this connection only while the StopMove can reach it.
StopInv ==
    /\ Hardware /\ ~connected => ~Driven
    /\ estop_latched /\ MayMove => loop_action = "stop" \/ ~stop_sent
    /\ estop_latched /\ ~stop_sent => explicit_stop \/ settling = "new"

LEMMA StopInvInit == Init => StopInv
BY DEF Init, AdapterInit, StopInv, MayMove, Driven

\* What a step that sends or decides nothing has to leave alone.
LEMMA StopInvKept ==
    StopInv /\ UNCHANGED <<estop_latched, motionVars, settling, loopVars, adapterVars>> => StopInv'
BY DEF StopInv, MayMove, Driven, motionVars, loopVars, adapterVars

\* A reset of the motion asks for an explicit stop that has not been sent.
LEMMA StopInvReset ==
    ASSUME StopInv, NEW b \in BOOLEAN, ResetMotion(b), UNCHANGED <<loopVars, adapterVars>>
    PROVE  StopInv'
BY DEF StopInv, MayMove, Driven, ResetMotion, loopVars, adapterVars

\* A method of the adapters that is called outside the control loop never
\* makes a robot move that stood still.
LEMMA StopInvAdapter ==
    ASSUME "stop" \notin Faults, StopInv,
           \/ AdapterConnect \/ AdapterDisconnect \/ AdapterClose \/ StopRobot \/ DampRobot
           \/ SeatRobot \/ RaiseRobot \/ EnterManualMode \/ ExitManualMode,
           UNCHANGED <<estop_latched, motionVars, settling, loopVars>>
    PROVE  StopInv'
<1> USE DEF StopInv, MayMove, Driven, motionVars, loopVars
<1>1. CASE AdapterConnect \/ AdapterDisconnect \/ AdapterClose
  BY <1>1 DEF AdapterConnect, AdapterDisconnect, AdapterClose, ZeroVelocity, Swallowed
<1>2. CASE StopRobot \/ DampRobot \/ SeatRobot
  BY <1>2 DEF StopRobot, DampRobot, SeatRobot, ZeroVelocity, Swallowed
<1>3. CASE RaiseRobot \/ EnterManualMode \/ ExitManualMode
  BY <1>3 DEF RaiseRobot, EnterManualMode, ExitManualMode
<1> QED BY <1>1, <1>2, <1>3

LEMMA StopInvStep ==
    ASSUME "stop" \notin Faults
    PROVE  TypeOK /\ StopInv /\ [Next]_controlVars => StopInv'
<1> SUFFICES ASSUME TypeOK, StopInv, [Next]_controlVars
             PROVE  StopInv'
  OBVIOUS
<1>1. ASSUME NEW c \in Callers, CallStep(c)
      PROVE  StopInv'
  <2>1. CASE Connect(c)
    BY <2>1, StopInvAdapter, StopInvKept DEF Connect, AdapterCallUnchanged, modeVars
  <2>2. CASE TakeManual(c)
    BY <2>2, StopInvKept DEF TakeManual, ModeSwitchUnchanged, modeVars
  <2>3. CASE ReleaseManual(c)
    BY <2>3, StopInvKept DEF ReleaseManual, ModeSwitchUnchanged, modeVars
  <2>4. CASE ClearManualTarget(c)
    BY <2>4 DEF ClearManualTarget, StopInv, MayMove, Driven, modeVars, loopVars, adapterVars
  <2>5. CASE RejectLatched(c)
    BY <2>5 DEF RejectLatched, StopInv, MayMove, Driven, modeVars, loopVars, adapterVars
  <2>6. CASE StandUp(c)
    BY <2>6, StopInvKept DEF StandUp, AdapterCallUnchanged, modeVars
  <2>7. CASE SitDown(c)
    BY <2>7, StopInvReset DEF SitDown, SitDownLocked
  <2>8. CASE StopMotion(c)
    BY <2>8, StopInvReset DEF StopMotion, MotionOnlyUnchanged
  <2>9. CASE DampingOn(c)
    BY <2>9, StopInvKept DEF DampingOn, AdapterCallUnchanged, modeVars
  <2>10. CASE PauseMission(c)
    BY <2>10, StopInvReset DEF PauseMission, SetStatus, MotionOnlyUnchanged
  <2>11. CASE ResumeMission(c)
    BY <2>11, StopInvKept DEF ResumeMission, SetStatus, MotionOnlyUnchanged, modeVars
  <2>12. CASE AbortMission(c)
    BY <2>12, StopInvReset DEF AbortMission, SetStatus, MotionOnlyUnchanged
  <2>13. CASE LatchEstop(c)
    BY <2>13, StopInvReset DEF LatchEstop
  <2>14. CASE ResetEstop(c)
    BY <2>14, StopInvReset DEF ResetEstop, MotionOnlyUnchanged
  <2>15. CASE BeginMission(c)
    BY <2>15 DEF BeginMission, CanStartMission, StopInv, MayMove, Driven, SetStatus, adapterVars
  <2>16. CASE MarkRunning(c)
    BY <2>16, StopInvKept DEF MarkRunning, SetStatus, MotionOnlyUnchanged, modeVars
  <2>17. CASE CompleteMission(c)
    BY <2>17, StopInvReset DEF CompleteMission, SetStatus, MotionOnlyUnchanged
  <2>18. CASE FailMission(c)
    BY <2>18, StopInvReset DEF FailMission, SetStatus, MotionOnlyUnchanged
  <2>19. CASE TakeEnter(c)
    BY <2>19, StopInvAdapter, StopInvKept DEF TakeEnter, AdapterCallUnchanged, modeVars
  <2>20. CASE TakeUndo(c)
    BY <2>20, StopInvKept DEF TakeUndo, ModeSwitchUnchanged, modeVars
  <2>21. CASE ReleaseExit(c)
    BY <2>21, StopInvAdapter, StopInvKept DEF ReleaseExit, AdapterCallUnchanged, modeVars
  <2>22. CASE ReleaseUndo(c)
    BY <2>22, StopInvKept DEF ReleaseUndo, ModeSwitchUnchanged, modeVars
  <2>23. CASE SwitchStop(c)
    BY <2>23, StopInvReset DEF SwitchStop
  <2>24. CASE StandUpCall(c)
    BY <2>24, StopInvAdapter, StopInvKept DEF StandUpCall, AdapterCallUnchanged, modeVars
  <2>25. CASE StandUpApply(c)
    BY <2>25 DEF StandUpApply, StopInv, MayMove, Driven, modeVars, loopVars, adapterVars
  <2>26. CASE EstopStop(c)
    BY <2>26, StopInvAdapter, StopInvKept DEF EstopStop, AdapterCallUnchanged, modeVars
  <2>27. CASE EstopDamp(c)
    BY <2>27, StopInvAdapter, StopInvKept DEF EstopDamp, AdapterCallUnchanged, modeVars
  <2>28. CASE SitDownCall(c)
    BY <2>28, StopInvAdapter, StopInvKept DEF SitDownCall, AdapterCallUnchanged, modeVars
  <2>29. CASE ShutdownJoined(c)
    BY <2>29, StopInvReset DEF ShutdownJoined, SitDownLocked
  <2>30. CASE Shutdown(c)
    BY <2>30, StopInvKept DEF Shutdown, modeVars
  <2>31. CASE Disconnect(c)
    BY <2>31, StopInvAdapter DEF Disconnect, AdapterCallUnchanged, modeVars
  <2>33. CASE CloseConnection(c)
    BY <2>33, StopInvAdapter DEF CloseConnection, AdapterCallUnchanged, modeVars
  <2>32. ASSUME NEW v \in RouteRequests, NEW source \in CommandSource, Submit(c, source, v)
        PROVE  StopInv'
    BY <2>32 DEF Submit, StopInv, MayMove, Driven, modeVars, loopVars, adapterVars
  <2> QED BY <1>1, <2>1, <2>2, <2>3, <2>4, <2>5, <2>6, <2>7, <2>8, <2>9, <2>10, <2>11, <2>12, <2>13, <2>14, <2>15, <2>16, <2>17, <2>18, <2>19, <2>20, <2>21, <2>22, <2>23, <2>24, <2>25, <2>26, <2>27, <2>28, <2>29, <2>30, <2>31, <2>32, <2>33 DEF CallStep, CommandSource
<1>2. CASE LoopDecide
  <2>1. CASE estop_latched
    <3>1. Held /\ ~HasMotion(0)
      BY <2>1 DEF Held, HasMotion
    <3>2. ~stop_sent => StopDue
      BY <2>1 DEF StopInv, StopDue
    <3> QED BY <1>2, <2>1, <3>1, <3>2
            DEF LoopDecide, StopInv, MayMove, Driven, modeVars, loopVars, adapterVars
  <2>2. CASE ~estop_latched
    BY <1>2, <2>2 DEF LoopDecide, StopInv, MayMove, Driven, modeVars, adapterVars
  <2> QED BY <2>1, <2>2
<1>3. CASE LoopAct
  BY <1>3 DEF LoopAct, SendVelocity, StopRobot, ZeroVelocity, Swallowed, StopInv, MayMove, Driven,
              modeVars, motionVars
<1>4. CASE Watchdog
  BY <1>4, StopInvKept, StopInvReset
     DEF Watchdog, WatchdogCheck, WatchdogRecheck, WatchdogStop, modeVars
<1>5. CASE SettleElapses \/ TeleopExpires
  BY <1>5 DEF SettleElapses, TeleopExpires, TimeUnchanged, StopInv, MayMove, Driven,
              modeVars, motionVars, loopVars, adapterVars
<1>6. CASE UNCHANGED controlVars
  BY <1>6, StopInvKept DEF controlVars, modeVars
<1> QED BY <1>1, <1>2, <1>3, <1>4, <1>5, <1>6, NextCases DEF Background, ControlLoop

\* As long as the robot's StopMove itself does not fail, the stop of an
\* emergency is never lost, whatever the threads do, a disconnect() in the middle
\* included, and whichever other calls of the adapter fail.
THEOREM EstopStopOwedCorrect ==
    ASSUME "stop" \notin Faults
    PROVE  Spec => []EstopStopOwed
<1>1. TypeOK /\ StopInv => EstopStopOwed
  BY DEF StopInv, EstopStopOwed, StopOwed
<1> QED BY TypeOKInit, TypeOKStep, StopInvInit, StopInvStep, <1>1, PTL DEF Spec
-----------------------------------------------------------------------------
(* The stop of the watchdog                                                 *)

\* What makes a stop that was asked for good: it is unsent whenever the robot
\* may be moving, an unsent stop is due by explicit_stop or by a settle time
\* the loop has not seen yet, and no ramp is left to send a motion from.
StopStays ==
    /\ MayMove => loop_action = "stop" \/ ~stop_sent
    /\ ~stop_sent => explicit_stop \/ settling = "new"
    /\ current_velocity = 0

LEMMA StaysKept ==
    ASSUME StopStays, UNCHANGED <<motionVars, settling, loopVars, adapterVars>>
    PROVE  StopStays'
BY DEF StopStays, MayMove, Driven, motionVars, loopVars, adapterVars

LEMMA StaysReset == ASSUME NEW b \in BOOLEAN, ResetMotion(b) PROVE StopStays'
BY DEF StopStays, ResetMotion

LEMMA StaysAdapter ==
    ASSUME "stop" \notin Faults, StopInv, StopStays,
           \/ AdapterConnect \/ AdapterDisconnect \/ AdapterClose \/ StopRobot \/ DampRobot
           \/ SeatRobot \/ RaiseRobot \/ EnterManualMode \/ ExitManualMode,
           UNCHANGED <<motionVars, settling, loopVars>>
    PROVE  StopStays'
<1> USE DEF StopStays, StopInv, MayMove, Driven, motionVars, loopVars
<1>1. CASE AdapterConnect \/ AdapterDisconnect \/ AdapterClose
  BY <1>1 DEF AdapterConnect, AdapterDisconnect, AdapterClose, ZeroVelocity, Swallowed
<1>2. CASE StopRobot \/ DampRobot \/ SeatRobot
  BY <1>2 DEF StopRobot, DampRobot, SeatRobot, ZeroVelocity, Swallowed
<1>3. CASE RaiseRobot \/ EnterManualMode \/ ExitManualMode
  BY <1>3 DEF RaiseRobot, EnterManualMode, ExitManualMode
<1> QED BY <1>1, <1>2, <1>3

\* The calls that reset the motion, or set the settle time of a robot that has
\* just stood up.
ResetCall(c) ==
    \/ PauseMission(c) \/ AbortMission(c) \/ CompleteMission(c) \/ FailMission(c)
    \/ StopMotion(c) \/ ResetEstop(c) \/ LatchEstop(c) \/ SitDown(c) \/ ShutdownJoined(c)
    \/ SwitchStop(c) \/ StandUpApply(c)

\* Each of them leaves a stop that stays, whatever was before.
LEMMA ResetCallStays == ASSUME NEW c \in Callers, ResetCall(c) PROVE StopStays'
<1>1. CASE StandUpApply(c)
  BY <1>1 DEF StandUpApply, StopStays
<1>2. CASE \E b \in BOOLEAN : ResetMotion(b)
  BY <1>2, StaysReset
<1> QED BY <1>1, <1>2 DEF ResetCall, PauseMission, AbortMission, CompleteMission, FailMission,
           StopMotion, ResetEstop, LatchEstop, SitDown, ShutdownJoined, SitDownLocked, SwitchStop

\* The calls that neither ask for motion nor withdraw a stop.
QuietCall(c) ==
    \/ Connect(c) \/ Disconnect(c) \/ CloseConnection(c)
    \/ TakeManual(c) \/ TakeEnter(c) \/ TakeUndo(c)
    \/ ReleaseManual(c) \/ ReleaseExit(c) \/ ReleaseUndo(c) \/ ClearManualTarget(c)
    \/ RejectLatched(c) \/ StandUp(c) \/ StandUpCall(c) \/ DampingOn(c) \/ EstopStop(c)
    \/ EstopDamp(c) \/ SitDownCall(c) \/ ResumeMission(c) \/ MarkRunning(c) \/ Shutdown(c)

LEMMA CallCases ==
    ASSUME NEW c \in Callers, CallStep(c)
    PROVE  \/ ResetCall(c) \/ QuietCall(c) \/ BeginMission(c)
           \/ \E v \in RouteRequests, source \in CommandSource : Submit(c, source, v)
BY DEF CallStep, ResetCall, QuietCall, CommandSource

LEMMA QuietCallStays ==
    ASSUME "stop" \notin Faults, StopInv, StopStays, NEW c \in Callers, QuietCall(c)
    PROVE  StopStays'
<1>1. CASE Connect(c) \/ Disconnect(c) \/ CloseConnection(c)
  BY <1>1, StaysAdapter DEF Connect, Disconnect, CloseConnection, AdapterCallUnchanged
<1>2. CASE TakeManual(c) \/ TakeUndo(c) \/ ReleaseManual(c) \/ ReleaseUndo(c)
  BY <1>2, StaysKept DEF TakeManual, TakeUndo, ReleaseManual, ReleaseUndo, ModeSwitchUnchanged
<1>3. CASE TakeEnter(c)
  BY <1>3, StaysAdapter DEF TakeEnter, AdapterCallUnchanged
<1>4. CASE ReleaseExit(c)
  BY <1>4, StaysAdapter, StaysKept DEF ReleaseExit, AdapterCallUnchanged
<1>5. CASE ClearManualTarget(c) \/ RejectLatched(c)
  BY <1>5 DEF ClearManualTarget, RejectLatched, StopStays, MayMove, Driven, loopVars, adapterVars
<1>6. CASE StandUp(c) \/ DampingOn(c)
  BY <1>6, StaysKept DEF StandUp, DampingOn, AdapterCallUnchanged
<1>7. CASE StandUpCall(c)
  BY <1>7, StaysAdapter, StaysKept DEF StandUpCall, AdapterCallUnchanged
<1>8. CASE EstopStop(c) \/ EstopDamp(c) \/ SitDownCall(c)
  BY <1>8, StaysAdapter DEF EstopStop, EstopDamp, SitDownCall, AdapterCallUnchanged
<1>9. CASE ResumeMission(c) \/ MarkRunning(c)
  BY <1>9, StaysKept DEF ResumeMission, MarkRunning, MotionOnlyUnchanged
<1>10. CASE Shutdown(c)
  BY <1>10, StaysKept DEF Shutdown
<1> QED BY <1>1, <1>2, <1>3, <1>4, <1>5, <1>6, <1>7, <1>8, <1>9, <1>10 DEF QuietCall

\* A ramp that stands at a zero target has nothing to send.
LEMMA NoRamp == StepTowards(0, 0) = 0 /\ EffectiveAxis(0, 0) = 0
BY DEF StepTowards, EffectiveAxis

\* While the active target is zero, the control loop, the watchdog and the
\* settle time carry a stop out and start nothing.
LEMMA BackgroundStays ==
    ASSUME "stop" \notin Faults, TypeOK, StopInv, StopStays, ActiveTarget = 0, Background
    PROVE  StopStays'
<1>1. CASE LoopDecide
  <2>1. /\ (IF Held THEN 0 ELSE StepTowards(current_velocity, ActiveTarget)) = 0
        /\ (IF Held THEN 0 ELSE EffectiveAxis(0, ActiveTarget)) = 0
    BY NoRamp DEF StopStays
  <2>2. ~stop_sent => StopDue
    BY DEF StopStays, StopDue
  <2>3. /\ current_velocity' = 0
        /\ \/ StopDue /\ loop_action' = "stop" /\ stop_sent' = TRUE
           \/ ~StopDue /\ UNCHANGED <<loop_action, stop_sent>>
    BY <1>1, <2>1 DEF LoopDecide, HasMotion, loopVars
  <2>4. UNCHANGED <<explicit_stop, robot_velocity, left_moving>> /\ stop_sent \in BOOLEAN
    BY <1>1 DEF LoopDecide, adapterVars, TypeOK, MotionTypeOK
  <2> QED BY <2>2, <2>3, <2>4 DEF StopStays, MayMove, Driven
<1>2. CASE LoopAct
  BY <1>2 DEF LoopAct, SendVelocity, StopRobot, ZeroVelocity, Swallowed, StopInv, StopStays,
              MayMove, Driven, motionVars
<1>3. CASE Watchdog
  BY <1>3, StaysKept, StaysReset DEF Watchdog, WatchdogCheck, WatchdogRecheck, WatchdogStop
<1>4. CASE SettleElapses \/ TeleopExpires
  BY <1>4 DEF SettleElapses, TeleopExpires, TimeUnchanged, StopStays, MayMove, Driven,
              motionVars, loopVars, adapterVars
<1> QED BY <1>1, <1>2, <1>3, <1>4 DEF Background, ControlLoop

\* Once the watchdog has done its work in MANUAL the stop stays, because the
\* target is gone with it and every command, takeover and stand-up arms the
\* watchdog again; no rollback brings a MANUAL back whose watchdog has fired.
SilentInv ==
    /\ \A c \in Callers : op[c] # "release_undo"
    /\ WatchdogDone => StopStays /\ manual_target = 0

\* No call but a release that fails comes to its rollback.
LEMMA CallNoReleaseUndo ==
    ASSUME "exit" \notin Faults, TypeOK, SilentInv, NEW c \in Callers, CallStep(c)
    PROVE  \A d \in Callers : op'[d] # "release_undo"
<1> USE DEF callVars, Goto
<1>0. op \in [Callers -> Op] /\ \A d \in Callers : op[d] # "release_undo"
  BY DEF TypeOK, CallTypeOK, SilentInv
<1>1. CASE UNCHANGED callVars
  BY <1>0, <1>1
<1>2. ASSUME NEW next \in Op \ {"release_undo"}, Goto(c, next)
      PROVE  \A d \in Callers : op'[d] # "release_undo"
  BY <1>0, <1>2
<1>3. CASE TakeManual(c)
  BY <1>0, <1>3 DEF TakeManual
<1>4. CASE \/ Connect(c) \/ ClearManualTarget(c) \/ RejectLatched(c)
           \/ ResetEstop(c) \/ BeginMission(c)
  BY <1>1, <1>4 DEF Connect, ClearManualTarget, RejectLatched, ResetEstop,
                    BeginMission, MotionOnlyUnchanged
<1>5. CASE \/ StopMotion(c) \/ PauseMission(c) \/ ResumeMission(c) \/ AbortMission(c)
           \/ MarkRunning(c) \/ CompleteMission(c) \/ FailMission(c)
           \/ \E v \in RouteRequests, source \in CommandSource : Submit(c, source, v)
  BY <1>1, <1>5 DEF StopMotion, PauseMission, ResumeMission, AbortMission, MarkRunning,
                    CompleteMission, FailMission, Submit, MotionOnlyUnchanged
<1>6. CASE ReleaseManual(c) \/ ReleaseExit(c) \/ ReleaseUndo(c)
  BY <1>2, <1>6 DEF ReleaseManual, ReleaseExit, ReleaseUndo, Op
<1>7. CASE TakeEnter(c) \/ TakeUndo(c) \/ SwitchStop(c)
  BY <1>2, <1>7 DEF TakeEnter, TakeUndo, SwitchStop, Op
<1>8. CASE StandUp(c) \/ StandUpCall(c) \/ StandUpApply(c) \/ SitDown(c) \/ SitDownCall(c)
  BY <1>2, <1>8 DEF StandUp, StandUpCall, StandUpApply, SitDown, SitDownLocked, SitDownCall, Op
<1>9. CASE DampingOn(c) \/ LatchEstop(c) \/ EstopStop(c) \/ EstopDamp(c)
  BY <1>2, <1>9 DEF DampingOn, LatchEstop, EstopStop, EstopDamp, Op
<1>10. CASE Shutdown(c) \/ ShutdownJoined(c)
  BY <1>2, <1>10 DEF Shutdown, ShutdownJoined, SitDownLocked, Op
<1>11. CASE Disconnect(c) \/ CloseConnection(c)
  BY <1>2, <1>11 DEF Disconnect, CloseConnection, Op
<1> QED BY <1>3, <1>4, <1>5, <1>6, <1>7, <1>8, <1>9, <1>10, <1>11, CallCases
        DEF ResetCall, QuietCall

\* What a call does to a watchdog that is done: it keeps it and gives the robot
\* no target, or resets the motion with the target.
SilentKept == manual_target' = manual_target /\ (WatchdogDone' => WatchdogDone)
SilentReset == WatchdogDone' => manual_target' = 0

LEMMA QuietCallSilent ==
    ASSUME SilentInv, NEW c \in Callers, QuietCall(c)
    PROVE  SilentKept \/ ~WatchdogDone'
<1> USE DEF SilentKept, WatchdogDone, modeVars, motionVars, teleopVars, TouchTeleop
<1>1. CASE \/ Connect(c) \/ Disconnect(c) \/ CloseConnection(c) \/ TakeEnter(c)
           \/ ReleaseExit(c) \/ StandUp(c) \/ StandUpCall(c) \/ DampingOn(c) \/ EstopStop(c)
           \/ EstopDamp(c) \/ SitDownCall(c)
  BY <1>1 DEF Connect, Disconnect, CloseConnection, TakeEnter, ReleaseExit, StandUp, StandUpCall,
              DampingOn, EstopStop, EstopDamp, SitDownCall, AdapterCallUnchanged
<1>2. CASE TakeManual(c) \/ TakeUndo(c) \/ ClearManualTarget(c)
  BY <1>2 DEF TakeManual, TakeUndo, ClearManualTarget
<1>3. CASE ReleaseManual(c) \/ ReleaseUndo(c)
  BY <1>3 DEF ReleaseManual, ReleaseUndo, SilentInv
<1>4. CASE RejectLatched(c) \/ ResumeMission(c) \/ MarkRunning(c) \/ Shutdown(c)
  BY <1>4 DEF RejectLatched, ResumeMission, MarkRunning, Shutdown, SetStatus, MotionOnlyUnchanged
<1> QED BY <1>1, <1>2, <1>3, <1>4 DEF QuietCall

LEMMA ResetCallSilent ==
    ASSUME NEW c \in Callers, ResetCall(c)
    PROVE  SilentKept \/ SilentReset
<1> USE DEF SilentKept, SilentReset, WatchdogDone, teleopVars, ResetMotion
<1>1. CASE PauseMission(c) \/ AbortMission(c) \/ CompleteMission(c) \/ FailMission(c)
  BY <1>1 DEF PauseMission, AbortMission, CompleteMission, FailMission, SetStatus,
              MotionOnlyUnchanged
<1>2. CASE \/ StopMotion(c) \/ ResetEstop(c) \/ LatchEstop(c) \/ SitDown(c) \/ ShutdownJoined(c)
           \/ SwitchStop(c)
  BY <1>2 DEF StopMotion, ResetEstop, LatchEstop, SitDown, ShutdownJoined, SitDownLocked, SwitchStop
<1>3. CASE StandUpApply(c)
  BY <1>3 DEF StandUpApply, TouchTeleop, modeVars
<1> QED BY <1>1, <1>2, <1>3 DEF ResetCall

LEMMA SilentInvStep ==
    ASSUME {"exit", "stop"} \cap Faults = {}, TypeOK, StopInv, SilentInv, [Next]_controlVars
    PROVE  SilentInv'
<1> USE DEF SilentInv
<1>0. "stop" \notin Faults /\ "exit" \notin Faults
  OBVIOUS
<1>1. ASSUME NEW c \in Callers, CallStep(c) PROVE SilentInv'
  <2>0. \A d \in Callers : op'[d] # "release_undo"
    BY <1>0, <1>1, CallNoReleaseUndo
  <2>1. CASE ResetCall(c)
    BY <2>0, <2>1, ResetCallStays, ResetCallSilent DEF SilentKept, SilentReset
  <2>2. CASE QuietCall(c)
    BY <1>0, <2>0, <2>2, QuietCallStays, QuietCallSilent DEF SilentKept
  <2>3. CASE BeginMission(c)
    BY <2>0, <2>3 DEF BeginMission, CanStartMission, SetStatus, WatchdogDone
  <2>4. ASSUME NEW v \in RouteRequests, NEW source \in CommandSource, Submit(c, source, v)
        PROVE  SilentInv'
    BY <2>0, <2>4 DEF Submit, CanAccept, TouchTeleop, WatchdogDone, modeVars, CommandSource
  <2> QED BY <1>1, <2>1, <2>2, <2>3, <2>4, CallCases
<1>2. CASE Background
  <2>1. UNCHANGED <<mode, op>>
    BY <1>2 DEF Background, ControlLoop, LoopDecide, LoopAct, Watchdog, WatchdogCheck,
                WatchdogRecheck, WatchdogStop, SettleElapses, TeleopExpires, TimeUnchanged,
                modeVars, callVars
  <2>2. CASE WatchdogDone
    <3>1. ActiveTarget = 0 /\ StopStays
      BY <2>2 DEF ActiveTarget, WatchdogDone
    <3>2. manual_target' = 0
      BY <1>2, <2>2 DEF Background, ControlLoop, LoopDecide, LoopAct, Watchdog, WatchdogCheck,
                WatchdogRecheck, WatchdogStop, SettleElapses, TeleopExpires, TimeUnchanged,
                motionVars, ResetMotion
    <3> QED BY <1>0, <1>2, <2>1, <3>1, <3>2, BackgroundStays
  <2>3. CASE ~WatchdogDone /\ WatchdogDone'
    <3>1. WatchdogStop
      BY <1>2, <2>3 DEF Background, ControlLoop, LoopDecide, LoopAct, Watchdog, WatchdogCheck,
                WatchdogRecheck, SettleElapses, TeleopExpires, TimeUnchanged, modeVars, teleopVars,
                WatchdogDone
    <3>2. ResetMotion(TRUE)
      BY <3>1 DEF WatchdogStop
    <3> QED BY <2>1, <3>2, StaysReset DEF ResetMotion
  <2> QED BY <2>1, <2>2, <2>3
<1>3. CASE UNCHANGED controlVars
  <2>1. UNCHANGED <<op, mode, watchdog_fired, watchdog_pc, manual_target>>
    BY <1>3 DEF controlVars, modeVars, teleopVars, callVars, motionVars
  <2>2. StopStays => StopStays'
    BY <1>3, StaysKept DEF controlVars
  <2> QED BY <2>1, <2>2 DEF WatchdogDone
<1> QED BY <1>1, <1>2, <1>3, NextCases

\* While leaving manual mode never fails in the adapter and its stop does not
\* either, the one stop that the watchdog gives an operator who went silent is
\* not lost, whatever the loop had decided and other threads call meanwhile.
THEOREM SilentOperatorStopOwedCorrect ==
    ASSUME {"exit", "stop"} \cap Faults = {}
    PROVE  Spec => []SilentOperatorStopOwed
<1>1. Init => SilentInv
  BY DEF Init, SilentInv, WatchdogDone
<1>2. TypeOK /\ StopInv /\ SilentInv /\ [Next]_controlVars => SilentInv'
  BY SilentInvStep
<1>3. SilentInv => SilentOperatorStopOwed
  BY DEF SilentInv, SilentOperatorStopOwed, StopStays, StopOwed
<1>4. TypeOK /\ StopInv /\ [Next]_controlVars => StopInv'
  BY StopInvStep
<1> QED BY TypeOKInit, TypeOKStep, StopInvInit, <1>1, <1>2, <1>3, <1>4, PTL DEF Spec
-----------------------------------------------------------------------------
(* The refinement of MotionGate                                             *)

Lost == ~MayMove /\ left_moving

\* What every step but a latch, a reset and a decision of the control loop
\* does: it leaves the latch alone, starts nothing and loses no robot that
\* stands.
NoStart == UNCHANGED estop_latched /\ (~MayMove => ~MayMove' /\ (Lost' => Lost))

LEMMA NoStartKept ==
    UNCHANGED estop_latched /\ UNCHANGED loopVars /\ UNCHANGED adapterVars => NoStart
BY DEF NoStart, Lost, MayMove, Driven, loopVars, adapterVars

LEMMA NoStartAdapter ==
    ASSUME \/ AdapterConnect \/ AdapterDisconnect \/ AdapterClose \/ StopRobot \/ DampRobot
           \/ SeatRobot \/ RaiseRobot \/ EnterManualMode \/ ExitManualMode,
           UNCHANGED estop_latched, UNCHANGED loopVars
    PROVE  NoStart
<1> USE DEF NoStart, Lost, MayMove, Driven, loopVars
<1>1. CASE AdapterConnect \/ AdapterDisconnect
  BY <1>1 DEF AdapterConnect, AdapterDisconnect, ZeroVelocity
<1>2. CASE AdapterClose
  BY <1>2 DEF AdapterClose
<1>3. CASE StopRobot \/ DampRobot \/ SeatRobot
  BY <1>3 DEF StopRobot, DampRobot, SeatRobot, ZeroVelocity
<1>4. CASE RaiseRobot \/ EnterManualMode \/ ExitManualMode
  BY <1>4 DEF RaiseRobot, EnterManualMode, ExitManualMode
<1> QED BY <1>1, <1>2, <1>3, <1>4

LEMMA StepStartsNothing ==
    ASSUME TypeOK, [Next]_controlVars
    PROVE  NoStart \/ LoopDecide \/ \E c \in Callers : LatchEstop(c) \/ ResetEstop(c)
<1>1. ASSUME NEW c \in Callers, CallStep(c)
      PROVE  NoStart \/ LatchEstop(c) \/ ResetEstop(c)
  <2>1. CASE Connect(c)
    BY <2>1, NoStartAdapter, NoStartKept DEF Connect, AdapterCallUnchanged, modeVars
  <2>2. CASE TakeManual(c)
    BY <2>2, NoStartKept DEF TakeManual, ModeSwitchUnchanged, modeVars
  <2>3. CASE ReleaseManual(c)
    BY <2>3, NoStartKept DEF ReleaseManual, ModeSwitchUnchanged, modeVars
  <2>4. CASE ClearManualTarget(c)
    BY <2>4, NoStartKept DEF ClearManualTarget, modeVars
  <2>5. CASE RejectLatched(c)
    BY <2>5, NoStartKept DEF RejectLatched, modeVars
  <2>6. CASE StandUp(c)
    BY <2>6, NoStartKept DEF StandUp, AdapterCallUnchanged, modeVars
  <2>7. CASE SitDown(c)
    BY <2>7, NoStartKept DEF SitDown, SitDownLocked, modeVars
  <2>8. CASE StopMotion(c)
    BY <2>8, NoStartKept DEF StopMotion, MotionOnlyUnchanged, modeVars
  <2>9. CASE DampingOn(c)
    BY <2>9, NoStartKept DEF DampingOn, AdapterCallUnchanged, modeVars
  <2>10. CASE PauseMission(c)
    BY <2>10, NoStartKept DEF PauseMission, SetStatus, MotionOnlyUnchanged, modeVars
  <2>11. CASE ResumeMission(c)
    BY <2>11, NoStartKept DEF ResumeMission, SetStatus, MotionOnlyUnchanged, modeVars
  <2>12. CASE AbortMission(c)
    BY <2>12, NoStartKept DEF AbortMission, SetStatus, MotionOnlyUnchanged, modeVars
  <2>13. CASE BeginMission(c)
    BY <2>13, NoStartKept DEF BeginMission, SetStatus, modeVars
  <2>14. CASE MarkRunning(c)
    BY <2>14, NoStartKept DEF MarkRunning, SetStatus, MotionOnlyUnchanged, modeVars
  <2>15. CASE CompleteMission(c)
    BY <2>15, NoStartKept DEF CompleteMission, SetStatus, MotionOnlyUnchanged, modeVars
  <2>16. CASE FailMission(c)
    BY <2>16, NoStartKept DEF FailMission, SetStatus, MotionOnlyUnchanged, modeVars
  <2>17. CASE TakeEnter(c)
    BY <2>17, NoStartAdapter, NoStartKept DEF TakeEnter, AdapterCallUnchanged, modeVars
  <2>18. CASE TakeUndo(c)
    BY <2>18, NoStartKept DEF TakeUndo, ModeSwitchUnchanged, modeVars
  <2>19. CASE ReleaseExit(c)
    BY <2>19, NoStartAdapter, NoStartKept DEF ReleaseExit, AdapterCallUnchanged, modeVars
  <2>20. CASE ReleaseUndo(c)
    BY <2>20, NoStartKept DEF ReleaseUndo, ModeSwitchUnchanged, modeVars
  <2>21. CASE SwitchStop(c)
    BY <2>21, NoStartKept DEF SwitchStop, modeVars
  <2>22. CASE StandUpCall(c)
    BY <2>22, NoStartAdapter, NoStartKept DEF StandUpCall, AdapterCallUnchanged, modeVars
  <2>23. CASE StandUpApply(c)
    BY <2>23, NoStartKept DEF StandUpApply, modeVars
  <2>24. CASE EstopStop(c)
    BY <2>24, NoStartAdapter, NoStartKept DEF EstopStop, AdapterCallUnchanged, modeVars
  <2>25. CASE EstopDamp(c)
    BY <2>25, NoStartAdapter, NoStartKept DEF EstopDamp, AdapterCallUnchanged, modeVars
  <2>26. CASE SitDownCall(c)
    BY <2>26, NoStartAdapter, NoStartKept DEF SitDownCall, AdapterCallUnchanged, modeVars
  <2>27. CASE ShutdownJoined(c)
    BY <2>27, NoStartKept DEF ShutdownJoined, SitDownLocked, modeVars
  <2>28. CASE Shutdown(c)
    BY <2>28, NoStartKept DEF Shutdown, modeVars
  <2>29. CASE Disconnect(c)
    BY <2>29, NoStartAdapter DEF Disconnect, AdapterCallUnchanged, modeVars
  <2>31. CASE CloseConnection(c)
    BY <2>31, NoStartAdapter DEF CloseConnection, AdapterCallUnchanged, modeVars
  <2>30. ASSUME NEW v \in RouteRequests, NEW source \in CommandSource, Submit(c, source, v)
        PROVE  NoStart
    BY <2>30, NoStartKept DEF Submit, modeVars
  <2> QED BY <1>1, <2>1, <2>2, <2>3, <2>4, <2>5, <2>6, <2>7, <2>8, <2>9, <2>10, <2>11, <2>12, <2>13, <2>14, <2>15, <2>16, <2>17, <2>18, <2>19, <2>20, <2>21, <2>22, <2>23, <2>24, <2>25, <2>26, <2>27, <2>28, <2>29, <2>30, <2>31 DEF CallStep, CommandSource
<1>2. CASE LoopAct
  BY <1>2 DEF LoopAct, SendVelocity, StopRobot, ZeroVelocity, NoStart, Lost, MayMove, Driven,
              modeVars
<1>3. CASE Watchdog
  BY <1>3, NoStartKept DEF Watchdog, WatchdogCheck, WatchdogRecheck, WatchdogStop, modeVars
<1>4. CASE SettleElapses \/ TeleopExpires
  BY <1>4, NoStartKept DEF SettleElapses, TeleopExpires, TimeUnchanged, modeVars
<1>5. CASE UNCHANGED controlVars
  BY <1>5, NoStartKept DEF controlVars, modeVars
<1> QED BY <1>1, <1>2, <1>3, <1>4, <1>5, NextCases DEF Background, ControlLoop

LEMMA GateMotionCases ==
    /\ GateMotion = "lost" <=> Lost
    /\ GateMotion = "still" <=> ~MayMove /\ ~Lost
    /\ GateMotion = "moving" <=> MayMove /\ ~StopOwed
    /\ GateMotion \in {"still", "moving", "stopping", "lost"}
BY DEF GateMotion, Lost

\* Every step is a step of the gate or leaves it alone.
LEMMA GateStep ==
    ASSUME "stop" \notin Faults, TypeOK, StopInv, StopInv', [Next]_controlVars
    PROVE  [Gate!GateNext]_(Gate!gateVars)
<1> USE DEF Gate!GateNext, Gate!gateVars
<1>1. estop_latched /\ MayMove => StopOwed
  BY DEF StopInv, StopOwed
<1>2. (estop_latched /\ MayMove => StopOwed)'
  BY DEF StopInv, StopOwed
<1>3. /\ GateMotion' = "lost" <=> Lost'
      /\ GateMotion' = "still" <=> ~MayMove' /\ ~Lost'
      /\ GateMotion' = "moving" <=> MayMove' /\ ~StopOwed'
      /\ GateMotion' \in {"still", "moving", "stopping", "lost"}
  BY DEF GateMotion, Lost
<1>4. CASE NoStart
  BY <1>1, <1>2, <1>3, <1>4, GateMotionCases
     DEF NoStart, Lost, Gate!Start, Gate!Brake, Gate!Lose, Gate!Halt
<1>5. CASE LoopDecide
  <2>1. /\ UNCHANGED <<estop_latched, explicit_stop, robot_velocity, left_moving>>
        /\ Lost' => left_moving
    BY <1>5 DEF LoopDecide, modeVars, adapterVars, Lost
  <2>2. ~MayMove /\ MayMove' => ~StopOwed'
    <3>1. CASE Held
      <4>1. ~HasMotion(0)
        BY DEF HasMotion
      <4>2. loop_action' # "move"
        BY <1>5, <3>1, <4>1 DEF LoopDecide, loopVars
      <4> QED BY <2>1, <4>2 DEF MayMove, Driven
    <3>2. CASE ~Held
      <4>1. ~explicit_stop' /\ settling' = "no"
        BY <1>5, <2>1, <3>2 DEF LoopDecide, Held
      <4> QED BY <1>5, <2>1, <4>1 DEF LoopDecide, MayMove, Driven, StopOwed, loopVars
    <3> QED BY <3>1, <3>2
  <2> QED BY <1>1, <1>2, <1>3, <2>1, <2>2, GateMotionCases
          DEF Lost, Gate!Start, Gate!Brake, Gate!Lose, Gate!Halt
<1>6. ASSUME NEW c \in Callers, LatchEstop(c)
      PROVE  Gate!Latch
  <2>1. /\ ~estop_latched /\ estop_latched' = TRUE /\ StopOwed'
        /\ (MayMove' <=> MayMove) /\ (Lost' <=> Lost)
    BY <1>6 DEF LatchEstop, ResetMotion, StopOwed, MayMove, Driven, Lost, loopVars, adapterVars
  <2> QED BY <1>3, <2>1, GateMotionCases DEF Lost, Gate!Latch
<1>7. ASSUME NEW c \in Callers, ResetEstop(c)
      PROVE  Gate!Unlatch
  <2>1. /\ estop_latched /\ estop_latched' = FALSE /\ StopOwed'
        /\ (MayMove' <=> MayMove) /\ (Lost' <=> Lost)
    BY <1>7 DEF ResetEstop, MotionOnlyUnchanged, ResetMotion, StopOwed, MayMove, Driven, Lost,
                loopVars, adapterVars
  <2> QED BY <1>1, <1>3, <2>1, GateMotionCases DEF Lost, Gate!Unlatch
<1> QED BY <1>4, <1>5, <1>6, <1>7, StepStartsNothing

\* ControlCore implements the emergency-stop gate.
THEOREM ImplementsGateCorrect ==
    ASSUME "stop" \notin Faults
    PROVE  Spec => ImplementsGate
<1>1. Init => Gate!GateInit
  BY DEF Init, AdapterInit, Gate!GateInit, GateMotion, MayMove, Driven
<1>2. TypeOK /\ StopInv /\ StopInv' /\ [Next]_controlVars => [Gate!GateNext]_(Gate!gateVars)
  BY GateStep
<1> QED BY TypeOKInit, TypeOKStep, StopInvInit, StopInvStep, <1>1, <1>2, PTL
        DEF Spec, ImplementsGate, Gate!GateSpec
-----------------------------------------------------------------------------
(* The priority of ESTOP over the mode and the mission                      *)

\* Neither rollback of a mode switch is ever due, and the latch, the mode and
\* the mission status agree.
PriorityInv ==
    /\ \A c \in Callers : op[c] \notin {"take_undo", "release_undo"}
    /\ EstopHoldsMode
    /\ EstopEndsMission

LEMMA PriorityInvInit == Init => PriorityInv
BY DEF Init, PriorityInv, EstopHoldsMode, EstopEndsMission

LEMMA PriorityInvStep ==
    ASSUME {"enter", "exit"} \cap Faults = {}
    PROVE  TypeOK /\ PriorityInv /\ [Next]_controlVars => PriorityInv'
<1> SUFFICES ASSUME TypeOK, PriorityInv, [Next]_controlVars
             PROVE  PriorityInv'
  OBVIOUS
<1> USE DEF PriorityInv
<1>1. ASSUME NEW c \in Callers, CallStep(c)
      PROVE  PriorityInv'
  <2> USE DEF EstopHoldsMode, EstopEndsMission
  <2>0. op \in [Callers -> Op]
    BY DEF TypeOK, CallTypeOK
  <2>1. CASE Connect(c)
    BY <2>1, <2>0 DEF Connect, AdapterCallUnchanged, modeVars, callVars
  <2>2. CASE TakeManual(c)
    BY <2>2, <2>0 DEF TakeManual, ModeSwitchUnchanged, modeVars, callVars
  <2>3. CASE ReleaseManual(c)
    BY <2>3, <2>0 DEF ReleaseManual, ModeSwitchUnchanged, modeVars, callVars, Goto
  <2>4. CASE ClearManualTarget(c)
    BY <2>4, <2>0 DEF ClearManualTarget, modeVars, callVars
  <2>5. CASE RejectLatched(c)
    BY <2>5, <2>0 DEF RejectLatched, modeVars, callVars
  <2>6. CASE StandUp(c)
    BY <2>6, <2>0 DEF StandUp, AdapterCallUnchanged, modeVars, callVars, Goto
  <2>7. CASE SitDown(c)
    BY <2>7, <2>0 DEF SitDown, SitDownLocked, modeVars, callVars, Goto, MissionActive
  <2>8. CASE StopMotion(c)
    BY <2>8, <2>0 DEF StopMotion, MotionOnlyUnchanged, modeVars, callVars
  <2>9. CASE DampingOn(c)
    BY <2>9, <2>0 DEF DampingOn, AdapterCallUnchanged, modeVars, callVars, Goto
  <2>10. CASE PauseMission(c)
    BY <2>10, <2>0 DEF PauseMission, SetStatus, MotionOnlyUnchanged, modeVars, callVars
  <2>11. CASE ResumeMission(c)
    BY <2>11, <2>0 DEF ResumeMission, SetStatus, MotionOnlyUnchanged, modeVars, callVars
  <2>12. CASE AbortMission(c)
    BY <2>12, <2>0 DEF AbortMission, SetStatus, MotionOnlyUnchanged, modeVars, callVars, TerminalStatus
  <2>13. CASE LatchEstop(c)
    BY <2>13, <2>0 DEF LatchEstop, modeVars, callVars, Goto
  <2>14. CASE ResetEstop(c)
    BY <2>14, <2>0 DEF ResetEstop, MotionOnlyUnchanged, modeVars, callVars
  <2>15. CASE BeginMission(c)
    BY <2>15, <2>0 DEF BeginMission, SetStatus, modeVars, callVars, CanStartMission
  <2>16. CASE MarkRunning(c)
    BY <2>16, <2>0 DEF MarkRunning, SetStatus, MotionOnlyUnchanged, modeVars, callVars
  <2>17. CASE CompleteMission(c)
    BY <2>17, <2>0 DEF CompleteMission, SetStatus, MotionOnlyUnchanged, modeVars, callVars, TerminalStatus
  <2>18. CASE FailMission(c)
    BY <2>18, <2>0 DEF FailMission, SetStatus, MotionOnlyUnchanged, modeVars, callVars
  <2>19. CASE TakeEnter(c)
    BY <2>19, <2>0 DEF TakeEnter, AdapterCallUnchanged, modeVars, callVars, Goto
  <2>20. CASE TakeUndo(c)
    BY <2>20, <2>0 DEF TakeUndo, ModeSwitchUnchanged, modeVars, callVars, Goto
  <2>21. CASE ReleaseExit(c)
    BY <2>21, <2>0 DEF ReleaseExit, AdapterCallUnchanged, modeVars, callVars, Goto
  <2>22. CASE ReleaseUndo(c)
    BY <2>22, <2>0 DEF ReleaseUndo, ModeSwitchUnchanged, modeVars, callVars, Goto
  <2>23. CASE SwitchStop(c)
    BY <2>23, <2>0 DEF SwitchStop, modeVars, callVars, Goto
  <2>24. CASE StandUpCall(c)
    BY <2>24, <2>0 DEF StandUpCall, AdapterCallUnchanged, modeVars, callVars, Goto
  <2>25. CASE StandUpApply(c)
    BY <2>25, <2>0 DEF StandUpApply, modeVars, callVars, Goto
  <2>26. CASE EstopStop(c)
    BY <2>26, <2>0 DEF EstopStop, AdapterCallUnchanged, modeVars, callVars, Goto
  <2>27. CASE EstopDamp(c)
    BY <2>27, <2>0 DEF EstopDamp, AdapterCallUnchanged, modeVars, callVars, Goto
  <2>28. CASE SitDownCall(c)
    BY <2>28, <2>0 DEF SitDownCall, AdapterCallUnchanged, modeVars, callVars, Goto
  <2>29. CASE ShutdownJoined(c)
    BY <2>29, <2>0 DEF ShutdownJoined, SitDownLocked, modeVars, callVars, Goto, MissionActive
  <2>30. CASE Shutdown(c)
    BY <2>30, <2>0 DEF Shutdown, modeVars, callVars, Goto
  <2>31. CASE Disconnect(c)
    BY <2>31, <2>0 DEF Disconnect, AdapterCallUnchanged, modeVars, Goto
  <2>33. CASE CloseConnection(c)
    BY <2>33, <2>0 DEF CloseConnection, AdapterCallUnchanged, modeVars, Goto
  <2>32. ASSUME NEW v \in RouteRequests, NEW source \in CommandSource, Submit(c, source, v)
        PROVE  PriorityInv'
    BY <2>32 DEF Submit, modeVars, callVars
  <2> QED BY <1>1, <2>1, <2>2, <2>3, <2>4, <2>5, <2>6, <2>7, <2>8, <2>9, <2>10, <2>11, <2>12, <2>13, <2>14, <2>15, <2>16, <2>17, <2>18, <2>19, <2>20, <2>21, <2>22, <2>23, <2>24, <2>25, <2>26, <2>27, <2>28, <2>29, <2>30, <2>31, <2>32, <2>33 DEF CallStep, CommandSource
<1>2. CASE Background
  <2>1. UNCHANGED <<modeVars, callVars>>
    BY <1>2 DEF Background, ControlLoop, LoopDecide, LoopAct, Watchdog, WatchdogCheck,
                WatchdogRecheck, WatchdogStop, SettleElapses, TeleopExpires, TimeUnchanged
  <2> QED BY <2>1 DEF modeVars, callVars, EstopHoldsMode, EstopEndsMission
<1>3. CASE UNCHANGED controlVars
  BY <1>3 DEF controlVars, modeVars, callVars, EstopHoldsMode, EstopEndsMission
<1> QED BY <1>1, <1>2, <1>3, NextCases

\* While entering and leaving manual mode never fails in the adapter, as it
\* never does in the two adapters of the repository, ESTOP keeps its priority.
THEOREM EstopHoldsModeCorrect ==
    ASSUME {"enter", "exit"} \cap Faults = {}
    PROVE  Spec => []EstopHoldsMode
<1>1. PriorityInv => EstopHoldsMode
  BY DEF PriorityInv
<1> QED BY TypeOKInit, TypeOKStep, PriorityInvInit, PriorityInvStep, <1>1, PTL DEF Spec

\* Under the same assumption no mission is active while ESTOP is latched.
THEOREM EstopEndsMissionCorrect ==
    ASSUME {"enter", "exit"} \cap Faults = {}
    PROVE  Spec => []EstopEndsMission
<1>1. PriorityInv => EstopEndsMission
  BY DEF PriorityInv
<1> QED BY TypeOKInit, TypeOKStep, PriorityInvInit, PriorityInvStep, <1>1, PTL DEF Spec
-----------------------------------------------------------------------------
(* The target of a manual session                                           *)

Switching == {"take_enter", "take_stop", "release_exit", "release_stop"}

\* A call clears the target, is about to, or leaves it and every switch of the
\* mode in progress alone.
TargetKept ==
    \/ manual_target' = 0
    \/ mode' = "MANUAL"
    \/ \E c \in Callers : op'[c] \in Switching
    \/ /\ UNCHANGED <<mode, manual_target>>
       /\ \A d \in Callers : op[d] \in Switching => op'[d] \in Switching

LEMMA CallKeepsTarget ==
    ASSUME {"enter", "exit"} \cap Faults = {},
           TypeOK, PriorityInv, NEW c \in Callers, CallStep(c)
    PROVE  TargetKept
<1>0. op \in [Callers -> Op] /\ op[c] \notin {"take_undo", "release_undo"}
  BY DEF TypeOK, CallTypeOK, PriorityInv
<1> USE <1>0 DEF TargetKept
<1>1. CASE Connect(c) \/ ClearManualTarget(c) \/ RejectLatched(c)
  BY <1>1 DEF Connect, ClearManualTarget, RejectLatched, AdapterCallUnchanged,
              modeVars, motionVars, callVars
<1>2. CASE TakeManual(c) \/ ReleaseManual(c) \/ TakeEnter(c) \/ ReleaseExit(c)
  <2>1. CASE TakeManual(c)
    BY <2>1 DEF TakeManual
  <2>2. CASE ~TakeManual(c)
    <3>1. op'[c] \in Switching
      BY <1>2, <2>2 DEF ReleaseManual, TakeEnter, ReleaseExit, Goto, Switching
    <3> QED BY <3>1
  <2> QED BY <2>1, <2>2
<1>3. CASE TakeUndo(c) \/ ReleaseUndo(c)
  BY <1>3 DEF TakeUndo, ReleaseUndo
<1>4. CASE StopMotion(c) \/ SwitchStop(c) \/ LatchEstop(c) \/ ResetEstop(c)
           \/ SitDown(c) \/ ShutdownJoined(c)
  BY <1>4 DEF StopMotion, SwitchStop, LatchEstop, ResetEstop, SitDown, ShutdownJoined,
              SitDownLocked, ResetMotion
<1>5. CASE PauseMission(c) \/ ResumeMission(c) \/ AbortMission(c) \/ BeginMission(c)
           \/ MarkRunning(c) \/ CompleteMission(c) \/ FailMission(c)
  BY <1>5 DEF PauseMission, ResumeMission, AbortMission, BeginMission, MarkRunning,
              CompleteMission, FailMission, SetStatus, ResetMotion, MotionOnlyUnchanged,
              motionVars, callVars
<1>6. CASE StandUp(c) \/ StandUpCall(c) \/ StandUpApply(c)
  BY <1>6 DEF StandUp, StandUpCall, StandUpApply, AdapterCallUnchanged, Goto, Switching,
              modeVars, motionVars
<1>7. CASE DampingOn(c) \/ EstopStop(c) \/ EstopDamp(c) \/ SitDownCall(c) \/ Shutdown(c)
  BY <1>7 DEF DampingOn, EstopStop, EstopDamp, SitDownCall, Shutdown, AdapterCallUnchanged,
              Goto, Switching, modeVars, motionVars
<1>8. ASSUME NEW v \in RouteRequests, Submit(c, "MANUAL", v) \/ Submit(c, "AUTO", v)
      PROVE  TargetKept
  BY <1>8 DEF Submit, CanAccept, modeVars, callVars
<1>9. CASE Disconnect(c) \/ CloseConnection(c)
  BY <1>9 DEF Disconnect, CloseConnection, AdapterCallUnchanged, Goto, Switching, modeVars,
              motionVars
<1> QED BY <1>1, <1>2, <1>3, <1>4, <1>5, <1>6, <1>7, <1>8, <1>9 DEF CallStep

LEMMA TargetInvStep ==
    ASSUME {"enter", "exit"} \cap Faults = {}
    PROVE  TypeOK /\ PriorityInv /\ NoResidualManualTarget /\ [Next]_controlVars
               => NoResidualManualTarget'
<1> SUFFICES ASSUME TypeOK, PriorityInv, NoResidualManualTarget, [Next]_controlVars
             PROVE  NoResidualManualTarget'
  OBVIOUS
<1>1. ASSUME TargetKept
      PROVE  NoResidualManualTarget'
  BY <1>1 DEF TargetKept, NoResidualManualTarget, Switching
<1>2. CASE Background
  BY <1>1, <1>2 DEF TargetKept, Background, ControlLoop, LoopDecide, LoopAct, Watchdog,
                    WatchdogCheck, WatchdogRecheck, WatchdogStop, ResetMotion, SettleElapses,
                    TeleopExpires, TimeUnchanged, modeVars, motionVars, callVars
<1>3. CASE UNCHANGED controlVars
  BY <1>1, <1>3 DEF TargetKept, controlVars, modeVars, motionVars, callVars
<1> QED BY <1>1, <1>2, <1>3, CallKeepsTarget, NextCases

\* Under the same assumption no target of a manual session is left over when
\* another mode begins (take_manual, release_manual, the watchdog, submit).
THEOREM NoResidualManualTargetCorrect ==
    ASSUME {"enter", "exit"} \cap Faults = {}
    PROVE  Spec => []NoResidualManualTarget
<1>1. Init => NoResidualManualTarget
  BY DEF Init, NoResidualManualTarget
<1> QED BY TypeOKInit, TypeOKStep, PriorityInvInit, PriorityInvStep, <1>1, TargetInvStep, PTL
        DEF Spec
-----------------------------------------------------------------------------
(* A paused mission                                                         *)

\* What PausedUntilResumed says of one step.
Resumed ==
    mission_status = "PAUSED_MANUAL" /\ mission_status' \in {"STARTING", "RUNNING"} =>
        mode = "AUTO" /\ mode' = "AUTO" /\ ~estop_latched

LEMMA ResumedStep ==
    ASSUME PriorityInv, [Next]_controlVars
    PROVE  Resumed
<1>1. ASSUME NEW c \in Callers, CallStep(c)
      PROVE  Resumed
  <2> USE DEF Resumed, modeVars
  <2>2. CASE TakeManual(c) \/ ReleaseManual(c) \/ TakeUndo(c) \/ ReleaseUndo(c)
    BY <2>2 DEF TakeManual, ReleaseManual, TakeUndo, ReleaseUndo, PriorityInv
  <2>3. CASE LatchEstop(c) \/ ResetEstop(c) \/ SitDown(c) \/ ShutdownJoined(c)
    BY <2>3 DEF LatchEstop, ResetEstop, SitDown, ShutdownJoined, SitDownLocked
  <2>4. CASE PauseMission(c) \/ ResumeMission(c) \/ AbortMission(c)
    BY <2>4 DEF PauseMission, ResumeMission, AbortMission, SetStatus
  <2>5. CASE BeginMission(c) \/ MarkRunning(c) \/ CompleteMission(c) \/ FailMission(c)
    BY <2>5 DEF BeginMission, MarkRunning, CompleteMission, FailMission, SetStatus,
                CanStartMission, MissionActive
  <2>6. CASE Connect(c) \/ ClearManualTarget(c) \/ RejectLatched(c) \/ Disconnect(c)
             \/ CloseConnection(c)
    BY <2>6 DEF Connect, ClearManualTarget, RejectLatched, Disconnect, CloseConnection,
                AdapterCallUnchanged
  <2>7. CASE TakeEnter(c) \/ ReleaseExit(c) \/ SwitchStop(c) \/ StopMotion(c) \/ Shutdown(c)
    BY <2>7 DEF TakeEnter, ReleaseExit, SwitchStop, StopMotion, Shutdown, AdapterCallUnchanged
  <2>8. CASE StandUp(c) \/ StandUpCall(c) \/ StandUpApply(c)
    BY <2>8 DEF StandUp, StandUpCall, StandUpApply, AdapterCallUnchanged
  <2>9. CASE DampingOn(c) \/ EstopStop(c) \/ EstopDamp(c) \/ SitDownCall(c)
    BY <2>9 DEF DampingOn, EstopStop, EstopDamp, SitDownCall, AdapterCallUnchanged
  <2>10. ASSUME NEW v \in RouteRequests, Submit(c, "MANUAL", v) \/ Submit(c, "AUTO", v)
         PROVE  Resumed
    BY <2>10 DEF Submit
  <2> QED BY <1>1, <2>2, <2>3, <2>4, <2>5, <2>6, <2>7, <2>8, <2>9, <2>10 DEF CallStep
<1>2. CASE Background
  BY <1>2 DEF Resumed, Background, ControlLoop, LoopDecide, LoopAct, Watchdog, WatchdogCheck,
              WatchdogRecheck, WatchdogStop, SettleElapses, TeleopExpires, TimeUnchanged, modeVars
<1>3. CASE UNCHANGED controlVars
  BY <1>3 DEF Resumed, controlVars, modeVars
<1> QED BY <1>1, <1>2, <1>3, NextCases

\* Under the same assumption only an operator's resume_mission, in AUTO with
\* ESTOP clear, sets a paused mission going again.
THEOREM PausedUntilResumedCorrect ==
    ASSUME {"enter", "exit"} \cap Faults = {}
    PROVE  Spec => PausedUntilResumed
<1>1. PriorityInv /\ [Next]_controlVars =>
          [mission_status = "PAUSED_MANUAL" /\ mission_status' \in {"STARTING", "RUNNING"} =>
              mode = "AUTO" /\ mode' = "AUTO" /\ ~estop_latched]_controlVars
  BY ResumedStep DEF Resumed
<1> QED BY TypeOKInit, TypeOKStep, PriorityInvInit, PriorityInvStep, <1>1, PTL
        DEF Spec, PausedUntilResumed
-----------------------------------------------------------------------------
(* The end of the application                                               *)

\* Once shutdown() has joined the threads the control loop decides nothing any
\* more, and the robot stands or is lost, or sit_down() still has to be told to it.
StillInv ==
    stop_event /\ (\A c \in Callers : op[c] # "join") =>
        /\ loop_action = "none"
        /\ Driven => \E c \in Callers : op[c] = "sit"

LEMMA AdapterCallStills ==
    ASSUME \/ AdapterConnect \/ AdapterDisconnect \/ AdapterClose \/ StopRobot \/ DampRobot
           \/ SeatRobot \/ RaiseRobot \/ EnterManualMode \/ ExitManualMode
           \/ UNCHANGED adapterVars
    PROVE  Driven' => Driven
<1> USE DEF Driven
<1>1. CASE AdapterConnect \/ AdapterDisconnect \/ AdapterClose
  BY <1>1 DEF AdapterConnect, AdapterDisconnect, AdapterClose, ZeroVelocity
<1>2. CASE StopRobot \/ DampRobot \/ SeatRobot
  BY <1>2 DEF StopRobot, DampRobot, SeatRobot, ZeroVelocity
<1>3. CASE RaiseRobot \/ EnterManualMode \/ ExitManualMode \/ UNCHANGED adapterVars
  BY <1>3 DEF RaiseRobot, EnterManualMode, ExitManualMode, adapterVars
<1> QED BY <1>1, <1>2, <1>3

\* A call that neither begins nor ends the shutdown moves no robot.
CallStills ==
    /\ UNCHANGED <<stop_event, loop_action>>
    /\ Driven' => Driven
    /\ \A d \in Callers :
          (op'[d] = "join" <=> op[d] = "join") /\ (op[d] = "sit" => op'[d] = "sit")

LEMMA CallKeepsStill ==
    ASSUME TypeOK, NEW c \in Callers, CallStep(c)
    PROVE  CallStills \/ Shutdown(c) \/ ShutdownJoined(c) \/ SitDownCall(c)
<1>0. op \in [Callers -> Op]
  BY DEF TypeOK, CallTypeOK
<1> USE <1>0, AdapterCallStills DEF CallStills
<1>1. CASE Connect(c) \/ ClearManualTarget(c) \/ RejectLatched(c)
  BY <1>1 DEF Connect, ClearManualTarget, RejectLatched, AdapterCallUnchanged, loopVars, callVars
<1>2. CASE TakeManual(c) \/ ReleaseManual(c) \/ TakeUndo(c) \/ ReleaseUndo(c)
  BY <1>2 DEF TakeManual, ReleaseManual, TakeUndo, ReleaseUndo, ModeSwitchUnchanged, Goto, loopVars
<1>3. CASE TakeEnter(c) \/ ReleaseExit(c)
  BY <1>3 DEF TakeEnter, ReleaseExit, AdapterCallUnchanged, Goto, loopVars
<1>4. CASE StopMotion(c) \/ SwitchStop(c) \/ LatchEstop(c) \/ ResetEstop(c) \/ SitDown(c)
  BY <1>4 DEF StopMotion, SwitchStop, LatchEstop, ResetEstop, SitDown, SitDownLocked,
              MotionOnlyUnchanged, Goto, loopVars, callVars
<1>5. CASE PauseMission(c) \/ ResumeMission(c) \/ AbortMission(c) \/ BeginMission(c)
           \/ MarkRunning(c) \/ CompleteMission(c) \/ FailMission(c)
  BY <1>5 DEF PauseMission, ResumeMission, AbortMission, BeginMission, MarkRunning,
              CompleteMission, FailMission, MotionOnlyUnchanged, loopVars, callVars
<1>6. CASE StandUp(c) \/ StandUpCall(c) \/ StandUpApply(c)
  BY <1>6 DEF StandUp, StandUpCall, StandUpApply, AdapterCallUnchanged, Goto, loopVars
<1>7. CASE DampingOn(c) \/ EstopStop(c) \/ EstopDamp(c)
  BY <1>7 DEF DampingOn, EstopStop, EstopDamp, AdapterCallUnchanged, Goto, loopVars
<1>8. ASSUME NEW v \in RouteRequests, Submit(c, "MANUAL", v) \/ Submit(c, "AUTO", v)
      PROVE  CallStills
  BY <1>8 DEF Submit, loopVars, callVars
<1>9. CASE Disconnect(c) \/ CloseConnection(c)
  BY <1>9 DEF Disconnect, CloseConnection, AdapterCallUnchanged, Goto, loopVars
<1> QED BY <1>1, <1>2, <1>3, <1>4, <1>5, <1>6, <1>7, <1>8, <1>9 DEF CallStep

LEMMA StillInvStep ==
    ASSUME {"stop", "slow_join"} \cap Faults = {}
    PROVE  TypeOK /\ StopInv /\ StillInv /\ [Next]_controlVars => StillInv'
<1> SUFFICES ASSUME TypeOK, StopInv, StillInv, [Next]_controlVars
             PROVE  StillInv'
  OBVIOUS
<1>0. op \in [Callers -> Op]
  BY DEF TypeOK, CallTypeOK
<1>1. ASSUME NEW c \in Callers, CallStep(c)
      PROVE  StillInv'
  <2>1. CASE CallStills
    BY <2>1 DEF CallStills, StillInv
  <2>2. CASE Shutdown(c)
    BY <1>0, <2>2 DEF Shutdown, Goto, StillInv
  <2>3. CASE ShutdownJoined(c)
    BY <1>0, <2>3 DEF ShutdownJoined, SitDownLocked, Goto, StillInv, loopVars
  <2>4. CASE SitDownCall(c)
    <3>1. ~Driven'
      BY <2>4 DEF SitDownCall, SeatRobot, ZeroVelocity, Swallowed, StopInv, Driven
    <3> QED BY <1>0, <2>4, <3>1 DEF SitDownCall, AdapterCallUnchanged, Goto, StillInv, loopVars
  <2> QED BY <1>1, <2>1, <2>2, <2>3, <2>4, CallKeepsStill
<1>2. CASE Background
  <2>1. CASE LoopDecide
    BY <2>1 DEF LoopDecide, StillInv, Driven, callVars, adapterVars
  <2>2. CASE LoopAct
    BY <2>2 DEF LoopAct, StillInv, Driven, callVars
  <2>3. CASE Watchdog \/ SettleElapses \/ TeleopExpires
    BY <2>3 DEF Watchdog, WatchdogCheck, WatchdogRecheck, WatchdogStop, SettleElapses,
                TeleopExpires, TimeUnchanged, StillInv, Driven, loopVars, callVars, adapterVars
  <2> QED BY <1>2, <2>1, <2>2, <2>3 DEF Background, ControlLoop
<1>3. CASE UNCHANGED controlVars
  BY <1>3 DEF controlVars, StillInv, Driven, loopVars, callVars, adapterVars
<1> QED BY <1>1, <1>2, <1>3, NextCases

\* Where a StopMove reaches the robot and the threads end within the second
\* that shutdown() waits for them, it leaves the robot still, unless that was
\* put out of reach before (shutdown, sit_down, _control_loop).
THEOREM ShutdownLeavesRobotStillCorrect ==
    ASSUME {"stop", "slow_join"} \cap Faults = {}
    PROVE  Spec => []ShutdownLeavesRobotStill
<1>1. Init => StillInv
  BY DEF Init, StillInv
<1>2. StillInv => ShutdownLeavesRobotStill
  BY DEF StillInv, ShutdownLeavesRobotStill
<1>3. "stop" \notin Faults
  OBVIOUS
<1>4. TypeOK /\ StopInv /\ [Next]_controlVars => StopInv'
  BY <1>3, StopInvStep
<1> QED BY TypeOKInit, TypeOKStep, StopInvInit, <1>1, <1>2, <1>4, StillInvStep, PTL DEF Spec
=============================================================================
