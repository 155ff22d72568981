------------------------- MODULE MissionManagerProofs -------------------------
(***************************************************************************)
(* The composition of the mission executor with ControlCore only takes     *)
(* steps that ControlCore allows to its callers, so that what is proved of *)
(* ControlCore for every set of callers holds while a mission runs.        *)
(***************************************************************************)
EXTENDS MissionManager, ControlCoreProofs, FiniteSetTheorems

\* Every call of the executor is a call that ControlCore allows.
LEMMA ExecuteCalls == Execute => [Next]_controlVars
<1> SUFFICES ASSUME Execute
             PROVE  Quiet \/ (\E c \in Callers : MissionCall(c) \/ Continue(c))
  BY DEF Quiet, Next
<1> USE MissionAssumption DEF MissionCall, Continue
<1>1. CASE Ready \/ NextStep \/ Rest \/ Stepped \/ Final
  BY <1>1 DEF Ready, NextStep, EnterStep, Rest, Stepped, Final
<1>2. CASE Mark
  BY <1>2 DEF Mark
<1>3. CASE StandStep
  BY <1>3 DEF StandStep
<1>4. CASE MoveGate \/ MoveSubmit \/ MoveBlocked \/ MoveDone
  BY <1>4 DEF MoveGate, MoveSubmit, MoveBlocked, MoveDone, RouteRequests
<1>5. CASE CheckpointStep \/ StopStep
  BY <1>5 DEF CheckpointStep, StopStep
<1>6. CASE Ending
  BY <1>6 DEF Ending
<1> QED BY <1>1, <1>2, <1>3, <1>4, <1>5, <1>6 DEF Execute

LEMMA MissionStepCalls == [MissionNext]_vars => [Next]_controlVars
<1> SUFFICES ASSUME [MissionNext]_vars
             PROVE  [Next]_controlVars
  OBVIOUS
<1>1. CASE \E c \in Callers : Operator(c)
  BY <1>1 DEF Operator, Next
<1>2. ASSUME NEW c \in Callers \ {Executor}, ShutdownMission(c) \/ ShutdownControl(c)
      PROVE  [Next]_controlVars
  BY <1>2 DEF ShutdownMission, ShutdownControl, Quiet, Next, MissionCall
<1>3. CASE StartRoute
  BY <1>3, MissionAssumption
     DEF StartRoute, StartCheck, StartRun, StartBegin, Next, MissionCall
<1>4. CASE Execute
  BY <1>4, ExecuteCalls
<1>5. CASE Background
  BY <1>5 DEF Next
<1>6. CASE UNCHANGED vars
  BY <1>6 DEF vars
<1> QED BY <1>1, <1>2, <1>3, <1>4, <1>5, <1>6 DEF MissionNext

\* A mission is one more caller of ControlCore, and nothing else moves the
\* robot: the composition implements ControlCore.
THEOREM OnlyCallsControlCoreCorrect == MissionSpec => OnlyCallsControlCore
<1>1. MissionInit => Init
  BY DEF MissionInit
<1> QED BY <1>1, MissionStepCalls, PTL DEF MissionSpec, OnlyCallsControlCore, Spec

\* So the stop of an emergency is not lost while a mission runs either.
THEOREM MissionEstopStopOwed ==
    ASSUME "stop" \notin Faults
    PROVE  MissionSpec => []EstopStopOwed
BY OnlyCallsControlCoreCorrect, EstopStopOwedCorrect DEF OnlyCallsControlCore

\* And so it implements what ControlCore implements: with a mission running, ESTOP
\* is still the gate of MotionGate.
THEOREM MissionImplementsGate ==
    ASSUME "stop" \notin Faults
    PROVE  MissionSpec => ImplementsGate
BY OnlyCallsControlCoreCorrect, ImplementsGateCorrect DEF OnlyCallsControlCore
-----------------------------------------------------------------------------
(* The reports                                                              *)

\* A report is not written before its run has ended, and the run that an
\* executor works on is the one it was started for.
RunInv ==
    /\ DOMAIN reports = 1 .. MaxRuns /\ reports = [r \in 1 .. MaxRuns |-> reports[r]]
    /\ runs \in 0 .. MaxRuns /\ active_run \in {0, runs}
    /\ \A r \in 1 .. MaxRuns : r > runs \/ r = active_run => reports[r] = NoReport
    /\ start_pc # "free" => mission_pc = "none"
    /\ start_pc = "run" => runs < MaxRuns
    /\ mission_pc # "none" /\ active_run # 0 => mission_id = active_run

LEMMA RunInvInit == MissionInit => RunInv
BY MissionAssumption DEF MissionInit, RunInv

\* What a step of the executor does to the runs: all but the last, nothing.
LEMMA ExecuteKeepsRuns ==
    ASSUME Execute
    PROVE  /\ mission_pc # "none" /\ UNCHANGED <<start_pc, runs, mission_id>>
           /\ \/ UNCHANGED <<active_run, reports>>
              \/ /\ active_run # 0 /\ active_run' = 0 /\ mission_pc' = "none"
                 /\ \E new : reports' = [reports EXCEPT ![active_run] = new]
<1> USE DEF Proceed, runVars
<1>1. CASE Ready \/ Mark \/ NextStep \/ Rest \/ Stepped \/ CheckpointStep \/ StopStep
  BY <1>1 DEF Ready, Mark, NextStep, EnterStep, Rest, Stepped, CheckpointStep, StopStep
<1>2. CASE StandStep \/ Ending
  BY <1>2 DEF StandStep, Ending
<1>3. CASE MoveGate \/ MoveSubmit \/ MoveBlocked \/ MoveDone
  BY <1>3 DEF MoveGate, MoveSubmit, MoveBlocked, MoveDone
<1>4. CASE Final
  BY <1>4 DEF Final
<1> QED BY <1>1, <1>2, <1>3, <1>4 DEF Execute

LEMMA RunStep ==
    ASSUME RunInv, [MissionNext]_vars
    PROVE  /\ RunInv'
           /\ \A r \in 1 .. MaxRuns :
                 reports'[r] # reports[r] => r = mission_id /\ reports[r] = NoReport
<1> USE MissionAssumption DEF RunInv
<1>1. CASE UNCHANGED <<mission_pc, start_pc, mission_id, runs, active_run, reports>>
  BY <1>1
<1>2. CASE StartRoute
  <2>1. CASE StartCheck
    BY <2>1 DEF StartCheck, executorVars, runVars
  <2>2. CASE StartRun
    BY <2>2 DEF StartRun, executorVars
  <2>3. CASE StartBegin
    BY <2>3 DEF StartBegin, executorVars
  <2> QED BY <1>2, <2>1, <2>2, <2>3 DEF StartRoute
<1>3. CASE Execute
  <2>1. CASE UNCHANGED <<active_run, reports>>
    BY <1>3, <2>1, ExecuteKeepsRuns
  <2>2. CASE ~UNCHANGED <<active_run, reports>>
    BY <1>3, <2>2, ExecuteKeepsRuns
  <2> QED BY <2>1, <2>2
<1>4. CASE ~StartRoute /\ ~Execute
  <2>1. UNCHANGED missionVars \/ UNCHANGED <<executorVars, start_pc, runVars>>
    BY <1>4 DEF MissionNext, Operator, ShutdownMission, ShutdownControl, vars
  <2> QED BY <1>1, <2>1 DEF missionVars, executorVars, runVars
<1> QED BY <1>2, <1>3, <1>4

\* A report is written once, by the executor of its own mission, whatever
\* starts, aborts, failed writes and shutdowns come between.
THEOREM ReportsWrittenOnceCorrect == MissionSpec => ReportsWrittenOnce
<1>1. RunInv /\ [MissionNext]_vars =>
          [\A r \in 1 .. MaxRuns :
              reports'[r] # reports[r] => r = mission_id /\ reports[r] = NoReport]_vars
  BY RunStep
<1>2. RunInv /\ [MissionNext]_vars => RunInv'
  BY RunStep
<1> QED BY RunInvInit, <1>1, <1>2, PTL DEF MissionSpec, ReportsWrittenOnce
-----------------------------------------------------------------------------
(* The movements of a mission                                               *)

\* Only a step with a movement has an AUTO target, until its stop_motion().
MoveInv == auto_target # 0 => mission_pc \in Moving

AutoKept == auto_target' \in {0, auto_target}

\* The target of the mission is the executor's: nothing else sets it.
LEMMA CallKeepsAuto ==
    ASSUME NEW c \in Callers,
           \/ OperatorCall(c) \/ Continue(c) \/ Disconnect(c) \/ Shutdown(c) \/ AbortMission(c)
           \/ BeginMission(c) \/ MarkRunning(c) \/ StandUp(c) \/ StopMotion(c)
           \/ CompleteMission(c) \/ FailMission(c) \/ RejectLatched(c)
    PROVE  AutoKept
<1> USE DEF AutoKept, motionVars, ResetMotion
<1>1. CASE OperatorCall(c)
  <2>1. CASE Connect(c) \/ ClearManualTarget(c) \/ RejectLatched(c)
    BY <2>1 DEF Connect, ClearManualTarget, RejectLatched, AdapterCallUnchanged
  <2>2. CASE TakeManual(c) \/ ReleaseManual(c)
    BY <2>2 DEF TakeManual, ReleaseManual, ModeSwitchUnchanged
  <2>3. ASSUME NEW v \in Requests, Submit(c, "MANUAL", v)
        PROVE  AutoKept
    BY <2>3 DEF Submit
  <2>4. CASE StandUp(c) \/ SitDown(c) \/ StopMotion(c) \/ DampingOn(c)
    BY <2>4 DEF StandUp, SitDown, SitDownLocked, StopMotion, DampingOn, AdapterCallUnchanged
  <2>5. CASE PauseMission(c) \/ ResumeMission(c) \/ AbortMission(c)
    BY <2>5 DEF PauseMission, ResumeMission, AbortMission
  <2>6. CASE LatchEstop(c) \/ ResetEstop(c)
    BY <2>6 DEF LatchEstop, ResetEstop
  <2> QED BY <1>1, <2>1, <2>2, <2>3, <2>4, <2>5, <2>6 DEF OperatorCall
<1>2. CASE Continue(c)
  <2>1. CASE TakeEnter(c) \/ TakeUndo(c) \/ ReleaseExit(c) \/ ReleaseUndo(c) \/ SwitchStop(c)
    BY <2>1 DEF TakeEnter, TakeUndo, ReleaseExit, ReleaseUndo, SwitchStop, ModeSwitchUnchanged,
                AdapterCallUnchanged
  <2>2. CASE StandUpCall(c) \/ StandUpApply(c) \/ EstopStop(c) \/ EstopDamp(c)
    BY <2>2 DEF StandUpCall, StandUpApply, EstopStop, EstopDamp, AdapterCallUnchanged
  <2>3. CASE SitDownCall(c) \/ ShutdownJoined(c) \/ CloseConnection(c)
    BY <2>3 DEF SitDownCall, ShutdownJoined, SitDownLocked, CloseConnection,
                AdapterCallUnchanged
  <2> QED BY <1>2, <2>1, <2>2, <2>3 DEF Continue
<1>3. CASE Disconnect(c) \/ Shutdown(c) \/ AbortMission(c) \/ StopMotion(c)
  BY <1>3 DEF Disconnect, Shutdown, AbortMission, StopMotion, AdapterCallUnchanged
<1>4. CASE BeginMission(c) \/ MarkRunning(c) \/ StandUp(c)
  BY <1>4 DEF BeginMission, MarkRunning, StandUp, AdapterCallUnchanged
<1>5. CASE CompleteMission(c) \/ FailMission(c) \/ RejectLatched(c)
  BY <1>5 DEF CompleteMission, FailMission, RejectLatched
<1> QED BY <1>1, <1>2, <1>3, <1>4, <1>5

LEMMA BackgroundKeepsAuto == ASSUME Background PROVE AutoKept
BY DEF Background, ControlLoop, LoopDecide, LoopAct, Watchdog, WatchdogCheck, WatchdogRecheck,
       WatchdogStop, SettleElapses, TeleopExpires, TimeUnchanged, AutoKept, motionVars, ResetMotion

LEMMA ExecuteMoves == ASSUME MoveInv, Execute PROVE MoveInv'
<1> USE MissionAssumption DEF MoveInv, Moving, Proceed
<1>0. Quiet => UNCHANGED auto_target
  BY DEF Quiet, controlVars, motionVars
<1>1. CASE Ready \/ NextStep \/ Rest \/ Stepped \/ Final
  BY <1>0, <1>1 DEF Ready, NextStep, EnterStep, Rest, Stepped, Final
<1>2. CASE Mark
  BY <1>0, <1>2, CallKeepsAuto DEF Mark, AutoKept
<1>3. CASE StandStep
  BY <1>0, <1>3, CallKeepsAuto DEF StandStep, AutoKept, Continue
<1>4. CASE MoveGate \/ MoveSubmit
  BY <1>0, <1>4 DEF MoveGate, MoveSubmit
<1>5. CASE MoveBlocked \/ MoveDone \/ StopStep
  BY <1>5 DEF MoveBlocked, MoveDone, StopStep, StopMotion, ResetMotion
<1>6. CASE CheckpointStep
  BY <1>0, <1>6 DEF CheckpointStep, StopMotion, ResetMotion
<1>7. CASE Ending
  BY <1>0, <1>7 DEF Ending, CompleteMission, FailMission, ResetMotion
<1> QED BY <1>1, <1>2, <1>3, <1>4, <1>5, <1>6, <1>7 DEF Execute

LEMMA MoveInvStep == MoveInv /\ [MissionNext]_vars => MoveInv'
<1> SUFFICES ASSUME MoveInv, [MissionNext]_vars PROVE MoveInv'
  OBVIOUS
<1>1. ASSUME AutoKept, UNCHANGED mission_pc PROVE MoveInv'
  BY <1>1 DEF AutoKept, MoveInv
<1>2. CASE \E c \in Callers : Operator(c)
  BY <1>1, <1>2, CallKeepsAuto DEF Operator, missionVars, executorVars
<1>3. ASSUME NEW c \in Callers, ShutdownMission(c) \/ ShutdownControl(c)
      PROVE  MoveInv'
  BY <1>1, <1>3, CallKeepsAuto
     DEF ShutdownMission, ShutdownControl, Quiet, AutoKept, controlVars, motionVars,
         missionVars, executorVars
<1>4. CASE StartRoute
  BY <1>4 DEF StartRoute, StartCheck, StartRun, StartBegin, BeginMission, MoveInv,
              controlVars, motionVars, executorVars
<1>5. CASE Background /\ UNCHANGED missionVars
  BY <1>1, <1>5, BackgroundKeepsAuto DEF missionVars, executorVars
<1>6. CASE UNCHANGED vars
  BY <1>1, <1>6 DEF vars, AutoKept, controlVars, motionVars, missionVars, executorVars
<1> QED BY <1>2, <1>3, <1>4, <1>5, <1>6, ExecuteMoves DEF MissionNext

\* However a mission ends, its executor leaves no movement behind, whatever
\* operators, the control loop and the shutdown do next to it.
THEOREM NoOrphanAutoTargetCorrect == MissionSpec => []NoOrphanAutoTarget
<1>1. MissionInit => MoveInv
  BY DEF MissionInit, Init, MoveInv
<1>2. MoveInv => NoOrphanAutoTarget
  BY DEF MoveInv, Moving, NoOrphanAutoTarget
<1> QED BY <1>1, <1>2, MoveInvStep, PTL DEF MissionSpec
-----------------------------------------------------------------------------
(* The types                                                                *)

\* Where the executor is between two steps of the route.
Between == {"none", "ready", "mark", "gate", "wrapup", "complete", "failing", "final", "finalize"}

LEMMA RouteLength == Len(Route) \in Nat /\ DOMAIN Route = 1 .. Len(Route)
BY MissionAssumption

CountTypes ==
    /\ mission_pc \in MissionPc /\ step \in 1 .. Len(Route) + 1
    /\ steps_executed \in 0 .. Len(Route) /\ checkpoints \in 0 .. Len(Route)
    /\ final_status \in MissionStatus

Report == [status : MissionStatus, steps : 0 .. Len(Route), checkpoints : 0 .. Len(Route)]

RestTypes ==
    /\ remaining \in 0 .. Chunks /\ start_pc \in {"free", "run", "begin"}
    /\ mission_id \in 0 .. MaxRuns /\ reports \in [1 .. MaxRuns -> Report] /\ closing \in BOOLEAN

\* The counters do not run past the route, whatever becomes of the mission.
PlaceInv ==
    /\ CountTypes /\ RestTypes
    /\ mission_pc # "none" => steps_executed = step - 1
    /\ mission_pc # "none" => checkpoints <= IF mission_pc = "stepped" THEN step ELSE step - 1
    /\ mission_pc \notin Between => step <= Len(Route)
    /\ mission_pc = "submit" => remaining > 0
    /\ start_pc = "begin" => checkpoints = 0

LEMMA PlaceInvInit == MissionInit => PlaceInv
<1> SUFFICES ASSUME MissionInit PROVE PlaceInv
  OBVIOUS
<1>1. CountTypes
  BY RouteLength DEF MissionInit, CountTypes, MissionPc, MissionStatus
<1>2. NoReport \in Report
  BY RouteLength DEF Report, NoReport, MissionStatus
<1>3. reports \in [1 .. MaxRuns -> Report]
  <2>1. reports = [r \in 1 .. MaxRuns |-> NoReport]
    BY DEF MissionInit
  <2> QED BY <1>2, <2>1
<1>4. /\ remaining \in 0 .. Chunks /\ mission_id \in 0 .. MaxRuns
      /\ start_pc = "free" /\ closing = FALSE /\ mission_pc = "none"
  BY MissionAssumption DEF MissionInit
<1>5. RestTypes
  BY <1>3, <1>4 DEF RestTypes
<1> QED BY <1>1, <1>4, <1>5 DEF PlaceInv, Between

\* A step of the executor in the middle of a mission.
LEMMA PlaceGoesOn ==
    ASSUME PlaceInv, RunInv, NEW next \in MissionPc \ {"none"}, mission_pc \notin {"none", "stepped"},
           Proceed(next), next \notin Between => step <= Len(Route),
           remaining' \in 0 .. Chunks, next = "submit" => remaining' > 0,
           UNCHANGED <<mission_id, steps_executed, reports>>,
           \/ UNCHANGED checkpoints
           \/ checkpoints' = checkpoints + 1 /\ next = "stepped" /\ mission_pc = "capture"
    PROVE  PlaceInv'
<1> USE RouteLength DEF PlaceInv, Proceed
<1>1. mission_pc' = next /\ UNCHANGED <<step, final_status, start_pc, closing>>
  OBVIOUS
<1>2. /\ checkpoints' <= IF next = "stepped" THEN step ELSE step - 1
      /\ checkpoints' \in 0 .. Len(Route)
  <2>1. CASE UNCHANGED checkpoints
    BY <2>1 DEF CountTypes
  <2>2. CASE checkpoints' = checkpoints + 1 /\ next = "stepped" /\ mission_pc = "capture"
    BY <2>2 DEF CountTypes, Between
  <2> QED BY <2>1, <2>2
<1>3. CountTypes'
  BY <1>1, <1>2 DEF CountTypes
<1>4. RestTypes'
  BY <1>1 DEF RestTypes
<1>5. start_pc' # "begin"
  BY <1>1 DEF RunInv
<1> QED BY <1>1, <1>2, <1>3, <1>4, <1>5

\* What PlaceGoesOn asks of the point at which the executor goes on.
PlaceMay(next) ==
    /\ next \in MissionPc \ {"none"} /\ Proceed(next)
    /\ next \notin Between => step <= Len(Route)
    /\ remaining' \in 0 .. Chunks /\ (next = "submit" => remaining' > 0)

LEMMA PlaceExecutes ==
    ASSUME PlaceInv, RunInv, Execute, ~Stepped, ~Final
    PROVE  /\ mission_pc \notin {"none", "stepped"}
           /\ UNCHANGED <<mission_id, steps_executed, reports>>
           /\ \E next \in MissionPc \ {"none"} :
                 /\ PlaceMay(next)
                 /\ \/ UNCHANGED checkpoints
                    \/ checkpoints' = checkpoints + 1 /\ next = "stepped" /\ mission_pc = "capture"
<1> USE DEF runVars, MissionPc, Between, PlaceMay
<1>0. /\ Chunks \in Nat \ {0} /\ remaining \in 0 .. Chunks
      /\ mission_pc \notin Between => step <= Len(Route)
      /\ mission_pc = "submit" => remaining > 0
  BY MissionAssumption DEF PlaceInv, RestTypes
<1>1. CASE Ready
  BY <1>0, <1>1 DEF Ready
<1>2. CASE Mark
  BY <1>0, <1>2 DEF Mark
<1>3. CASE NextStep
  <2>1. CASE EnterStep("wrapup")
    BY <1>0, <1>3, <2>1 DEF NextStep, EnterStep
  <2>2. CASE step <= Len(Route) /\ EnterStep(IF Route[step] = "wait" THEN "rest" ELSE Route[step])
    <3> DEFINE next == IF Route[step] = "wait" THEN "rest" ELSE Route[step]
    <3>1. Route[step] \in StepType
      BY <2>2, RouteLength, MissionAssumption DEF PlaceInv, CountTypes
    <3>2. next \in {"stand_up", "move", "rest", "checkpoint", "stop"}
      BY <3>1 DEF StepType
    <3> HIDE DEF next
    <3>3. EnterStep(next)
      BY <2>2 DEF next
    <3> QED BY <1>0, <1>3, <2>2, <3>2, <3>3 DEF NextStep, EnterStep
  <2> QED BY <1>3, <2>1, <2>2 DEF NextStep
<1>4. CASE StandStep
  <2>1. PICK next \in {"standing", "settle", "settle_left", "stepped", "failing", "wrapup"} : Proceed(next)
    BY <1>4 DEF StandStep
  <2> QED BY <1>0, <1>4, <2>1 DEF StandStep
<1>5. CASE MoveGate
  BY <1>0, <1>5 DEF MoveGate
<1>6. CASE MoveSubmit
  BY <1>0, <1>6 DEF MoveSubmit
<1>7. CASE MoveBlocked \/ MoveDone \/ StopStep
  BY <1>0, <1>7 DEF MoveBlocked, MoveDone, StopStep
<1>8. CASE Rest
  BY <1>0, <1>8 DEF Rest
<1>9. CASE CheckpointStep
  BY <1>0, <1>9 DEF CheckpointStep, RunInv
<1>10. CASE Ending
  BY <1>0, <1>10 DEF Ending
<1> QED BY <1>1, <1>2, <1>3, <1>4, <1>5, <1>6, <1>7, <1>8, <1>9, <1>10 DEF Execute

LEMMA PlaceInvStep == ASSUME TypeOK, RunInv, PlaceInv, [MissionNext]_vars PROVE PlaceInv'
<1> USE DEF PlaceInv
<1>1. CASE Execute /\ ~Stepped /\ ~Final
  BY <1>1, PlaceExecutes, PlaceGoesOn DEF PlaceMay
<1>2. CASE Stepped
  <2>1. /\ mission_pc = "stepped" /\ mission_pc' = "gate" /\ step' = step + 1
        /\ steps_executed' = steps_executed + 1
        /\ UNCHANGED <<remaining, final_status, start_pc, closing, mission_id, checkpoints, reports>>
    BY <1>2 DEF Stepped
  <2>2. step \in 1 .. Len(Route) /\ step' - 1 = step
    BY <2>1, RouteLength DEF CountTypes, Between
  <2>3. CountTypes'
    BY <2>1, <2>2, RouteLength DEF CountTypes, MissionPc
  <2>4. RestTypes'
    BY <2>1 DEF RestTypes
  <2> QED BY <2>1, <2>2, <2>3, <2>4 DEF Between, RunInv
<1>3. CASE Final
  <2>1. CASE mission_pc = "final"
    <3>1. /\ mission_pc' = "finalize" /\ final_status' \in MissionStatus
          /\ UNCHANGED <<step, remaining, start_pc, runVars, closing>>
      BY <1>3, <2>1 DEF Final, TypeOK, ModeTypeOK
    <3> QED BY <2>1, <3>1 DEF CountTypes, RestTypes, MissionPc, Between, runVars
  <2>2. CASE mission_pc = "finalize"
    <3>1. /\ mission_pc' = "none" /\ final_status' = "IDLE" /\ step' = 1
          /\ UNCHANGED <<remaining, start_pc, closing, mission_id, steps_executed, checkpoints>>
      BY <1>3, <2>2 DEF Final
    <3>2. reports' \in [1 .. MaxRuns -> Report]
      <4> DEFINE new == [status |-> final_status, steps |-> steps_executed, checkpoints |-> checkpoints]
      <4>1. new \in Report
        BY DEF CountTypes, Report
      <4>2. UNCHANGED reports \/ reports' = [reports EXCEPT ![active_run] = new]
        BY <1>3, <2>2 DEF Final
      <4> HIDE DEF new
      <4> QED BY <4>1, <4>2 DEF RestTypes
    <3>3. CountTypes'
      BY <3>1, RouteLength DEF CountTypes, MissionPc, MissionStatus
    <3>4. RestTypes'
      BY <3>1, <3>2 DEF RestTypes
    <3> QED BY <3>1, <3>3, <3>4, <2>2 DEF RunInv, Between
  <2> QED BY <1>3, <2>1, <2>2 DEF Final
<1>4. CASE StartCheck \/ StartRun
  <2>1. /\ UNCHANGED <<executorVars, closing, mission_id, steps_executed, reports>>
        /\ mission_pc = "none" /\ start_pc' \in {"free", "run", "begin"}
        /\ UNCHANGED checkpoints \/ checkpoints' = 0
        /\ start_pc' = "begin" => checkpoints' = 0
    BY <1>4 DEF StartCheck, StartRun, RunInv, runVars
  <2> QED BY <2>1, RouteLength DEF CountTypes, RestTypes, executorVars, Between
<1>5. CASE StartBegin
  <2>1. start_pc = "begin" /\ start_pc' = "free" /\ UNCHANGED <<checkpoints, reports, closing>>
    BY <1>5 DEF StartBegin
  <2>2. CASE mission_pc' = "ready"
    <3>1. CASE UNCHANGED <<executorVars, mission_id, steps_executed>>
      BY <2>1, <2>2, <3>1 DEF executorVars, RunInv
    <3>2. CASE /\ mission_id' = active_run /\ steps_executed' = 0 /\ step' = 1
               /\ UNCHANGED <<remaining, final_status>>
      <4>1. active_run \in 0 .. MaxRuns
        BY MissionAssumption DEF RunInv
      <4> QED BY <2>1, <2>2, <3>2, <4>1, RouteLength DEF CountTypes, RestTypes, MissionPc, Between
    <3> QED BY <1>5, <2>2, <3>1, <3>2 DEF StartBegin
  <2>3. CASE UNCHANGED <<executorVars, mission_id, steps_executed>>
    BY <2>1, <2>3 DEF CountTypes, RestTypes, executorVars
  <2> QED BY <1>5, <2>2, <2>3 DEF StartBegin
<1>6. CASE ~StartRoute /\ ~Execute
  <2>1. UNCHANGED missionVars \/ (UNCHANGED <<executorVars, start_pc, runVars>> /\ closing')
    BY <1>6 DEF MissionNext, Operator, ShutdownMission, ShutdownControl, vars
  <2> QED BY <2>1 DEF missionVars, executorVars, runVars, CountTypes, RestTypes
<1> QED BY <1>1, <1>2, <1>3, <1>4, <1>5, <1>6 DEF StartRoute

LEMMA MissionTypes == MissionSpec => []TypeOK
<1>1. MissionInit => TypeOK
  BY TypeOKInit DEF MissionInit
<1> QED BY <1>1, TypeOKStep, MissionStepCalls, PTL DEF MissionSpec

\* The executor stays in the route and in the runs there are, and what it
\* counts and reports stays within them, whatever any call does.
THEOREM MissionTypeCorrect == MissionSpec => []MissionTypeOK
<1>1. MissionInit => RunInv /\ PlaceInv
  BY RunInvInit, PlaceInvInit
<1>2. TypeOK /\ RunInv /\ PlaceInv /\ [MissionNext]_vars => RunInv' /\ PlaceInv'
  BY RunStep, PlaceInvStep
<1>3. TypeOK /\ RunInv /\ PlaceInv => MissionTypeOK
  <2> SUFFICES ASSUME TypeOK, RunInv, PlaceInv PROVE MissionTypeOK
    OBVIOUS
  <2>1. active_run \in 0 .. runs
    BY MissionAssumption DEF RunInv
  <2> QED BY <2>1 DEF MissionTypeOK, PlaceInv, CountTypes, RestTypes, RunInv, Report
<1> QED BY <1>1, <1>2, <1>3, MissionTypes, PTL DEF MissionSpec
-----------------------------------------------------------------------------
(* The end of a mission: what has ended stays ended while its executor runs *)

\* A mission that is over or to be ended has a terminal status, and a shutdown
\* begins by ending the one that runs.
EndInv ==
    /\ \A c \in Callers : op[c] # "take_undo"
    /\ abort_requested \/ estop_latched => mission_status \in TerminalStatus
    /\ stop_event => closing
    /\ closing => start_pc = "free" /\ (mission_pc # "none" => mission_status \in TerminalStatus)
    /\ mission_pc # "none" => mission_status # "IDLE"

\* What every call but begin_mission() and complete_mission() leaves of it.
StatusKept ==
    /\ mission_status' = "IDLE" => mission_status = "IDLE"
    /\ mission_status' = "COMPLETED" => mission_status = "COMPLETED"
    /\ mission_status \in TerminalStatus => mission_status' \in TerminalStatus
    /\ abort_requested' \/ estop_latched' =>
           abort_requested \/ estop_latched \/ mission_status' \in TerminalStatus

NoUndo == \A c \in Callers : op[c] # "take_undo"

LEMMA CallKeepsStatus ==
    ASSUME "enter" \notin Faults, TypeOK, NoUndo, NEW c \in Callers,
           \/ OperatorCall(c) \/ Continue(c) \/ Disconnect(c) \/ Shutdown(c) \/ AbortMission(c)
           \/ MarkRunning(c) \/ StandUp(c) \/ StopMotion(c) \/ FailMission(c) \/ RejectLatched(c)
           \/ \E v \in RouteRequests : Submit(c, "AUTO", v)
    PROVE  StatusKept /\ NoUndo'
<1> USE DEF StatusKept, NoUndo, TerminalStatus, modeVars, callVars, Goto
<1>0. op \in [Callers -> Op]
  BY DEF TypeOK, CallTypeOK
<1>1. CASE StandUp(c)
  BY <1>0, <1>1 DEF StandUp, AdapterCallUnchanged
<1>2. CASE StopMotion(c)
  BY <1>0, <1>2 DEF StopMotion, MotionOnlyUnchanged
<1>3. CASE AbortMission(c)
  BY <1>0, <1>3 DEF AbortMission, SetStatus, MotionOnlyUnchanged
<1>4. CASE OperatorCall(c)
  <2>1. CASE Connect(c) \/ ClearManualTarget(c) \/ RejectLatched(c)
    BY <1>0, <2>1 DEF Connect, ClearManualTarget, RejectLatched, AdapterCallUnchanged
  <2>2. CASE TakeManual(c) \/ ReleaseManual(c)
    BY <1>0, <2>2 DEF TakeManual, ReleaseManual, ModeSwitchUnchanged
  <2>3. ASSUME NEW v \in Requests, Submit(c, "MANUAL", v)
        PROVE  StatusKept /\ NoUndo'
    BY <1>0, <2>3 DEF Submit
  <2>4. CASE SitDown(c)
    BY <1>0, <2>4 DEF SitDown, SitDownLocked, MissionActive
  <2>5. CASE DampingOn(c)
    BY <1>0, <2>5 DEF DampingOn, AdapterCallUnchanged
  <2>6. CASE PauseMission(c)
    BY <1>0, <2>6 DEF PauseMission, SetStatus, MotionOnlyUnchanged
  <2>7. CASE ResumeMission(c)
    BY <1>0, <2>7 DEF ResumeMission, SetStatus, MotionOnlyUnchanged
  <2>8. CASE LatchEstop(c) \/ ResetEstop(c)
    BY <1>0, <2>8 DEF LatchEstop, ResetEstop, MotionOnlyUnchanged
  <2> QED BY <1>1, <1>2, <1>3, <1>4, <2>1, <2>2, <2>3, <2>4, <2>5, <2>6, <2>7, <2>8
          DEF OperatorCall
<1>5. CASE Continue(c)
  <2>1. CASE TakeEnter(c)
    BY <1>0, <2>1 DEF TakeEnter, AdapterCallUnchanged
  <2>2. CASE TakeUndo(c)
    BY <2>2 DEF TakeUndo
  <2>3. CASE ReleaseExit(c)
    BY <1>0, <2>3 DEF ReleaseExit, AdapterCallUnchanged
  <2>4. CASE ReleaseUndo(c)
    BY <1>0, <2>4 DEF ReleaseUndo, ModeSwitchUnchanged
  <2>5. CASE SwitchStop(c)
    BY <1>0, <2>5 DEF SwitchStop
  <2>6. CASE StandUpCall(c) \/ StandUpApply(c) \/ EstopStop(c) \/ EstopDamp(c)
    BY <1>0, <2>6 DEF StandUpCall, StandUpApply, EstopStop, EstopDamp, AdapterCallUnchanged
  <2>7. CASE SitDownCall(c) \/ CloseConnection(c)
    BY <1>0, <2>7 DEF SitDownCall, CloseConnection, AdapterCallUnchanged
  <2>8. CASE ShutdownJoined(c)
    BY <1>0, <2>8 DEF ShutdownJoined, SitDownLocked, MissionActive
  <2> QED BY <1>5, <2>1, <2>2, <2>3, <2>4, <2>5, <2>6, <2>7, <2>8 DEF Continue
<1>6. CASE \E v \in RouteRequests : Submit(c, "AUTO", v)
  BY <1>6 DEF Submit
<1>7. CASE Disconnect(c)
  BY <1>0, <1>7 DEF Disconnect, AdapterCallUnchanged
<1>8. CASE Shutdown(c)
  BY <1>0, <1>8 DEF Shutdown
<1>9. CASE MarkRunning(c)
  BY <1>0, <1>9 DEF MarkRunning, SetStatus, MotionOnlyUnchanged
<1>10. CASE FailMission(c)
  BY <1>0, <1>10 DEF FailMission, SetStatus, MotionOnlyUnchanged
<1>11. CASE RejectLatched(c)
  BY <1>0, <1>11 DEF RejectLatched
<1> QED BY <1>1, <1>2, <1>3, <1>4, <1>5, <1>6, <1>7, <1>8, <1>9, <1>10, <1>11

LEMMA BackgroundKeepsStatus == ASSUME Background PROVE UNCHANGED <<modeVars, callVars, stop_event>>
BY DEF Background, ControlLoop, LoopDecide, LoopAct, Watchdog, WatchdogCheck, WatchdogRecheck,
       WatchdogStop, SettleElapses, TeleopExpires, TimeUnchanged

\* Only shutdown() sets the event that ends the threads.
LEMMA CallKeepsStopEvent ==
    ASSUME NEW c \in Callers,
           \/ OperatorCall(c) \/ Continue(c) \/ Disconnect(c) \/ AbortMission(c) \/ BeginMission(c)
           \/ MarkRunning(c) \/ StandUp(c) \/ StopMotion(c) \/ FailMission(c) \/ RejectLatched(c)
           \/ CompleteMission(c) \/ \E v \in RouteRequests : Submit(c, "AUTO", v)
    PROVE  UNCHANGED stop_event
<1>1. CASE OperatorCall(c)
  BY <1>1 DEF OperatorCall, Connect, ClearManualTarget, RejectLatched, AdapterCallUnchanged,
              TakeManual, ReleaseManual, ModeSwitchUnchanged, Submit, StandUp, SitDown,
              SitDownLocked, StopMotion, DampingOn, MotionOnlyUnchanged, PauseMission,
              ResumeMission, AbortMission, LatchEstop, ResetEstop
<1>2. CASE Continue(c)
  BY <1>2 DEF Continue, TakeEnter, TakeUndo, ReleaseExit, ReleaseUndo, SwitchStop,
              ModeSwitchUnchanged, AdapterCallUnchanged, StandUpCall, StandUpApply, EstopStop,
              EstopDamp, SitDownCall, ShutdownJoined, SitDownLocked, CloseConnection
<1>3. CASE Disconnect(c) \/ AbortMission(c) \/ StopMotion(c) \/ BeginMission(c) \/ MarkRunning(c)
  BY <1>3 DEF Disconnect, AbortMission, StopMotion, BeginMission, MarkRunning,
              AdapterCallUnchanged, MotionOnlyUnchanged
<1>4. CASE StandUp(c) \/ FailMission(c) \/ RejectLatched(c) \/ CompleteMission(c)
  BY <1>4 DEF StandUp, FailMission, RejectLatched, CompleteMission, AdapterCallUnchanged,
              MotionOnlyUnchanged
<1>5. CASE \E v \in RouteRequests : Submit(c, "AUTO", v)
  BY <1>5 DEF Submit
<1> QED BY <1>1, <1>2, <1>3, <1>4, <1>5

\* What the executor does to the mission: only complete_mission() is not a call
\* that keeps the status, and it is made for a mission that has not ended.
LEMMA ExecuteKeepsStatus ==
    ASSUME "enter" \notin Faults, TypeOK, NoUndo, Execute
    PROVE  /\ NoUndo' /\ UNCHANGED <<stop_event, closing, start_pc>>
           /\ \/ StatusKept
              \/ /\ mission_pc = "complete" /\ mission_pc' = "final"
                 /\ CompleteMission(Executor) /\ UNCHANGED <<step, final_status, runVars>>
<1> USE MissionAssumption DEF Proceed
<1>0. Quiet => StatusKept /\ NoUndo' /\ UNCHANGED stop_event
  BY DEF Quiet, controlVars, modeVars, callVars, StatusKept, NoUndo
<1>1. CASE Ready \/ NextStep \/ Rest \/ Stepped \/ Final
  BY <1>0, <1>1 DEF Ready, NextStep, EnterStep, Rest, Stepped, Final
<1>2. CASE Mark
  BY <1>0, <1>2, CallKeepsStatus, CallKeepsStopEvent DEF Mark
<1>3. CASE StandStep
  <2>1. UNCHANGED <<closing, start_pc>>
    BY <1>3 DEF StandStep
  <2>2. Quiet \/ StandUp(Executor) \/ Continue(Executor)
    BY <1>3 DEF StandStep, Continue
  <2> QED BY <1>0, <2>1, <2>2, CallKeepsStatus, CallKeepsStopEvent
<1>4. CASE MoveGate
  BY <1>0, <1>4 DEF MoveGate
<1>5. CASE MoveSubmit
  <2>1. UNCHANGED <<closing, start_pc>>
    BY <1>5 DEF MoveSubmit
  <2>2. Quiet \/ RejectLatched(Executor) \/ \E v \in RouteRequests : Submit(Executor, "AUTO", v)
    BY <1>5 DEF MoveSubmit, RouteRequests
  <2> QED BY <1>0, <2>1, <2>2, CallKeepsStatus, CallKeepsStopEvent
<1>6. CASE MoveBlocked \/ MoveDone \/ StopStep
  BY <1>6, CallKeepsStatus, CallKeepsStopEvent DEF MoveBlocked, MoveDone, StopStep
<1>7. CASE CheckpointStep
  BY <1>0, <1>7, CallKeepsStatus, CallKeepsStopEvent DEF CheckpointStep
<1>8. CASE Ending
  <2>1. CASE Quiet \/ FailMission(Executor)
    BY <1>0, <1>8, <2>1, CallKeepsStatus, CallKeepsStopEvent DEF Ending
  <2>2. CASE ~(Quiet \/ FailMission(Executor))
    <3>1. /\ mission_pc = "complete" /\ mission_pc' = "final" /\ CompleteMission(Executor)
          /\ UNCHANGED <<step, final_status, runVars, closing, start_pc>>
      BY <1>8, <2>2 DEF Ending
    <3>2. NoUndo'
      BY <3>1 DEF CompleteMission, MotionOnlyUnchanged, callVars, NoUndo
    <3> QED BY <3>1, <3>2, CallKeepsStopEvent
  <2> QED BY <2>1, <2>2
<1> QED BY <1>1, <1>2, <1>3, <1>4, <1>5, <1>6, <1>7, <1>8 DEF Execute

LEMMA EndInvStep ==
    ASSUME "enter" \notin Faults, TypeOK, RunInv, EndInv, [MissionNext]_vars
    PROVE  EndInv'
<1> USE DEF EndInv
<1>0. NoUndo
  BY DEF NoUndo
<1>1. ASSUME StatusKept, NoUndo', UNCHANGED <<mission_pc, start_pc, closing>>,
             stop_event' => stop_event \/ closing
      PROVE  EndInv'
  BY <1>1 DEF StatusKept, NoUndo
<1>2. ASSUME NEW c \in Callers, Operator(c) PROVE EndInv'
  <2>1. OperatorCall(c) \/ Continue(c) \/ Disconnect(c)
    BY <1>2 DEF Operator
  <2>2. UNCHANGED <<mission_pc, start_pc, closing>>
    BY <1>2 DEF Operator, missionVars, executorVars
  <2> QED BY <1>0, <1>1, <2>1, <2>2, CallKeepsStatus, CallKeepsStopEvent
<1>3. ASSUME NEW c \in Callers \ {Executor}, ShutdownMission(c) PROVE EndInv'
  <2>1. ~closing /\ closing' /\ start_pc = "free" /\ UNCHANGED <<mission_pc, start_pc>>
    BY <1>3 DEF ShutdownMission, executorVars
  <2>2. CASE AbortMission(c) /\ mission_pc # "none"
    <3>1. mission_status' = "ABORTED" /\ NoUndo' /\ UNCHANGED stop_event
      BY <2>2, <1>0, CallKeepsStatus, CallKeepsStopEvent DEF AbortMission, SetStatus
    <3> QED BY <2>1, <3>1 DEF NoUndo, TerminalStatus
  <2>3. CASE Quiet /\ (mission_pc # "none" => mission_status \in TerminalStatus)
    BY <2>1, <2>3 DEF Quiet, controlVars, modeVars, callVars
  <2> QED BY <1>3, <2>2, <2>3 DEF ShutdownMission
<1>4. ASSUME NEW c \in Callers \ {Executor}, ShutdownControl(c) PROVE EndInv'
  <2>1. closing /\ Shutdown(c) /\ UNCHANGED <<mission_pc, start_pc, closing>>
    BY <1>4 DEF ShutdownControl, missionVars, executorVars
  <2> QED BY <1>0, <1>1, <2>1, CallKeepsStatus
<1>5. CASE StartCheck \/ StartRun
  <2>1. /\ UNCHANGED <<controlVars, mission_pc, closing>>
        /\ start_pc' = "free" \/ ~closing
    BY <1>5 DEF StartCheck, StartRun, executorVars
  <2> QED BY <2>1 DEF controlVars, modeVars, callVars
<1>6. CASE StartBegin
  <2>1. ~closing /\ ~closing' /\ mission_pc = "none" /\ start_pc' = "free"
    BY <1>6 DEF StartBegin, RunInv
  <2>2. CASE BeginMission(Executor)
    <3>1. /\ mission_status' = "STARTING" /\ ~abort_requested' /\ ~estop_latched'
          /\ UNCHANGED <<op, stop_event>>
      BY <2>2 DEF BeginMission, SetStatus, CanStartMission, callVars
    <3> QED BY <2>1, <3>1
  <2>3. CASE UNCHANGED controlVars /\ UNCHANGED mission_pc
    BY <2>1, <2>3 DEF controlVars, modeVars, callVars
  <2> QED BY <1>6, <2>2, <2>3 DEF StartBegin, executorVars
<1>7. CASE Execute
  <2>1. mission_pc # "none" /\ NoUndo' /\ UNCHANGED <<stop_event, closing, start_pc>>
    BY <1>0, <1>7, ExecuteKeepsStatus, ExecuteKeepsRuns
  <2>2. CASE StatusKept
    BY <2>1, <2>2 DEF StatusKept, NoUndo
  <2>3. CASE CompleteMission(Executor)
    <3>1. mission_status' = "COMPLETED" /\ UNCHANGED <<abort_requested, estop_latched>>
      BY <2>3 DEF CompleteMission, SetStatus
    <3> QED BY <2>1, <3>1 DEF NoUndo, TerminalStatus
  <2> QED BY <1>0, <1>7, <2>2, <2>3, ExecuteKeepsStatus
<1>8. CASE UNCHANGED vars \/ (Background /\ UNCHANGED missionVars)
  <2>1. UNCHANGED <<modeVars, callVars, stop_event, mission_pc, start_pc, closing>>
    BY <1>8, BackgroundKeepsStatus DEF vars, controlVars, missionVars, executorVars
  <2> QED BY <2>1 DEF modeVars, callVars
<1> QED BY <1>2, <1>3, <1>4, <1>5, <1>6, <1>7, <1>8 DEF MissionNext, StartRoute

LEMMA EndInvInit == MissionInit => EndInv
BY DEF MissionInit, Init, EndInv
-----------------------------------------------------------------------------
(* The stop that ends a mission                                             *)

\* What is over has a stop that stays: a mission ends, and a release switches to
\* AUTO, with a reset of the motion, and the movement a late submit() may have
\* brought back is the executor's until its own stop_motion().
OverInv == MissionOver => StopStays

\* What a call does to the end of a mission: it resets the motion, is no end, or
\* comes after the end.
OverKept == StopStays' \/ ~MissionOver' \/ (MissionOver /\ (StopStays => StopStays'))

LEMMA ReleasingKept ==
    ASSUME op \in [Callers -> Op], NEW c \in Callers, NEW next \in Op,
           op[c] \notin {"release_exit", "release_undo", "release_stop"},
           op' = [op EXCEPT ![c] = next]
    PROVE  Releasing => Releasing'
BY DEF Releasing

LEMMA QuietCallOver ==
    ASSUME "stop" \notin Faults, TypeOK, StopInv, NoUndo, NEW c \in Callers, QuietCall(c),
           UNCHANGED mission_pc
    PROVE  OverKept
<1> USE DEF OverKept, MissionOver, MissionActive, Goto, modeVars, callVars
<1>0. op \in [Callers -> Op]
  BY DEF TypeOK, CallTypeOK
<1>1. StopStays => StopStays'
  BY QuietCallStays
<1>2. CASE UNCHANGED <<mode, mission_status>> /\ (Releasing => Releasing')
  BY <1>1, <1>2
<1>3. CASE Connect(c) \/ ClearManualTarget(c) \/ RejectLatched(c)
  <2>1. UNCHANGED <<mode, mission_status, op>>
    BY <1>3 DEF Connect, ClearManualTarget, RejectLatched, AdapterCallUnchanged
  <2> QED BY <1>2, <2>1 DEF Releasing
<1>4. CASE ResumeMission(c) \/ MarkRunning(c)
  BY <1>4 DEF ResumeMission, MarkRunning, SetStatus
<1>5. CASE TakeManual(c)
  BY <1>5 DEF TakeManual
<1>6. CASE TakeUndo(c)
  BY <1>6 DEF TakeUndo, NoUndo
<1>7. CASE ReleaseManual(c) \/ ReleaseExit(c)
  <2>1. Releasing'
    BY <1>0, <1>7 DEF ReleaseManual, ReleaseExit, Releasing
  <2> QED BY <2>1
<1>8. CASE ReleaseUndo(c)
  BY <1>8 DEF ReleaseUndo
<1>9. CASE TakeEnter(c) \/ StandUp(c) \/ StandUpCall(c) \/ DampingOn(c)
  <2>1. /\ UNCHANGED <<mode, mission_status>>
        /\ op[c] \notin {"release_exit", "release_undo", "release_stop"}
        /\ \E next \in Op : op' = [op EXCEPT ![c] = next]
    BY <1>9 DEF TakeEnter, StandUp, StandUpCall, DampingOn, AdapterCallUnchanged, Op
  <2> QED BY <1>0, <1>2, <2>1, ReleasingKept
<1>10. CASE EstopStop(c) \/ EstopDamp(c) \/ SitDownCall(c) \/ Shutdown(c)
  <2>1. /\ UNCHANGED <<mode, mission_status>>
        /\ op[c] \notin {"release_exit", "release_undo", "release_stop"}
        /\ \E next \in Op : op' = [op EXCEPT ![c] = next]
    BY <1>10 DEF EstopStop, EstopDamp, SitDownCall, Shutdown, AdapterCallUnchanged, Op
  <2> QED BY <1>0, <1>2, <2>1, ReleasingKept
<1>11. CASE Disconnect(c) \/ CloseConnection(c)
  <2>1. /\ UNCHANGED <<mode, mission_status>>
        /\ op[c] \notin {"release_exit", "release_undo", "release_stop"}
        /\ \E next \in Op : op' = [op EXCEPT ![c] = next]
    BY <1>11 DEF Disconnect, CloseConnection, AdapterCallUnchanged, Op
  <2> QED BY <1>0, <1>2, <2>1, ReleasingKept
<1> QED BY <1>3, <1>4, <1>5, <1>6, <1>7, <1>8, <1>9, <1>10, <1>11 DEF QuietCall

\* The calls of operators and of the shutdown.
LEMMA CallOver ==
    ASSUME "stop" \notin Faults, TypeOK, StopInv, NoUndo, NEW c \in Callers,
           \/ OperatorCall(c) \/ Continue(c) \/ Disconnect(c) \/ Shutdown(c) \/ AbortMission(c),
           UNCHANGED mission_pc
    PROVE  OverKept
<1>1. \/ ResetCall(c) \/ QuietCall(c)
      \/ \E v \in Requests : Submit(c, "MANUAL", v)
  BY DEF OperatorCall, Continue, ResetCall, QuietCall
<1>2. CASE ResetCall(c)
  BY <1>2, ResetCallStays DEF OverKept
<1>3. CASE QuietCall(c)
  BY <1>3, QuietCallOver
<1>4. CASE \E v \in Requests : Submit(c, "MANUAL", v)
  BY <1>4 DEF Submit, CanAccept, modeVars, OverKept, MissionOver
<1> QED BY <1>1, <1>2, <1>3, <1>4

\* The steps of the executor: a movement is left through stop_motion() only.
LEMMA ExecuteOver ==
    ASSUME "stop" \notin Faults, TypeOK, StopInv, NoUndo, Execute
    PROVE  OverKept
<1> USE MissionAssumption DEF Proceed
<1>1. ASSUME Quiet, mission_pc \notin Moving PROVE OverKept
  <2>1. UNCHANGED <<mode, mission_status, op>>
    BY <1>1 DEF Quiet, controlVars, modeVars, callVars
  <2>2. StopStays => StopStays'
    BY <1>1, StaysKept DEF Quiet, controlVars
  <2> QED BY <1>1, <2>1, <2>2 DEF OverKept, MissionOver, MissionActive, Releasing
<1>2. ASSUME mission_pc' \in Moving PROVE OverKept
  BY <1>2 DEF OverKept, MissionOver
<1>3. ASSUME ResetCall(Executor) PROVE OverKept
  BY <1>3, ResetCallStays DEF OverKept
<1>4. CASE Ready \/ NextStep \/ Rest \/ Stepped \/ Final
  BY <1>1, <1>4 DEF Ready, NextStep, EnterStep, Rest, Stepped, Final, Moving
<1>5. CASE Mark
  <2>1. CASE MarkRunning(Executor)
    BY <2>1 DEF MarkRunning, SetStatus, OverKept, MissionOver, MissionActive
  <2> QED BY <1>1, <1>5, <2>1 DEF Mark, Moving
<1>6. CASE StandStep
  <2>1. /\ mission_pc \notin Moving
        /\ \/ Quiet \/ ResetCall(Executor) \/ StandUp(Executor) \/ StandUpCall(Executor)
    BY <1>6 DEF StandStep, Moving, ResetCall
  <2>2. CASE StandUp(Executor) \/ StandUpCall(Executor)
    <3>1. /\ UNCHANGED <<mode, mission_status>>
          /\ op[Executor] \notin {"release_exit", "release_undo", "release_stop"}
          /\ \E next \in Op : op' = [op EXCEPT ![Executor] = next]
      BY <2>2 DEF StandUp, StandUpCall, AdapterCallUnchanged, Op, Goto, modeVars
    <3>2. Releasing => Releasing'
      BY <3>1, ReleasingKept DEF TypeOK, CallTypeOK
    <3>3. StopStays => StopStays'
      BY <2>2, QuietCallStays DEF QuietCall
    <3> QED BY <2>1, <3>1, <3>2, <3>3 DEF OverKept, MissionOver, MissionActive
  <2> QED BY <1>1, <1>3, <2>1, <2>2
<1>7. CASE MoveGate \/ MoveSubmit
  BY <1>2, <1>7 DEF MoveGate, MoveSubmit, Moving
<1>8. CASE MoveBlocked \/ MoveDone \/ StopStep
  BY <1>3, <1>8 DEF MoveBlocked, MoveDone, StopStep, ResetCall
<1>9. CASE CheckpointStep
  BY <1>1, <1>3, <1>9 DEF CheckpointStep, ResetCall, Moving
<1>10. CASE Ending
  BY <1>1, <1>3, <1>10 DEF Ending, ResetCall, Moving
<1> QED BY <1>4, <1>5, <1>6, <1>7, <1>8, <1>9, <1>10 DEF Execute

LEMMA OverInvStep ==
    ASSUME "stop" \notin Faults, "enter" \notin Faults, TypeOK, StopInv, MoveInv, EndInv, RunInv,
           OverInv, [MissionNext]_vars
    PROVE  OverInv'
<1> USE DEF OverInv
<1>0. NoUndo /\ (OverKept => OverInv')
  BY DEF NoUndo, EndInv, OverKept
<1>1. ASSUME NEW c \in Callers, Operator(c) PROVE OverInv'
  BY <1>0, <1>1, CallOver DEF Operator, missionVars, executorVars
<1>2. ASSUME UNCHANGED <<controlVars, mission_pc>> PROVE OverInv'
  <2>1. StopStays => StopStays'
    BY <1>2, StaysKept DEF controlVars
  <2>2. UNCHANGED <<mode, mission_status, op, mission_pc>>
    BY <1>2 DEF controlVars, modeVars, callVars
  <2> QED BY <2>1, <2>2 DEF MissionOver, MissionActive, Releasing
<1>3. ASSUME NEW c \in Callers \ {Executor}, ShutdownMission(c) \/ ShutdownControl(c)
      PROVE  OverInv'
  BY <1>0, <1>2, <1>3, CallOver
     DEF ShutdownMission, ShutdownControl, Quiet, missionVars, executorVars
<1>4. CASE StartRoute
  <2>1. CASE UNCHANGED <<controlVars, mission_pc>>
    BY <1>2, <2>1
  <2>2. CASE BeginMission(Executor)
    BY <2>2 DEF BeginMission, SetStatus, MissionOver, MissionActive
  <2> QED BY <1>4, <2>1, <2>2 DEF StartRoute, StartCheck, StartRun, StartBegin, executorVars
<1>5. CASE Execute
  BY <1>0, <1>5, ExecuteOver
<1>6. CASE Background /\ UNCHANGED missionVars
  <2>1. UNCHANGED <<mode, mission_status, op, mission_pc>>
    BY <1>6, BackgroundKeepsStatus DEF modeVars, callVars, missionVars, executorVars
  <2>2. CASE MissionOver
    <3>1. auto_target = 0 /\ mode = "AUTO" /\ ~MissionActive
      BY <2>2 DEF MissionOver, MoveInv
    <3>2. ActiveTarget = 0
      BY <3>1 DEF ActiveTarget
    <3> QED BY <1>6, <2>2, <3>2, BackgroundStays
  <2> QED BY <2>1, <2>2 DEF MissionOver, MissionActive, Releasing
<1>7. CASE UNCHANGED vars
  BY <1>2, <1>7 DEF vars, missionVars, executorVars
<1> QED BY <1>1, <1>3, <1>4, <1>5, <1>6, <1>7 DEF MissionNext

\* While the adapter's stop and its entering of manual mode do not fail, the stop
\* that ends a mission or a release is never lost, for every route, however the
\* mission ended and whichever command its executor submits after the end.
THEOREM EndedMissionStopOwedCorrect ==
    ASSUME {"enter", "stop"} \cap Faults = {}
    PROVE  MissionSpec => []EndedMissionStopOwed
<1>0. "stop" \notin Faults /\ "enter" \notin Faults
  OBVIOUS
<1>1. MissionInit => StopInv /\ MoveInv /\ EndInv /\ RunInv /\ OverInv
  BY StopInvInit, EndInvInit, RunInvInit
     DEF MissionInit, Init, AdapterInit, MoveInv, OverInv, StopStays, MayMove, Driven
<1>2. TypeOK /\ StopInv /\ [MissionNext]_vars => StopInv'
  BY <1>0, StopInvStep, MissionStepCalls
<1>3. TypeOK /\ MoveInv /\ EndInv /\ RunInv /\ [MissionNext]_vars => MoveInv' /\ EndInv' /\ RunInv'
  BY <1>0, MoveInvStep, EndInvStep, RunStep
<1>4. TypeOK /\ StopInv /\ MoveInv /\ EndInv /\ RunInv /\ OverInv /\ [MissionNext]_vars => OverInv'
  BY <1>0, OverInvStep
<1>5. OverInv => EndedMissionStopOwed
  BY DEF OverInv, EndedMissionStopOwed, StopStays, StopOwed
<1> QED BY <1>1, <1>2, <1>3, <1>4, <1>5, MissionTypes, PTL DEF MissionSpec
-----------------------------------------------------------------------------
(* The steps of a mission and its checkpoints are counted as it goes.       *)

CheckpointsIn(n) == {i \in 1 .. n : Route[i] = "checkpoint"}
SavedBy(n) == Cardinality(CheckpointsIn(n))

LEMMA SavedByTyped ==
    ASSUME NEW n \in Nat
    PROVE  SavedBy(n) \in 0 .. n /\ IsFiniteSet(CheckpointsIn(n))
<1>1. IsFiniteSet(1 .. n) /\ Cardinality(1 .. n) = n
  BY FS_Interval
<1>2. CheckpointsIn(n) \in SUBSET (1 .. n)
  BY DEF CheckpointsIn
<1>3. IsFiniteSet(CheckpointsIn(n)) /\ Cardinality(CheckpointsIn(n)) <= n
  BY <1>1, <1>2, FS_Subset
<1>4. Cardinality(CheckpointsIn(n)) \in Nat
  BY <1>3, FS_CardinalityType
<1> QED BY <1>3, <1>4 DEF SavedBy

LEMMA SavedByNone == SavedBy(0) = 0
<1>1. CheckpointsIn(0) = {}
  BY DEF CheckpointsIn
<1> QED BY <1>1, FS_EmptySet DEF SavedBy

LEMMA SavedByNext ==
    ASSUME NEW n \in Nat \ {0}
    PROVE  SavedBy(n) = IF Route[n] = "checkpoint" THEN SavedBy(n - 1) + 1 ELSE SavedBy(n - 1)
<1>1. IsFiniteSet(CheckpointsIn(n - 1))
  BY SavedByTyped
<1>2. CASE Route[n] = "checkpoint"
  <2>1. CheckpointsIn(n) = CheckpointsIn(n - 1) \cup {n} /\ n \notin CheckpointsIn(n - 1)
    BY <1>2 DEF CheckpointsIn
  <2> QED BY <1>1, <1>2, <2>1, FS_AddElement DEF SavedBy
<1>3. CASE Route[n] # "checkpoint"
  <2>1. CheckpointsIn(n) = CheckpointsIn(n - 1)
    BY <1>3 DEF CheckpointsIn
  <2> QED BY <1>3, <2>1 DEF SavedBy
<1> QED BY <1>2, <1>3

\* Where the executor has left the route.
Ended == {"none", "wrapup", "complete", "failing", "final", "finalize"}

AllDone == step = Len(Route) + 1 /\ steps_executed = Len(Route) /\ checkpoints = SavedBy(Len(Route))

\* An executor is at the step that its counters say, and comes to the end of
\* the route, or to the end of an ended mission.
ProgressInv ==
    /\ mission_pc # "none" => active_run # 0 /\ steps_executed = step - 1
    /\ mission_pc \notin Between => step <= Len(Route)
    /\ mission_pc \in {"ready", "mark"} => step = 1
    /\ mission_pc = "blocked" => mission_status \in TerminalStatus
    /\ mission_pc = "wrapup" => AllDone \/ mission_status \in TerminalStatus
    /\ mission_pc = "complete" => AllDone

\* The checkpoints of the run are those of the steps before.
SavedInv ==
    /\ start_pc = "begin" => active_run # 0 /\ checkpoints = 0
    /\ mission_pc \in {"checkpoint", "capture"} => Route[step] = "checkpoint"
    /\ mission_pc \in {"stand_up", "standing", "settle", "settle_left", "move", "submit", "blocked",
                      "moved", "stop"} => Route[step] # "checkpoint"
    /\ mission_pc \notin Ended =>
           checkpoints = SavedBy(IF mission_pc = "stepped" THEN step ELSE step - 1)

CompletedInv ==
    /\ mission_pc # "none" /\ mission_status = "COMPLETED" =>
           mission_pc \in {"final", "finalize"} /\ AllDone
    /\ final_status = "COMPLETED" => mission_pc = "finalize" /\ AllDone

CountInv == CountTypes /\ ProgressInv /\ SavedInv /\ CompletedInv

LEMMA CountInvInit == MissionInit => CountInv
BY RouteLength
   DEF MissionInit, Init, CountInv, CountTypes, ProgressInv, SavedInv, CompletedInv, MissionPc,
       MissionStatus, Between, Ended

\* A step that leaves the executor and the run alone.
LEMMA CountInvKept ==
    ASSUME CountInv, StatusKept,
           UNCHANGED <<mission_pc, step, final_status, steps_executed, active_run, checkpoints>>,
           start_pc' = "begin" => start_pc = "begin"
    PROVE  CountInv'
BY DEF StatusKept, CountInv, CountTypes, ProgressInv, SavedInv, CompletedInv, AllDone, Between, Ended

\* Where the executor may go on, given where it is in the route.
MayGoTo(next) ==
    /\ next \in MissionPc \ {"none", "ready"}
    /\ next \notin Between => step <= Len(Route)
    /\ next = "mark" => step = 1
    /\ next = "blocked" => mission_status \in TerminalStatus
    /\ next = "wrapup" => AllDone \/ mission_status \in TerminalStatus
    /\ next = "complete" => AllDone
    /\ next \in {"checkpoint", "capture"} => Route[step] = "checkpoint"
    /\ next \in {"stand_up", "standing", "settle", "settle_left", "move", "submit", "blocked",
                "moved", "stop"} => Route[step] # "checkpoint"
    /\ next \notin Ended => checkpoints = SavedBy(IF next = "stepped" THEN step ELSE step - 1)

LEMMA GoesOn ==
    ASSUME CountInv, StatusKept, mission_pc \notin {"none", "final", "finalize"},
           NEW next, MayGoTo(next), Proceed(next),
           UNCHANGED <<steps_executed, active_run, checkpoints>>
    PROVE  CountInv'
<1> USE DEF CountInv, Proceed, MayGoTo
<1>1. mission_pc' = next /\ UNCHANGED <<step, final_status, start_pc>>
  OBVIOUS
<1>2. CountTypes'
  BY <1>1 DEF CountTypes
<1>3. ProgressInv'
  BY <1>1 DEF ProgressInv, AllDone, StatusKept
<1>4. SavedInv'
  BY <1>1 DEF SavedInv
<1>5. CompletedInv'
  BY <1>1 DEF CompletedInv, StatusKept
<1> QED BY <1>2, <1>3, <1>4, <1>5

LEMMA BlockedHasEnded ==
    ASSUME EndInv, Blocked, mission_pc # "none" PROVE mission_status \in TerminalStatus
BY DEF EndInv, Blocked

\* A step of the route that is not a checkpoint adds none.
LEMMA NoneSaved ==
    ASSUME CountTypes, step <= Len(Route), Route[step] # "checkpoint",
           checkpoints = SavedBy(step - 1)
    PROVE  checkpoints = SavedBy(step)
<1>1. step \in Nat \ {0}
  BY RouteLength DEF CountTypes
<1> QED BY <1>1, SavedByNext

LEMMA CountBegins ==
    ASSUME CountInv, EndInv, Ready \/ Mark \/ NextStep, StatusKept
    PROVE  CountInv'
<1> USE DEF CountInv, runVars
<1>1. CASE Ready
  <2>1. PICK next \in {"mark", "failing"} : Proceed(next)
    BY <1>1 DEF Ready
  <2>2. MayGoTo(next) /\ mission_pc = "ready"
    BY <1>1 DEF Ready, MayGoTo, MissionPc, Between, Ended, ProgressInv, SavedInv
  <2> QED BY <1>1, <2>1, <2>2, GoesOn DEF Ready
<1>2. CASE Mark
  <2>1. MayGoTo("gate") /\ mission_pc = "mark"
    BY <1>2 DEF Mark, MayGoTo, MissionPc, Between, Ended, ProgressInv, SavedInv
  <2> QED BY <1>2, <2>1, GoesOn DEF Mark
<1>3. CASE NextStep
  <2>1. mission_pc = "gate" /\ UNCHANGED <<steps_executed, active_run, checkpoints>>
    BY <1>3 DEF NextStep, EnterStep
  <2>2. /\ checkpoints = SavedBy(step - 1) /\ steps_executed = step - 1
        /\ step \in 1 .. Len(Route) + 1
    BY <2>1 DEF SavedInv, ProgressInv, Ended, CountTypes
  <2>3. CASE step > Len(Route) /\ EnterStep("wrapup")
    <3>1. AllDone
      BY <2>2, <2>3, RouteLength DEF AllDone
    <3>2. MayGoTo("wrapup")
      BY <3>1 DEF MayGoTo, MissionPc, Between, Ended
    <3> QED BY <2>1, <2>3, <3>2, GoesOn DEF EnterStep
  <2>4. CASE Blocked /\ EnterStep("wrapup")
    <3>1. MayGoTo("wrapup")
      BY <2>1, <2>4, BlockedHasEnded DEF MayGoTo, MissionPc, Between, Ended
    <3> QED BY <2>1, <2>4, <3>1, GoesOn DEF EnterStep
  <2>5. CASE /\ step <= Len(Route)
             /\ EnterStep(IF Route[step] = "wait" THEN "rest" ELSE Route[step])
    <3> DEFINE next == IF Route[step] = "wait" THEN "rest" ELSE Route[step]
    <3>1. Route[step] \in StepType
      BY <2>2, <2>5, RouteLength, MissionAssumption
    <3>2. /\ next \in {"stand_up", "move", "rest", "checkpoint", "stop"}
          /\ Route[step] = "checkpoint" <=> next = "checkpoint"
      BY <3>1 DEF StepType
    <3> HIDE DEF next
    <3>3. MayGoTo(next)
      BY <2>2, <2>5, <3>2 DEF MayGoTo, MissionPc, Between, Ended
    <3> QED BY <2>1, <2>5, <3>3, GoesOn DEF EnterStep, next
  <2> QED BY <1>3, <2>3, <2>4, <2>5 DEF NextStep
<1> QED BY <1>1, <1>2, <1>3

LEMMA CountInStep ==
    ASSUME CountInv, EndInv, StandStep \/ MoveGate \/ MoveSubmit \/ MoveBlocked \/ MoveDone \/ StopStep,
           StatusKept
    PROVE  CountInv'
<1> USE DEF CountInv, runVars
<1>1. /\ mission_pc \in {"stand_up", "standing", "settle", "settle_left", "move", "submit", "blocked",
                        "moved", "stop"}
      /\ UNCHANGED <<steps_executed, active_run, checkpoints>>
  BY DEF StandStep, MoveGate, MoveSubmit, MoveBlocked, MoveDone, StopStep
<1>2. /\ step <= Len(Route) /\ Route[step] # "checkpoint" /\ checkpoints = SavedBy(step - 1)
  BY <1>1 DEF ProgressInv, SavedInv, Between, Ended
<1>3. checkpoints = SavedBy(step)
  BY <1>2, NoneSaved
<1>4. PICK next \in {"standing", "settle", "settle_left", "stepped", "failing", "wrapup", "move",
                    "moved", "blocked", "submit"} :
         /\ Proceed(next)
         /\ next \in {"wrapup", "blocked"} => Blocked \/ mission_pc = "blocked"
  <2>1. CASE StandStep
    BY <2>1 DEF StandStep
  <2>2. CASE MoveGate
    BY <2>2 DEF MoveGate
  <2>3. CASE MoveSubmit \/ MoveBlocked \/ MoveDone \/ StopStep
    BY <2>3 DEF MoveSubmit, MoveBlocked, MoveDone, StopStep
  <2> QED BY <2>1, <2>2, <2>3
<1>5. next \in {"wrapup", "blocked"} => mission_status \in TerminalStatus
  BY <1>1, <1>4, BlockedHasEnded DEF ProgressInv
<1>6. MayGoTo(next)
  BY <1>2, <1>3, <1>5 DEF MayGoTo, MissionPc, Between, Ended
<1> QED BY <1>1, <1>4, <1>6, GoesOn

LEMMA CountRests ==
    ASSUME RunInv, CountInv, EndInv, Rest \/ CheckpointStep, StatusKept
    PROVE  CountInv'
<1> USE DEF CountInv, runVars
<1>1. /\ mission_pc \in {"rest", "checkpoint", "capture"}
      /\ step \in Nat \ {0} /\ step <= Len(Route) /\ checkpoints = SavedBy(step - 1) /\ active_run # 0
  <2>1. mission_pc \in {"rest", "checkpoint", "capture"}
    BY DEF Rest, CheckpointStep
  <2> QED BY <2>1, RouteLength DEF CountTypes, ProgressInv, SavedInv, Between, Ended
<1>2. CASE Rest
  <2>1. CASE Proceed("capture") /\ Route[step] = "checkpoint"
    <3>1. MayGoTo("capture")
      BY <1>1, <2>1 DEF MayGoTo, MissionPc, Between, Ended
    <3> QED BY <1>1, <1>2, <2>1, <3>1, GoesOn DEF Rest
  <2>2. CASE Proceed("stepped") /\ Route[step] # "checkpoint"
    <3>1. checkpoints = SavedBy(step)
      BY <1>1, <2>2, NoneSaved
    <3>2. MayGoTo("stepped")
      BY <1>1, <2>2, <3>1 DEF MayGoTo, MissionPc, Between, Ended
    <3> QED BY <1>1, <1>2, <2>2, <3>2, GoesOn DEF Rest
  <2>3. CASE Proceed("wrapup") /\ Blocked
    <3>1. MayGoTo("wrapup")
      BY <1>1, <2>3, BlockedHasEnded DEF MayGoTo, MissionPc, Between, Ended
    <3> QED BY <1>1, <1>2, <2>3, <3>1, GoesOn DEF Rest
  <2>4. CASE Proceed("rest")
    <3>1. MayGoTo("rest")
      BY <1>1, <2>4 DEF MayGoTo, MissionPc, Between, Ended
    <3> QED BY <1>1, <1>2, <2>4, <3>1, GoesOn DEF Rest
  <2> QED BY <1>2, <2>1, <2>2, <2>3, <2>4 DEF Rest
<1>3. CASE CheckpointStep
  <2>1. CASE Proceed("rest") /\ UNCHANGED runVars
    <3>1. MayGoTo("rest")
      BY <1>1 DEF MayGoTo, MissionPc, Between, Ended
    <3> QED BY <1>1, <2>1, <3>1, GoesOn
  <2>2. CASE Proceed("failing") /\ UNCHANGED <<steps_executed, active_run, checkpoints>>
    <3>1. MayGoTo("failing")
      BY <1>1 DEF MayGoTo, MissionPc, Between, Ended
    <3> QED BY <1>1, <2>2, <3>1, GoesOn
  <2>3. CASE /\ mission_pc = "capture" /\ Proceed("stepped")
             /\ checkpoints' = IF active_run # 0 THEN checkpoints + 1 ELSE checkpoints
             /\ UNCHANGED <<steps_executed, active_run>>
    <3>1. Route[step] = "checkpoint"
      BY <2>3 DEF SavedInv
    <3>2. checkpoints' = SavedBy(step) /\ SavedBy(step) \in 0 .. step
      BY <1>1, <2>3, <3>1, SavedByNext, SavedByTyped
    <3>3. mission_pc' = "stepped" /\ UNCHANGED <<step, final_status, start_pc>>
      BY <2>3 DEF Proceed
    <3>4. mission_status' # "COMPLETED" /\ final_status # "COMPLETED"
      BY <2>3 DEF CompletedInv, StatusKept
    <3>5. CountTypes'
      <4>1. checkpoints' \in 0 .. Len(Route)
        BY <1>1, <3>2, RouteLength
      <4> QED BY <2>3, <3>3, <4>1 DEF CountTypes, MissionPc
    <3>6. ProgressInv'
      BY <1>1, <2>3, <3>3 DEF ProgressInv
    <3>7. SavedInv'
      BY <2>3, <3>2, <3>3 DEF SavedInv, RunInv
    <3> QED BY <3>3, <3>4, <3>5, <3>6, <3>7 DEF CompletedInv
  <2> QED BY <1>3, <2>1, <2>2, <2>3 DEF CheckpointStep
<1> QED BY <1>2, <1>3

LEMMA CountStepped == ASSUME CountInv, Stepped PROVE CountInv'
<1> USE DEF CountInv
<1>1. /\ mission_pc = "stepped" /\ mission_pc' = "gate" /\ step' = step + 1
      /\ steps_executed' = steps_executed + 1 /\ Quiet
      /\ UNCHANGED <<final_status, start_pc, active_run, checkpoints>>
  BY DEF Stepped
<1>2. /\ step \in Nat \ {0} /\ step <= Len(Route) /\ steps_executed = step - 1
      /\ checkpoints = SavedBy(step) /\ active_run # 0
  BY <1>1, RouteLength DEF CountTypes, ProgressInv, SavedInv, Between, Ended
<1>3. step' - 1 = step
  BY <1>1, <1>2
<1>4. UNCHANGED mission_status
  BY <1>1 DEF Quiet, controlVars, modeVars
<1>5. CountTypes'
  BY <1>1, <1>2, RouteLength DEF CountTypes, MissionPc
<1>6. ProgressInv'
  BY <1>1, <1>2, <1>3 DEF ProgressInv, Between
<1>7. SavedInv'
  BY <1>1, <1>2, <1>3 DEF SavedInv
<1>8. CompletedInv'
  BY <1>1, <1>4 DEF CompletedInv
<1> QED BY <1>5, <1>6, <1>7, <1>8

LEMMA CountEnds ==
    ASSUME TypeOK, RunInv, CountInv, Ending \/ Final,
           \/ StatusKept
           \/ /\ mission_pc = "complete" /\ mission_pc' = "final"
              /\ CompleteMission(Executor) /\ UNCHANGED <<step, final_status, runVars, start_pc>>
    PROVE  CountInv'
<1> USE DEF CountInv
<1>1. CASE Ending /\ StatusKept
  <2>1. PICK next \in {"complete", "final"} :
           Proceed(next) /\ UNCHANGED runVars /\ (next = "complete" => mission_status = "RUNNING")
    BY <1>1 DEF Ending
  <2>2. mission_pc \in {"wrapup", "complete", "failing"} /\ (next = "complete" => mission_pc = "wrapup")
    BY <1>1, <2>1 DEF Ending, Proceed
  <2>3. MayGoTo(next)
    BY <2>1, <2>2 DEF MayGoTo, MissionPc, Between, Ended, ProgressInv, TerminalStatus
  <2> QED BY <1>1, <2>1, <2>2, <2>3, GoesOn DEF runVars
<1>2. CASE /\ mission_pc = "complete" /\ mission_pc' = "final"
           /\ CompleteMission(Executor) /\ UNCHANGED <<step, final_status, runVars, start_pc>>
  <2>1. AllDone /\ active_run # 0 /\ steps_executed = step - 1 /\ AllDone'
    BY <1>2 DEF ProgressInv, AllDone, runVars
  <2>2. CountTypes'
    BY <1>2 DEF CountTypes, MissionPc, runVars
  <2>3. ProgressInv' /\ SavedInv'
    BY <1>2, <2>1 DEF ProgressInv, SavedInv, Between, Ended, runVars
  <2>4. CompletedInv'
    BY <1>2, <2>1 DEF CompletedInv
  <2> QED BY <2>2, <2>3, <2>4
<1>3. CASE Final
  <2>1. CASE mission_pc = "final"
    <3>1. /\ mission_pc' = "finalize" /\ final_status' = mission_status /\ mission_status \in MissionStatus
          /\ UNCHANGED <<step, start_pc, runVars, mission_status>>
      BY <1>3, <2>1 DEF Final, Quiet, controlVars, modeVars, TypeOK, ModeTypeOK
    <3>2. CountTypes'
      BY <3>1 DEF CountTypes, MissionPc, runVars
    <3>3. ProgressInv' /\ SavedInv'
      BY <2>1, <3>1 DEF ProgressInv, SavedInv, Between, Ended, runVars
    <3>4. CompletedInv'
      BY <2>1, <3>1 DEF CompletedInv, AllDone, runVars
    <3> QED BY <3>2, <3>3, <3>4
  <2>2. CASE mission_pc = "finalize"
    <3>1. /\ mission_pc' = "none" /\ final_status' = "IDLE" /\ step' = 1
          /\ UNCHANGED <<start_pc, steps_executed, checkpoints>> /\ active_run' \in {0, active_run}
      BY <1>3, <2>2 DEF Final
    <3>2. CountTypes'
      BY <3>1, RouteLength DEF CountTypes, MissionPc, MissionStatus
    <3>3. start_pc # "begin"
      BY <2>2 DEF RunInv
    <3>4. ProgressInv' /\ SavedInv' /\ CompletedInv'
      BY <3>1, <3>3 DEF ProgressInv, SavedInv, CompletedInv, Between, Ended
    <3> QED BY <3>2, <3>4
  <2> QED BY <1>3, <2>1, <2>2 DEF Final
<1> QED BY <1>1, <1>2, <1>3

LEMMA CountInvStep ==
    ASSUME "enter" \notin Faults, TypeOK, RunInv, EndInv, CountInv, [MissionNext]_vars
    PROVE  CountInv'
<1>0. NoUndo
  BY DEF EndInv, NoUndo
<1>1. CASE Execute
  <2>1. /\ UNCHANGED start_pc
        /\ \/ StatusKept
           \/ /\ mission_pc = "complete" /\ mission_pc' = "final"
              /\ CompleteMission(Executor) /\ UNCHANGED <<step, final_status, runVars>>
    BY <1>0, <1>1, ExecuteKeepsStatus
  <2>2. CASE Ending \/ Final
    BY <2>1, <2>2, CountEnds
  <2>3. CASE Stepped
    BY <2>3, CountStepped
  <2>4. CASE ~(Ending \/ Final \/ Stepped)
    <3>1. mission_pc # "complete"
      BY <1>1, <2>4 DEF Execute, Ready, Mark, NextStep, StandStep, MoveGate, MoveSubmit,
                        MoveBlocked, MoveDone, Rest, CheckpointStep, StopStep
    <3>2. StatusKept
      BY <2>1, <3>1
    <3> QED BY <1>1, <2>4, <3>2, CountBegins, CountInStep, CountRests DEF Execute
  <2> QED BY <2>2, <2>3, <2>4
<1>2. ASSUME NEW c \in Callers, Operator(c) PROVE CountInv'
  BY <1>0, <1>2, CallKeepsStatus, CountInvKept DEF Operator, missionVars, executorVars, runVars
<1>3. ASSUME NEW c \in Callers \ {Executor}, ShutdownMission(c) \/ ShutdownControl(c)
      PROVE  CountInv'
  <2>1. UNCHANGED <<executorVars, start_pc, runVars>>
    BY <1>3 DEF ShutdownMission, ShutdownControl, missionVars
  <2>2. Quiet \/ AbortMission(c) \/ Shutdown(c)
    BY <1>3 DEF ShutdownMission, ShutdownControl
  <2>3. StatusKept
    BY <1>0, <2>2, CallKeepsStatus DEF Quiet, controlVars, modeVars, StatusKept
  <2> QED BY <2>1, <2>3, CountInvKept DEF executorVars, runVars
<1>4. CASE StartCheck
  <2>1. StatusKept /\ UNCHANGED <<executorVars, runVars>> /\ start_pc' = "run"
    BY <1>4 DEF StartCheck, controlVars, modeVars, StatusKept
  <2> QED BY <2>1, CountInvKept DEF executorVars, runVars
<1>5. CASE StartRun
  <2>1. mission_pc = "none" /\ UNCHANGED <<executorVars, mission_status, steps_executed>>
    BY <1>5 DEF StartRun, RunInv, controlVars, modeVars
  <2>2. \/ UNCHANGED <<active_run, checkpoints>> /\ start_pc' = "free"
        \/ active_run' = runs + 1 /\ checkpoints' = 0
    BY <1>5 DEF StartRun
  <2>3. runs + 1 # 0
    BY MissionAssumption DEF RunInv
  <2>4. final_status # "COMPLETED"
    BY <2>1 DEF CountInv, CompletedInv
  <2>5. CountTypes'
    BY <2>1, <2>2, RouteLength DEF CountInv, CountTypes, executorVars
  <2> QED BY <2>1, <2>2, <2>3, <2>4, <2>5
          DEF CountInv, ProgressInv, SavedInv, CompletedInv, executorVars, Between, Ended
<1>6. CASE StartBegin
  <2>1. /\ start_pc = "begin" /\ start_pc' = "free" /\ mission_pc = "none"
        /\ UNCHANGED <<active_run, checkpoints>>
    BY <1>6 DEF StartBegin, RunInv
  <2>2. CASE BeginMission(Executor) /\ mission_pc' = "ready"
    <3>1. /\ mission_status' = "STARTING" /\ step' = 1 /\ steps_executed' = 0
          /\ UNCHANGED final_status
      BY <1>6, <2>1, <2>2 DEF StartBegin, BeginMission, SetStatus, executorVars
    <3>2. active_run # 0 /\ checkpoints = SavedBy(step' - 1)
      BY <2>1, <3>1, SavedByNone DEF CountInv, SavedInv
    <3>3. final_status # "COMPLETED"
      BY <2>1 DEF CountInv, CompletedInv
    <3>4. CountTypes'
      BY <2>1, <2>2, <3>1, RouteLength DEF CountInv, CountTypes, MissionPc
    <3> QED BY <2>1, <2>2, <3>1, <3>2, <3>3, <3>4
            DEF CountInv, ProgressInv, SavedInv, CompletedInv, Between
  <2>3. CASE UNCHANGED <<controlVars, executorVars, mission_id, steps_executed>>
    <3>1. StatusKept
      BY <2>3 DEF controlVars, modeVars, StatusKept
    <3> QED BY <2>1, <2>3, <3>1, CountInvKept DEF executorVars
  <2> QED BY <1>6, <2>2, <2>3 DEF StartBegin
<1>7. CASE UNCHANGED vars \/ (Background /\ UNCHANGED missionVars)
  <2>1. UNCHANGED <<modeVars, missionVars>>
    BY <1>7, BackgroundKeepsStatus DEF vars, controlVars
  <2>2. StatusKept
    BY <2>1 DEF modeVars, StatusKept
  <2> QED BY <2>1, <2>2, CountInvKept DEF missionVars, executorVars, runVars
<1> QED BY <1>1, <1>2, <1>3, <1>4, <1>5, <1>6, <1>7 DEF MissionNext, StartRoute

\* What the last step of an executor writes down.
LEMMA ReportedStep ==
    ASSUME RunInv, CountInv, [MissionNext]_vars, NEW r \in 1 .. MaxRuns, reports'[r] # reports[r]
    PROVE  /\ reports'[r] = [status |-> final_status, steps |-> steps_executed,
                             checkpoints |-> checkpoints]
           /\ mission_pc = "finalize"
<1>1. Final /\ mission_pc = "finalize" /\ active_run # 0
      /\ reports' = [reports EXCEPT ![active_run] =
             [status |-> final_status, steps |-> steps_executed, checkpoints |-> checkpoints]]
  <2>1. ~UNCHANGED reports
    OBVIOUS
  <2>2. Execute
    BY <2>1 DEF MissionNext, Operator, ShutdownMission, ShutdownControl, StartRoute, StartCheck,
                StartRun, StartBegin, vars, missionVars, runVars
  <2>3. Final
    BY <2>1, <2>2
       DEF Execute, Ready, Mark, NextStep, EnterStep, StandStep, MoveGate, MoveSubmit,
           MoveBlocked, MoveDone, Rest, CheckpointStep, StopStep, Stepped, Ending, runVars
  <2> QED BY <2>1, <2>3 DEF Final, runVars
<1> QED BY <1>1 DEF RunInv

MissionInv == RunInv /\ EndInv /\ CountInv /\ CompletedMeansAllSteps

LEMMA CompletedStep ==
    ASSUME RunInv, CountInv, CompletedMeansAllSteps, [MissionNext]_vars
    PROVE  CompletedMeansAllSteps'
<1> SUFFICES ASSUME NEW r \in 1 .. MaxRuns, reports'[r].status = "COMPLETED"
             PROVE  /\ reports'[r].steps = Len(Route)
                    /\ reports'[r].checkpoints = CheckpointsOf(Route)
  BY DEF CompletedMeansAllSteps
<1>1. CASE reports'[r] = reports[r]
  BY <1>1 DEF CompletedMeansAllSteps
<1>2. CASE reports'[r] # reports[r]
  <2>1. AllDone
    BY <1>2, ReportedStep DEF CountInv, CompletedInv
  <2>2. CheckpointsOf(Route) = SavedBy(Len(Route))
    BY RouteLength DEF CheckpointsOf, SavedBy, CheckpointsIn
  <2> QED BY <1>2, <2>1, <2>2, ReportedStep DEF AllDone
<1> QED BY <1>1, <1>2

LEMMA MissionInvCorrect ==
    ASSUME "enter" \notin Faults
    PROVE  MissionSpec => []MissionInv
<1>1. MissionInit => MissionInv
  BY RunInvInit, EndInvInit, CountInvInit DEF MissionInv, MissionInit, NoReport, CompletedMeansAllSteps
<1>2. TypeOK /\ MissionInv /\ [MissionNext]_vars => MissionInv'
  BY RunStep, EndInvStep, CountInvStep, CompletedStep DEF MissionInv
<1> QED BY <1>1, <1>2, MissionTypes, PTL DEF MissionSpec

\* A report that says COMPLETED is of a run in which every step of the route was
\* executed and every checkpoint saved, whatever pauses, takeovers, aborts,
\* emergencies and shutdowns came between (_run_mission, complete_mission,
\* finalize_run), for every route and however many steps and runs it has.
THEOREM CompletedMeansAllStepsCorrect ==
    ASSUME "enter" \notin Faults
    PROVE  MissionSpec => []CompletedMeansAllSteps
<1>1. MissionInv => CompletedMeansAllSteps
  BY DEF MissionInv
<1> QED BY <1>1, MissionInvCorrect, PTL
=============================================================================
