---------------------------- MODULE MissionManager ----------------------------
(***************************************************************************)
(* MissionManager of src/mission.py with the run that StorageManager of    *)
(* src/storage.py keeps for it, composed with ControlCore: start_route,    *)
(* the mission-executor thread, and the shutdown of the application.       *)
(*                                                                         *)
(* mission_pc says where the executor is; every step of it is one call of  *)
(* ControlCore, of the adapter or of the storage, and between two of them  *)
(* the operators, the control loop and the watchdog do what they like.     *)
(***************************************************************************)
EXTENDS ControlCore, Sequences, FiniteSets

CONSTANTS
    Executor,   \* the mission-executor thread, one of Callers
    Route,      \* the steps of the route: their types
    Chunks,     \* 50 ms chunks in the duration of a step
    MaxRuns     \* bound: runs started

\* "move" stands for move_velocity and rotate too, "wait" for settle
StepType == {"stand_up", "move", "wait", "checkpoint", "stop"}

ASSUME MissionAssumption ==
    /\ Executor \in Callers
    /\ Route \in Seq(StepType)
    /\ Chunks \in Nat \ {0}
    /\ MaxRuns \in Nat \ {0}

MissionPc == {"none", "ready", "mark", "gate", "stand_up", "standing", "settle",
              "settle_left", "move", "submit", "blocked", "moved", "checkpoint",
              "rest", "capture", "stop", "stepped", "wrapup", "complete", "failing",
              "final", "finalize"}

VARIABLES
    mission_pc,       \* where _run_mission is, "none" while no executor runs
    step,             \* index of the step in Route
    remaining,        \* chunks left of a step with a duration
    final_status,     \* final_state.mission_status of the finally clause
    start_pc,         \* where start_route is: "free" (_lock is free), "run", "begin"
    mission_id,       \* ControlCore.mission_id: number of the run
    steps_executed,   \* ControlCore.steps_executed
    runs,             \* runs started
    active_run,       \* StorageManager._active_run, 0 when None
    checkpoints,      \* checkpoints saved in the active run
    reports,          \* final_report.json of every run
    closing           \* the application is shutting down

executorVars == <<mission_pc, step, remaining, final_status>>
runVars == <<mission_id, steps_executed, runs, active_run, checkpoints, reports>>
missionVars == <<executorVars, start_pc, runVars, closing>>
vars == <<controlVars, missionVars>>

NoReport == [status |-> "STARTING", steps |-> 0, checkpoints |-> 0]

MissionTypeOK ==
    /\ TypeOK
    /\ mission_pc \in MissionPc
    /\ step \in 1 .. Len(Route) + 1
    /\ remaining \in 0 .. Chunks
    /\ final_status \in MissionStatus
    /\ start_pc \in {"free", "run", "begin"}
    /\ mission_id \in 0 .. MaxRuns
    /\ steps_executed \in 0 .. Len(Route)
    /\ runs \in 0 .. MaxRuns
    /\ active_run \in 0 .. runs
    /\ checkpoints \in 0 .. Len(Route)
    /\ reports \in [1 .. MaxRuns -> [status : MissionStatus, steps : 0 .. Len(Route),
                                     checkpoints : 0 .. Len(Route)]]
    /\ closing \in BOOLEAN

MissionInit ==
    /\ Init
    /\ mission_pc = "none"
    /\ step = 1
    /\ remaining = 0
    /\ final_status = "IDLE"
    /\ start_pc = "free"
    /\ mission_id = 0
    /\ steps_executed = 0
    /\ runs = 0
    /\ active_run = 0
    /\ checkpoints = 0
    /\ reports = [r \in 1 .. MaxRuns |-> NoReport]
    /\ closing = FALSE
-----------------------------------------------------------------------------
(* start_route, by a request that holds MissionManager._lock                *)

\* no executor is alive and ControlCore says a mission can start ...
StartCheck ==
    /\ start_pc = "free" /\ mission_pc = "none" /\ ~closing
    /\ runs < MaxRuns
    /\ CanStartMission
    /\ start_pc' = "run"
    /\ UNCHANGED <<controlVars, executorVars, runVars, closing>>

\* Mutant of StartRun: the runs of a route share an identifier
StartRunSameId ==
    /\ start_pc = "run"
    /\ \/ active_run # 0 /\ start_pc' = "free" /\ UNCHANGED <<runs, active_run, checkpoints>>
       \/ /\ active_run = 0
          /\ runs' = runs + 1
          /\ active_run' = 1
          /\ checkpoints' = 0
          /\ start_pc' = "begin"
    /\ UNCHANGED <<controlVars, executorVars, mission_id, steps_executed, reports, closing>>

\* ... start_run opens a run, unless one is active; a failing write of
\* mission_meta.json raises after _active_run is set ...
StartRun ==
    /\ start_pc = "run"
    /\ \/ /\ active_run # 0
          /\ start_pc' = "free"
          /\ UNCHANGED <<runs, active_run, checkpoints>>
       \/ /\ active_run = 0
          /\ runs' = runs + 1
          /\ active_run' = runs + 1
          /\ checkpoints' = 0
          /\ \/ start_pc' = "begin"
             \/ "write" \in Faults /\ start_pc' = "free"
    /\ UNCHANGED <<controlVars, executorVars, mission_id, steps_executed, reports, closing>>

\* ... and begin_mission looks at the state again: it raises, or the executor
\* is started
StartBegin ==
    /\ start_pc = "begin"
    /\ start_pc' = "free"
    /\ \/ /\ BeginMission(Executor)
          /\ mission_id' = active_run
          /\ steps_executed' = 0
          /\ mission_pc' = "ready"
          /\ step' = 1
          /\ UNCHANGED <<remaining, final_status>>
       \/ /\ ~CanStartMission
          /\ UNCHANGED <<controlVars, executorVars, mission_id, steps_executed>>
    /\ UNCHANGED <<runs, active_run, checkpoints, reports, closing>>

StartRoute == StartCheck \/ StartRun \/ StartBegin
-----------------------------------------------------------------------------
(* The mission-executor thread                                              *)

\* the executor goes on at the point next
Proceed(next) ==
    /\ mission_pc' = next
    /\ UNCHANGED <<step, final_status, start_pc, closing>>

\* a call that changes nothing of ControlCore
Quiet == UNCHANGED controlVars

\* adapter.ensure_motion_ready(): the mock raises while it cannot move,
\* Go2RobotAdapter does not have the method
Ready ==
    /\ mission_pc = "ready"
    /\ Proceed(IF ~Hardware /\ can_move THEN "mark" ELSE "failing")
    /\ Quiet /\ UNCHANGED <<remaining, runVars>>

Mark ==
    /\ mission_pc = "mark"
    /\ Proceed("gate")
    /\ IF mission_status = "STARTING" THEN MarkRunning(Executor) ELSE Quiet
    /\ UNCHANGED <<remaining, runVars>>

\* the head of the loop over the steps: the first call of the step is next
EnterStep(entry) ==
    /\ Proceed(entry)
    /\ remaining' = IF entry \in {"move", "rest"} THEN Chunks ELSE 0
    /\ Quiet /\ UNCHANGED runVars

NextStep ==
    /\ mission_pc = "gate"
    /\ \/ step > Len(Route) /\ EnterStep("wrapup")
       \/ step <= Len(Route) /\ Blocked /\ EnterStep("wrapup")
       \/ /\ step <= Len(Route) /\ Runnable
          /\ EnterStep(IF Route[step] = "wait" THEN "rest" ELSE Route[step])

\* stand_up() of ControlCore, then wait_for_settle()
StandStep ==
    \/ /\ mission_pc = "stand_up"
       /\ IF estop_latched THEN Proceed("failing") /\ Quiet
                           ELSE Proceed("standing") /\ StandUp(Executor)
       /\ UNCHANGED <<remaining, runVars>>
    \/ /\ mission_pc = "standing"
       /\ \/ StandUpCall(Executor)
             /\ Proceed(IF op'[Executor] = "idle" THEN "failing" ELSE "standing")
          \/ StandUpApply(Executor) /\ Proceed("settle")
       /\ UNCHANGED <<remaining, runVars>>
    \/ /\ mission_pc = "settle"
       /\ \/ Blocked /\ Proceed("wrapup")
          \/ Runnable /\ Proceed("settle_left")
       /\ Quiet /\ UNCHANGED <<remaining, runVars>>
    \/ /\ mission_pc = "settle_left"
       /\ Proceed(IF settling = "no" THEN "stepped" ELSE "settle")
       /\ Quiet /\ UNCHANGED <<remaining, runVars>>

\* _execute_motion: the gate of a chunk ...
MoveGate ==
    /\ mission_pc = "move"
    /\ \/ remaining = 0 /\ Proceed("moved")
       \/ remaining > 0 /\ Blocked /\ Proceed("blocked")
       \/ remaining > 0 /\ Runnable /\ Proceed("submit")
    /\ Quiet /\ UNCHANGED <<remaining, runVars>>

\* Mutant of MoveSubmit: the target is set without submit()
MoveSubmitDirect ==
    /\ mission_pc = "submit"
    /\ auto_target' = MaxV
    /\ Proceed("move")
    /\ remaining' = remaining - 1
    /\ UNCHANGED <<modeVars, stop_event, manual_target, current_velocity, last_sent,
                   explicit_stop, stop_sent, settling, teleopVars, watchdog_pc, loopVars,
                   callVars, adapterVars, runVars>>

\* Mutant of MoveSubmit: a rejected command is submitted again
MoveSubmitRetries ==
    /\ mission_pc = "submit"
    /\ \/ Submit(Executor, "AUTO", MaxV) /\ remaining' = remaining - 1
       \/ RejectLatched(Executor) /\ UNCHANGED remaining
       \/ /\ ~estop_latched /\ ~(CanAccept("AUTO") /\ AdapterCanMove)
          /\ Quiet /\ UNCHANGED remaining
    /\ Proceed("move")
    /\ UNCHANGED runVars

\* ... its submit(), whose answer is ignored ...
MoveSubmit ==
    /\ mission_pc = "submit"
    /\ \/ Submit(Executor, "AUTO", MaxV)
       \/ RejectLatched(Executor)
       \/ ~estop_latched /\ ~(CanAccept("AUTO") /\ AdapterCanMove) /\ Quiet
    /\ Proceed("move")
    /\ remaining' = remaining - 1
    /\ UNCHANGED runVars

\* Mutant of MoveBlocked: the step is left without stop_motion()
MoveBlockedNoStop ==
    /\ mission_pc = "blocked"
    /\ Quiet
    /\ Proceed("wrapup")
    /\ remaining' = 0
    /\ UNCHANGED runVars

\* Mutant of MoveBlocked: the target is cleared, the stop is not asked for
MoveBlockedTargetOnly ==
    /\ mission_pc = "blocked"
    /\ auto_target' = 0 /\ manual_target' = 0 /\ current_velocity' = 0 /\ last_sent' = 0
    /\ UNCHANGED <<explicit_stop, stop_sent, modeVars>>
    /\ MotionOnlyUnchanged
    /\ Proceed("wrapup")
    /\ remaining' = 0
    /\ UNCHANGED runVars

\* ... and stop_motion() ends the step either way
MoveBlocked ==
    /\ mission_pc = "blocked"
    /\ StopMotion(Executor)
    /\ Proceed("wrapup")
    /\ remaining' = 0
    /\ UNCHANGED runVars

MoveDone ==
    /\ mission_pc = "moved"
    /\ StopMotion(Executor)
    /\ Proceed("stepped")
    /\ UNCHANGED <<remaining, runVars>>

\* _sleep_with_checks, of a wait and of a checkpoint
Rest ==
    /\ mission_pc = "rest"
    /\ \/ /\ remaining = 0
          /\ Proceed(IF Route[step] = "checkpoint" THEN "capture" ELSE "stepped")
          /\ UNCHANGED remaining
       \/ /\ remaining > 0 /\ Blocked
          /\ Proceed("wrapup")
          /\ remaining' = 0
       \/ /\ remaining > 0 /\ Runnable
          /\ Proceed("rest")
          /\ remaining' = remaining - 1
    /\ Quiet /\ UNCHANGED runVars

\* _handle_checkpoint: the frame, its analysis or save_checkpoint may raise
CheckpointStep ==
    \/ /\ mission_pc = "checkpoint"
       /\ StopMotion(Executor)
       /\ Proceed("rest")
       /\ remaining' = Chunks
       /\ UNCHANGED runVars
    \/ /\ mission_pc = "capture"
       /\ \/ /\ Proceed("stepped")
             /\ checkpoints' = IF active_run # 0 THEN checkpoints + 1 ELSE checkpoints
          \/ "checkpoint" \in Faults /\ Proceed("failing") /\ UNCHANGED checkpoints
       /\ Quiet
       /\ UNCHANGED <<remaining, mission_id, steps_executed, runs, active_run, reports>>

StopStep ==
    /\ mission_pc = "stop"
    /\ StopMotion(Executor)
    /\ Proceed("stepped")
    /\ UNCHANGED <<remaining, runVars>>

\* mark_step_completed()
Stepped ==
    /\ mission_pc = "stepped"
    /\ mission_pc' = "gate"
    /\ step' = step + 1
    /\ steps_executed' = steps_executed + 1
    /\ Quiet
    /\ UNCHANGED <<remaining, final_status, start_pc, closing, mission_id, runs, active_run,
                   checkpoints, reports>>

\* after the loop: the status is read, and complete_mission() called if it
\* was RUNNING; fail_mission() when something raised
Ending ==
    \/ /\ mission_pc = "wrapup"
       /\ Proceed(IF mission_status = "RUNNING" THEN "complete" ELSE "final")
       /\ Quiet /\ UNCHANGED <<remaining, runVars>>
    \/ /\ mission_pc = "complete"
       /\ IF mission_status \in TerminalStatus THEN Quiet ELSE CompleteMission(Executor)
       /\ Proceed("final")
       /\ UNCHANGED <<remaining, runVars>>
    \/ /\ mission_pc = "failing"
       /\ FailMission(Executor)
       /\ Proceed("final")
       /\ UNCHANGED <<remaining, runVars>>

\* the finally clause: current() is read, then finalize_run() writes the report
\* and lets the run go; when the write fails the run stays active
Final ==
    \/ /\ mission_pc = "final"
       /\ mission_pc' = "finalize"
       /\ final_status' = mission_status
       /\ Quiet /\ UNCHANGED <<step, remaining, start_pc, runVars, closing>>
    \/ /\ mission_pc = "finalize"
       /\ mission_pc' = "none"
       /\ final_status' = "IDLE"
       /\ step' = 1
       /\ \/ /\ active_run # 0
             /\ reports' = [reports EXCEPT ![active_run] =
                   [status |-> final_status, steps |-> steps_executed,
                    checkpoints |-> checkpoints]]
             /\ active_run' = 0
          \/ (active_run = 0 \/ "write" \in Faults) /\ UNCHANGED <<reports, active_run>>
       /\ Quiet
       /\ UNCHANGED <<remaining, start_pc, closing, mission_id, steps_executed, runs, checkpoints>>

Execute ==
    \/ Ready \/ Mark \/ NextStep \/ StandStep \/ MoveGate \/ MoveSubmit \/ MoveBlocked
    \/ MoveDone \/ Rest \/ CheckpointStep
    \/ StopStep \/ Stepped \/ Ending \/ Final
-----------------------------------------------------------------------------
(* The end of the application: mission.shutdown(), then control.shutdown()  *)

\* shutdown() of MissionManager waits for _lock; requests have been drained
ShutdownMission(c) ==
    /\ ~closing
    /\ op[c] = "idle"
    /\ start_pc = "free"
    /\ closing' = TRUE
    /\ IF mission_pc # "none" /\ mission_status \notin TerminalStatus \cup {"IDLE"}
       THEN AbortMission(c) ELSE Quiet
    /\ UNCHANGED <<executorVars, start_pc, runVars>>

\* the executor is joined for at most 2 s
ShutdownControl(c) ==
    /\ closing
    /\ mission_pc = "none" \/ "slow_join" \in Faults
    /\ Shutdown(c)
    /\ UNCHANGED missionVars
-----------------------------------------------------------------------------
Operator(c) ==
    /\ c # Executor
    /\ \/ ~closing /\ OperatorCall(c)
       \/ (closing => stop_event) /\ "connection" \in Operations /\ Disconnect(c)
       \/ Continue(c)
    /\ UNCHANGED missionVars

MissionNext ==
    \/ \E c \in Callers : Operator(c)
    \/ \E c \in Callers \ {Executor} : ShutdownMission(c) \/ ShutdownControl(c)
    \/ StartRoute
    \/ Execute
    \/ Background /\ UNCHANGED missionVars

MissionSpec == MissionInit /\ [][MissionNext]_vars

\* The control loop and the calls run as in ControlFairness, the executor runs
\* while it is not waiting, and a start request that holds the lock finishes.
MissionFairness ==
    /\ WF_vars(ControlLoop /\ UNCHANGED missionVars)
    /\ WF_vars(SettleElapses /\ UNCHANGED missionVars)
    /\ WF_vars(Execute)
    /\ WF_vars(StartRun \/ StartBegin)
    /\ \A c \in Callers \ {Executor} : WF_vars(Continue(c) /\ UNCHANGED missionVars)

MissionFairSpec == MissionSpec /\ MissionFairness
-----------------------------------------------------------------------------
(* Properties                                                               *)

\* A report is written once, by the executor of its own mission: neither a
\* restart nor a start that failed half-way touches the report of another run
\* (start_route, start_run, finalize_run).
ReportsWrittenOnce ==
    [][\A r \in 1 .. MaxRuns :
           reports'[r] # reports[r] => r = mission_id /\ reports[r] = NoReport]_vars

\* No movement is left behind by an executor that has ended, however the
\* mission ended (stop_motion in _execute_motion against submit() after an
\* abort, fail_mission and complete_mission).
NoOrphanAutoTarget == mission_pc = "none" => auto_target = 0

\* where the executor is in a step with a movement, until its stop_motion()
Moving == {"move", "submit", "blocked", "moved"}

\* a release_manual() that has switched to AUTO and not yet stopped
Releasing == \E c \in Callers : op[c] \in {"release_exit", "release_undo", "release_stop"}

\* in AUTO, no mission is active and no movement or release still ends
MissionOver == mode = "AUTO" /\ ~MissionActive /\ mission_pc \notin Moving /\ ~Releasing

\* The stop that ends a mission is not lost: once it is over, completed, failed,
\* aborted or ended by an emergency that was reset, the robot stands or has a
\* StopMove coming.  A command submitted after the end withdraws the stop that was
\* asked for, and the stop_motion() that leaves its step asks again (abort_mission,
\* complete_mission, fail_mission, reset_estop against submit and _control_loop).
\* No stop is owed to a Go2 that a disconnection has left moving (see MayMove).
EndedMissionStopOwed == MissionOver /\ MayMove => StopOwed

CheckpointsOf(route) == Cardinality({i \in DOMAIN route : route[i] = "checkpoint"})

\* A report that says COMPLETED is of a run in which every step of the route
\* was executed and every checkpoint saved, whatever pauses, takeovers and
\* aborts came between (_run_mission, complete_mission, finalize_run).
CompletedMeansAllSteps ==
    \A r \in 1 .. MaxRuns :
        reports[r].status = "COMPLETED" =>
            /\ reports[r].steps = Len(Route)
            /\ reports[r].checkpoints = CheckpointsOf(Route)

\* The executor and MissionManager move the robot only through the methods of
\* ControlCore, one critical section at a time: whatever ControlCore guarantees
\* to any set of callers, it guarantees to this composition.
OnlyCallsControlCore == Spec

\* The executor comes to its end unless its mission is paused: no abort, ESTOP,
\* rejected command, damped robot or shutdown makes one of its loops wait for
\* something that does not come (_execute_motion, _sleep_with_checks,
\* wait_until_runnable, wait_for_settle).
MissionEndsUnlessPaused ==
    mission_pc # "none" ~> (mission_pc = "none" \/ mission_status = "PAUSED_MANUAL")

\* Aborting a mission stops the robot, even when the executor submits one more
\* movement after the abort: the robot comes to rest unless an operator takes
\* over, the next mission starts or the application ends (abort_mission,
\* _execute_motion, submit, _control_loop).
AbortedMissionStops ==
    mission_status = "ABORTED"
        ~> (robot_velocity = 0 \/ mission_status # "ABORTED" \/ mode # "AUTO" \/ closing)

\* While a mission is paused in AUTO, the robot comes to rest (pause_mission
\* asks for an explicit stop; the state machine says "mission is paused" and
\* blocks movement).
PausedMissionStops ==
    mission_status = "PAUSED_MANUAL" /\ mode = "AUTO"
        ~> (robot_velocity = 0 \/ mission_status # "PAUSED_MANUAL" \/ mode # "AUTO" \/ closing)
=============================================================================
