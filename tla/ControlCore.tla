------------------------------ MODULE ControlCore ------------------------------
(***************************************************************************)
(* ControlCore of src/control.py: the arbitration ESTOP > MANUAL > AUTO,   *)
(* the mission status, the motion targets, and the two threads it runs,    *)
(* control-motion (50 Hz) and control-watchdog.                            *)
(*                                                                         *)
(* One critical section of the lock is one action.  A method that leaves   *)
(* the lock to call the adapter is one action per section and per adapter  *)
(* call, and op[c] says where the calling thread c is between them; c is a *)
(* worker thread of the HTTP server or the mission executor.  The module   *)
(* lets every thread call every method at any time; MissionManager says    *)
(* what the mission executor really calls.                                 *)
(***************************************************************************)
EXTENDS RobotAdapter

CONSTANTS
    Callers,    \* the threads that call ControlCore
    Requests,   \* the velocities they ask for
    Operations  \* bound: the kinds of request the operators make

OperationKind == {"connection", "manual", "posture", "mission", "estop"}

ASSUME CallersAssumption == Requests \subseteq Int /\ Operations \subseteq OperationKind

RobotMode == {"AUTO", "MANUAL", "ESTOP"}
TerminalStatus == {"COMPLETED", "ABORTED", "FAILED", "ESTOPPED"}
MissionStatus ==
    {"IDLE", "STARTING", "RUNNING", "PAUSED_MANUAL"} \cup TerminalStatus
CommandSource == {"MANUAL", "AUTO"}    \* SYSTEM is never submitted

Op == {"idle", "take_enter", "take_undo", "take_stop",
       "release_exit", "release_undo", "release_stop",
       "stand_call", "stand_apply", "estop_stop", "estop_damp", "sit", "join", "close"}

VARIABLES
    mode, mission_status, estop_latched,
    abort_requested,     \* _abort_requested
    stop_event,          \* _stop_event: shutdown() was called
    manual_target, auto_target, current_velocity,
    last_sent,           \* _last_sent_command
    explicit_stop,       \* _explicit_stop_requested
    stop_sent,           \* _stop_sent
    settling,            \* now < _settle_until: "no", "new" (no tick of the
                         \* control loop since it was set) or "seen"
    teleop,              \* age of last_teleop_ts: "unset" (0.0), "fresh" or
                         \* "stale" (older than watchdog_timeout_s)
    watchdog_fired,      \* _watchdog_fired
    captured_is_last,    \* last_teleop_ts = captured_ts in _watchdog_loop
    watchdog_pc,         \* where the watchdog is: "idle", "recheck", "stop"
    loop_action,         \* action the control loop has decided, not yet done
    loop_command,        \* its command
    op,                  \* op[c]: what the thread c does next
    saved                \* previous_mode and previous_status of take_manual

modeVars == <<mode, mission_status, estop_latched, abort_requested>>
motionVars == <<manual_target, auto_target, current_velocity, last_sent,
                explicit_stop, stop_sent>>
teleopVars == <<teleop, watchdog_fired, captured_is_last>>
loopVars == <<loop_action, loop_command>>
callVars == <<op, saved>>
controlVars == <<modeVars, stop_event, motionVars, settling, teleopVars,
                 watchdog_pc, loopVars, callVars, adapterVars>>

NothingSaved == [mode |-> "AUTO", status |-> "IDLE"]

ModeTypeOK ==
    /\ mode \in RobotMode
    /\ mission_status \in MissionStatus
    /\ estop_latched \in BOOLEAN
    /\ abort_requested \in BOOLEAN
    /\ stop_event \in BOOLEAN

MotionTypeOK ==
    /\ manual_target \in Speed
    /\ auto_target \in Speed
    /\ current_velocity \in Speed
    /\ last_sent \in Speed
    /\ explicit_stop \in BOOLEAN
    /\ stop_sent \in BOOLEAN
    /\ settling \in {"no", "new", "seen"}

ThreadTypeOK ==
    /\ teleop \in {"unset", "fresh", "stale"}
    /\ watchdog_fired \in BOOLEAN
    /\ captured_is_last \in BOOLEAN
    /\ watchdog_pc \in {"idle", "recheck", "stop"}
    /\ loop_action \in {"none", "move", "stop"}
    /\ loop_command \in Speed

CallTypeOK ==
    /\ op \in [Callers -> Op]
    /\ saved \in [Callers -> [mode : RobotMode, status : MissionStatus]]

TypeOK == AdapterTypeOK /\ ModeTypeOK /\ MotionTypeOK /\ ThreadTypeOK /\ CallTypeOK

\* __init__ and start(): both threads run, the robot is not connected yet
Init ==
    /\ AdapterInit
    /\ mode = "AUTO"
    /\ mission_status = "IDLE"
    /\ estop_latched = FALSE
    /\ abort_requested = FALSE
    /\ stop_event = FALSE
    /\ manual_target = 0
    /\ auto_target = 0
    /\ current_velocity = 0
    /\ last_sent = 0
    /\ explicit_stop = FALSE
    /\ stop_sent = TRUE
    /\ settling = "no"
    /\ teleop = "unset"
    /\ watchdog_fired = FALSE
    /\ captured_is_last = FALSE
    /\ watchdog_pc = "idle"
    /\ loop_action = "none"
    /\ loop_command = 0
    /\ op = [c \in Callers |-> "idle"]
    /\ saved = [c \in Callers |-> NothingSaved]
-----------------------------------------------------------------------------
(* Helpers that run under the lock                                          *)

MissionActive == mission_status \in {"STARTING", "RUNNING", "PAUSED_MANUAL"}

\* can_start_mission
CanStartMission == ~estop_latched /\ mode = "AUTO" /\ ~MissionActive

\* wait_until_runnable returns FALSE ...
Blocked ==
    stop_event \/ estop_latched \/ abort_requested \/ mission_status \in TerminalStatus

\* ... or waits while the mission is paused, or returns TRUE
Runnable == ~Blocked /\ mission_status # "PAUSED_MANUAL"

\* _can_accept_locked
CanAccept(source) ==
    \/ source = "AUTO" /\ mode # "MANUAL"
    \/ source = "MANUAL" /\ mode = "MANUAL"

\* _active_target_locked
ActiveTarget ==
    IF mode = "MANUAL" THEN manual_target
    ELSE IF mission_status \in TerminalStatus \cup {"PAUSED_MANUAL"} THEN 0
    ELSE auto_target

\* _reset_motion_locked; every caller clears the AUTO target and asks for an
\* explicit stop
ResetMotion(clear_manual_target) ==
    /\ manual_target' = IF clear_manual_target THEN 0 ELSE manual_target
    /\ auto_target' = 0
    /\ current_velocity' = 0
    /\ last_sent' = 0
    /\ stop_sent' = FALSE
    /\ explicit_stop' = TRUE

\* Mutant of TouchTeleop: the watchdog is not armed again
TouchTeleopKeepsFired ==
    /\ teleop' = "fresh"
    /\ captured_is_last' = FALSE
    /\ UNCHANGED watchdog_fired

\* last_teleop_ts = now; _watchdog_fired = False
TouchTeleop ==
    /\ teleop' = "fresh"
    /\ watchdog_fired' = FALSE
    /\ captured_is_last' = FALSE

\* the thread c goes on at the point next of its method; what take_manual has
\* saved is only read by the rollback of an adapter call that failed
Goto(c, next) ==
    /\ op' = [op EXCEPT ![c] = next]
    /\ saved' = IF next = "take_undo" THEN saved ELSE [saved EXCEPT ![c] = NothingSaved]
-----------------------------------------------------------------------------
(* Methods of one critical section                                          *)

SetStatus(status) ==
    /\ mission_status' = status
    /\ UNCHANGED <<mode, estop_latched>>

BeginMission(c) ==
    /\ op[c] = "idle"
    /\ CanStartMission
    /\ SetStatus("STARTING")
    /\ abort_requested' = FALSE
    /\ auto_target' = 0
    /\ explicit_stop' = FALSE
    /\ UNCHANGED <<stop_event, manual_target, current_velocity, last_sent, stop_sent,
                   settling, teleopVars, watchdog_pc, loopVars, callVars, adapterVars>>

\* what a method that only changes the mission status and the motion leaves
MotionOnlyUnchanged ==
    UNCHANGED <<stop_event, settling, teleopVars, watchdog_pc, loopVars, callVars,
                adapterVars>>

MarkRunning(c) ==
    /\ op[c] = "idle"
    /\ mission_status = "STARTING"
    /\ SetStatus("RUNNING")
    /\ UNCHANGED <<abort_requested, motionVars>>
    /\ MotionOnlyUnchanged

PauseMission(c) ==
    /\ op[c] = "idle"
    /\ mission_status \in {"STARTING", "RUNNING"}
    /\ SetStatus("PAUSED_MANUAL")
    /\ ResetMotion(FALSE)
    /\ UNCHANGED abort_requested
    /\ MotionOnlyUnchanged

ResumeMission(c) ==
    /\ op[c] = "idle"
    /\ ~estop_latched /\ mode = "AUTO" /\ mission_status = "PAUSED_MANUAL"
    /\ SetStatus("RUNNING")
    /\ UNCHANGED <<abort_requested, motionVars>>
    /\ MotionOnlyUnchanged

\* Mutant of AbortMission: the abort is requested, the status is left to the
\* executor
AbortMissionLater(c) ==
    /\ op[c] = "idle"
    /\ mission_status \notin TerminalStatus \cup {"IDLE"}
    /\ abort_requested' = TRUE
    /\ ResetMotion(FALSE)
    /\ UNCHANGED <<mode, mission_status, estop_latched>>
    /\ MotionOnlyUnchanged

AbortMission(c) ==
    /\ op[c] = "idle"
    /\ mission_status \notin TerminalStatus \cup {"IDLE"}
    /\ SetStatus("ABORTED")
    /\ abort_requested' = TRUE
    /\ ResetMotion(FALSE)
    /\ MotionOnlyUnchanged

CompleteMission(c) ==
    /\ op[c] = "idle"
    /\ mission_status \notin TerminalStatus
    /\ SetStatus("COMPLETED")
    /\ ResetMotion(FALSE)
    /\ UNCHANGED abort_requested
    /\ MotionOnlyUnchanged

\* fail_mission does not look at the status it overwrites
FailMission(c) ==
    /\ op[c] = "idle"
    /\ SetStatus("FAILED")
    /\ ResetMotion(FALSE)
    /\ UNCHANGED abort_requested
    /\ MotionOnlyUnchanged

StopMotion(c) ==
    /\ op[c] = "idle"
    /\ ResetMotion(TRUE)
    /\ UNCHANGED modeVars
    /\ MotionOnlyUnchanged

\* reset_estop leaves the mission ESTOPPED and the adapter as it is
ResetEstop(c) ==
    /\ op[c] = "idle"
    /\ estop_latched
    /\ estop_latched' = FALSE
    /\ mode' = "AUTO"
    /\ ResetMotion(TRUE)
    /\ UNCHANGED <<mission_status, abort_requested>>
    /\ MotionOnlyUnchanged

ClearManualTarget(c) ==
    /\ op[c] = "idle"
    /\ mode = "MANUAL"
    /\ manual_target' = 0
    /\ TouchTeleop
    /\ UNCHANGED <<modeVars, stop_event, auto_target, current_velocity, last_sent,
                   explicit_stop, stop_sent, settling, watchdog_pc, loopVars,
                   callVars, adapterVars>>

\* Mutant of RejectLatched: the rejected command counts as the operator's answer
\* to the stop
RejectLatchedForgetsStop(c) ==
    /\ op[c] = "idle"
    /\ estop_latched
    /\ explicit_stop' = FALSE
    /\ UNCHANGED <<modeVars, stop_event, manual_target, auto_target, current_velocity,
                   last_sent, stop_sent, settling, teleopVars, watchdog_pc, loopVars,
                   callVars, adapterVars>>

\* submit() while ESTOP is latched asks for the stop again
RejectLatched(c) ==
    /\ op[c] = "idle"
    /\ estop_latched
    /\ explicit_stop' = TRUE
    /\ UNCHANGED <<modeVars, stop_event, manual_target, auto_target, current_velocity,
                   last_sent, stop_sent, settling, teleopVars, watchdog_pc, loopVars,
                   callVars, adapterVars>>

\* Mutant of Submit: the latch is not looked at
SubmitUnlatched(c, source, request) ==
    /\ op[c] = "idle"
    /\ CanAccept(source)
    /\ AdapterCanMove
    /\ IF source = "MANUAL"
       THEN manual_target' = Clamp(request) /\ TouchTeleop /\ UNCHANGED auto_target
       ELSE auto_target' = Clamp(request) /\ UNCHANGED <<manual_target, teleopVars>>
    /\ explicit_stop' = (explicit_stop /\ ~HasMotion(Clamp(request)))
    /\ stop_sent' = (stop_sent /\ ~HasMotion(Clamp(request)))
    /\ UNCHANGED <<modeVars, stop_event, current_velocity, last_sent, settling,
                   watchdog_pc, loopVars, callVars, adapterVars>>

\* submit() of an accepted command; a rejected one changes nothing
Submit(c, source, request) ==
    /\ op[c] = "idle"
    /\ ~estop_latched
    /\ CanAccept(source)
    /\ AdapterCanMove
    /\ IF source = "MANUAL"
       THEN manual_target' = Clamp(request) /\ TouchTeleop /\ UNCHANGED auto_target
       ELSE auto_target' = Clamp(request) /\ UNCHANGED <<manual_target, teleopVars>>
    /\ explicit_stop' = (explicit_stop /\ ~HasMotion(Clamp(request)))
    /\ stop_sent' = (stop_sent /\ ~HasMotion(Clamp(request)))
    /\ UNCHANGED <<modeVars, stop_event, current_velocity, last_sent, settling,
                   watchdog_pc, loopVars, callVars, adapterVars>>
-----------------------------------------------------------------------------
(* Methods that leave the lock to call the adapter                          *)

\* what a critical section of take_manual and release_manual leaves alone
ModeSwitchUnchanged ==
    UNCHANGED <<estop_latched, abort_requested, stop_event, motionVars, settling,
                watchdog_pc, loopVars, adapterVars>>

\* what a call of the adapter outside the lock leaves alone
AdapterCallUnchanged ==
    UNCHANGED <<modeVars, stop_event, motionVars, settling, teleopVars, watchdog_pc,
                loopVars>>

\* Mutant of TakeManual: a takeover is accepted under the latch
TakeManualUnlatched(c) ==
    /\ op[c] = "idle"
    /\ mode # "MANUAL"
    /\ mode' = "MANUAL"
    /\ mission_status' = IF mission_status \in {"STARTING", "RUNNING"}
                         THEN "PAUSED_MANUAL" ELSE mission_status
    /\ TouchTeleop
    /\ op' = [op EXCEPT ![c] = "take_enter"]
    /\ UNCHANGED saved
    /\ ModeSwitchUnchanged

TakeManual(c) ==
    /\ op[c] = "idle"
    /\ ~estop_latched /\ mode # "MANUAL"
    /\ mode' = "MANUAL"
    /\ mission_status' = IF mission_status \in {"STARTING", "RUNNING"}
                         THEN "PAUSED_MANUAL" ELSE mission_status
    /\ TouchTeleop
    /\ op' = [op EXCEPT ![c] = "take_enter"]
    /\ saved' = IF "enter" \in Faults
                THEN [saved EXCEPT ![c] = [mode |-> mode, status |-> mission_status]]
                ELSE saved
    /\ ModeSwitchUnchanged

\* adapter.enter_manual_mode(); when it raises, exit_manual_mode() is tried
TakeEnter(c) ==
    /\ op[c] = "take_enter"
    /\ \/ EnterManualMode /\ Goto(c, "take_stop")
       \/ "enter" \in Faults /\ ExitManualMode /\ Goto(c, "take_undo")
    /\ AdapterCallUnchanged

\* the rollback puts back what was read before the adapter was called
TakeUndo(c) ==
    /\ op[c] = "take_undo"
    /\ mode' = saved[c].mode
    /\ mission_status' = saved[c].status
    /\ teleop' = "unset"
    /\ watchdog_fired' = FALSE
    /\ captured_is_last' = FALSE
    /\ Goto(c, "idle")
    /\ ModeSwitchUnchanged

\* Mutant of ReleaseManual: the release resumes the mission it had paused
ReleaseManualResumes(c) ==
    /\ op[c] = "idle"
    /\ mode = "MANUAL"
    /\ mode' = "AUTO"
    /\ mission_status' = IF mission_status = "PAUSED_MANUAL" THEN "RUNNING" ELSE mission_status
    /\ Goto(c, "release_exit")
    /\ UNCHANGED teleopVars
    /\ ModeSwitchUnchanged

ReleaseManual(c) ==
    /\ op[c] = "idle"
    /\ mode = "MANUAL"
    /\ mode' = "AUTO"
    /\ Goto(c, "release_exit")
    /\ UNCHANGED <<mission_status, teleopVars>>
    /\ ModeSwitchUnchanged

ReleaseExit(c) ==
    /\ op[c] = "release_exit"
    /\ \/ ExitManualMode /\ Goto(c, "release_stop")
       \/ "exit" \in Faults /\ UNCHANGED adapterVars /\ Goto(c, "release_undo")
    /\ AdapterCallUnchanged

ReleaseUndo(c) ==
    /\ op[c] = "release_undo"
    /\ mode' = "MANUAL"
    /\ Goto(c, "idle")
    /\ UNCHANGED <<mission_status, teleopVars>>
    /\ ModeSwitchUnchanged

\* Mutant of SwitchStop: the targets of the manual session are kept
SwitchStopKeepsTarget(c) ==
    /\ op[c] \in {"take_stop", "release_stop"}
    /\ ResetMotion(FALSE)
    /\ Goto(c, "idle")
    /\ UNCHANGED <<modeVars, stop_event, settling, teleopVars, watchdog_pc, loopVars,
                   adapterVars>>

\* the stop_motion() that ends take_manual and release_manual
SwitchStop(c) ==
    /\ op[c] \in {"take_stop", "release_stop"}
    /\ ResetMotion(TRUE)
    /\ Goto(c, "idle")
    /\ UNCHANGED <<modeVars, stop_event, settling, teleopVars, watchdog_pc, loopVars,
                   adapterVars>>

\* stand_up() reads the latch, lets the lock go, and raises if it is set
StandUp(c) ==
    /\ op[c] = "idle"
    /\ ~estop_latched
    /\ Goto(c, "stand_call")
    /\ AdapterCallUnchanged
    /\ UNCHANGED adapterVars

StandUpCall(c) ==
    /\ op[c] = "stand_call"
    /\ \/ RaiseRobot /\ Goto(c, "stand_apply")
       \/ StandUpRaises /\ UNCHANGED adapterVars /\ Goto(c, "idle")
    /\ AdapterCallUnchanged

\* Mutant of StandUpApply: a robot that has just stood up counts as stopped
StandUpApplyStopped(c) ==
    /\ op[c] = "stand_apply"
    /\ settling' = "new"
    /\ current_velocity' = 0
    /\ last_sent' = 0
    /\ stop_sent' = TRUE
    /\ explicit_stop' = FALSE
    /\ IF mode = "MANUAL" THEN TouchTeleop ELSE UNCHANGED teleopVars
    /\ Goto(c, "idle")
    /\ UNCHANGED <<modeVars, stop_event, manual_target, auto_target, watchdog_pc,
                   loopVars, adapterVars>>

StandUpApply(c) ==
    /\ op[c] = "stand_apply"
    /\ settling' = "new"
    /\ current_velocity' = 0
    /\ last_sent' = 0
    /\ stop_sent' = FALSE
    /\ explicit_stop' = FALSE
    /\ IF mode = "MANUAL" THEN TouchTeleop ELSE UNCHANGED teleopVars
    /\ Goto(c, "idle")
    /\ UNCHANGED <<modeVars, stop_event, manual_target, auto_target, watchdog_pc,
                   loopVars, adapterVars>>

LatchEstop(c) ==
    /\ op[c] = "idle"
    /\ ~estop_latched
    /\ estop_latched' = TRUE
    /\ mode' = "ESTOP"
    /\ abort_requested' = TRUE
    /\ mission_status' = "ESTOPPED"
    /\ ResetMotion(TRUE)
    /\ Goto(c, "estop_stop")
    /\ UNCHANGED <<stop_event, settling, teleopVars, watchdog_pc, loopVars, adapterVars>>

\* the "damping_on" operator action of src/api.py calls emergency_stop() of the
\* adapter without going through ControlCore
DampingOn(c) ==
    /\ op[c] = "idle"
    /\ Goto(c, "estop_stop")
    /\ AdapterCallUnchanged /\ UNCHANGED adapterVars

\* adapter.emergency_stop() stops first ...
EstopStop(c) ==
    /\ op[c] = "estop_stop"
    /\ StopRobot
    /\ Goto(c, "estop_damp")
    /\ AdapterCallUnchanged

\* ... and damps next
EstopDamp(c) ==
    /\ op[c] = "estop_damp"
    /\ DampRobot
    /\ Goto(c, "idle")
    /\ AdapterCallUnchanged

\* Mutant of SitDownLocked: the status is overwritten whatever it was
SitDownLockedAborts(c) ==
    /\ mission_status' = "ABORTED"
    /\ abort_requested' = TRUE
    /\ ResetMotion(TRUE)
    /\ Goto(c, "sit")
    /\ UNCHANGED <<mode, estop_latched, stop_event, settling, teleopVars, watchdog_pc,
                   loopVars, adapterVars>>

\* sit_down(), called by a request or by shutdown() once it has joined the
\* threads
SitDownLocked(c) ==
    /\ mission_status' = IF MissionActive THEN "ABORTED" ELSE mission_status
    /\ abort_requested' = (abort_requested \/ MissionActive)
    /\ ResetMotion(TRUE)
    /\ Goto(c, "sit")
    /\ UNCHANGED <<mode, estop_latched, stop_event, settling, teleopVars, watchdog_pc,
                   loopVars, adapterVars>>

SitDown(c) == op[c] = "idle" /\ SitDownLocked(c)

SitDownCall(c) ==
    /\ op[c] = "sit"
    /\ SeatRobot
    /\ Goto(c, "idle")
    /\ AdapterCallUnchanged

\* shutdown(): the threads see the event, then are joined for at most 1 s each
Shutdown(c) ==
    /\ op[c] = "idle"
    /\ ~stop_event
    /\ stop_event' = TRUE
    /\ Goto(c, "join")
    /\ UNCHANGED <<modeVars, motionVars, settling, teleopVars, watchdog_pc, loopVars,
                   adapterVars>>

\* Mutant of ShutdownJoined: the threads are not joined
ShutdownUnjoined(c) == op[c] = "join" /\ SitDownLocked(c)

ShutdownJoined(c) ==
    /\ op[c] = "join"
    /\ \/ loop_action = "none" /\ watchdog_pc = "idle"
       \/ "slow_join" \in Faults
    /\ SitDownLocked(c)

\* the "connect" and "disconnect" operator actions of src/api.py; the latter is
\* also the end of the application, after shutdown()
Connect(c) ==
    /\ op[c] = "idle"
    /\ ~connected
    /\ AdapterConnect
    /\ AdapterCallUnchanged /\ UNCHANGED callVars

Disconnect(c) ==
    /\ \A d \in Callers : stop_event => op[d] = "idle"
    /\ op[c] = "idle"
    /\ AdapterDisconnect
    /\ Goto(c, IF Hardware THEN "close" ELSE "idle")
    /\ AdapterCallUnchanged

\* the rest of the Go2's disconnect(); the control loop was free to send a Move
\* meanwhile
CloseConnection(c) ==
    /\ op[c] = "close"
    /\ AdapterClose
    /\ Goto(c, "idle")
    /\ AdapterCallUnchanged
-----------------------------------------------------------------------------
(* The control-motion thread                                                *)

\* nothing may move: the loop drops the ramp to zero at once
Held == estop_latched \/ explicit_stop \/ settling # "no"

\* Mutant of StopDue: an explicit stop request is not looked at
StopDueAfterMotion == ~stop_sent /\ (HasMotion(last_sent) \/ settling # "no")

\* a StopMove is due at the next tick that has no motion to send
StopDue == ~stop_sent /\ (explicit_stop \/ HasMotion(last_sent) \/ settling # "no")

\* the critical section of _control_loop: ramp, then decide what to send
LoopDecide ==
    LET ramped == IF Held THEN 0 ELSE StepTowards(current_velocity, ActiveTarget)
        effective == IF Held THEN 0 ELSE EffectiveAxis(ramped, ActiveTarget)
    IN  /\ loop_action = "none"
        /\ ~stop_event
        /\ current_velocity' = ramped
        /\ settling' = IF settling = "new" THEN "seen" ELSE settling
        /\ \/ /\ HasMotion(effective)
              /\ loop_action' = "move"
              /\ loop_command' = effective
              /\ last_sent' = effective
              /\ stop_sent' = FALSE
           \/ /\ ~HasMotion(effective)
              /\ StopDue
              /\ loop_action' = "stop"
              /\ last_sent' = 0
              /\ stop_sent' = TRUE
              /\ UNCHANGED loop_command
           \/ /\ ~HasMotion(effective)
              /\ ~StopDue
              /\ UNCHANGED <<loopVars, last_sent, stop_sent>>
        /\ UNCHANGED <<modeVars, stop_event, manual_target, auto_target, explicit_stop,
                       teleopVars, watchdog_pc, callVars, adapterVars>>

\* send_velocity() and stop() are called outside the lock; a failure is logged
\* and not retried
LoopAct ==
    /\ \/ loop_action = "move" /\ SendVelocity(loop_command)
       \/ loop_action = "stop" /\ StopRobot
    /\ loop_action' = "none"
    /\ loop_command' = 0
    /\ UNCHANGED <<modeVars, stop_event, motionVars, settling, teleopVars, watchdog_pc,
                   callVars>>
-----------------------------------------------------------------------------
(* The control-watchdog thread: two critical sections, then stop_motion()   *)

WatchdogCheck ==
    /\ watchdog_pc = "idle"
    /\ ~stop_event
    /\ mode = "MANUAL" /\ settling = "no" /\ ~watchdog_fired /\ teleop = "stale"
    /\ watchdog_fired' = TRUE
    /\ captured_is_last' = TRUE
    /\ watchdog_pc' = "recheck"
    /\ UNCHANGED <<modeVars, stop_event, motionVars, settling, teleop, loopVars,
                   callVars, adapterVars>>

\* a teleop command since the first section cancels the stop
WatchdogRecheck ==
    /\ watchdog_pc = "recheck"
    /\ watchdog_pc' = IF captured_is_last THEN "stop" ELSE "idle"
    /\ watchdog_fired' = (watchdog_fired /\ captured_is_last)
    /\ captured_is_last' = FALSE
    /\ UNCHANGED <<modeVars, stop_event, motionVars, settling, teleop, loopVars,
                   callVars, adapterVars>>

WatchdogStop ==
    /\ watchdog_pc = "stop"
    /\ watchdog_pc' = "idle"
    /\ ResetMotion(TRUE)
    /\ UNCHANGED <<modeVars, stop_event, settling, teleopVars, loopVars, callVars,
                   adapterVars>>

Watchdog == WatchdogCheck \/ WatchdogRecheck \/ WatchdogStop
-----------------------------------------------------------------------------
(* Time                                                                     *)

TimeUnchanged ==
    UNCHANGED <<modeVars, stop_event, motionVars, watchdog_fired, captured_is_last,
                watchdog_pc, loopVars, callVars, adapterVars>>

\* _STAND_UP_SETTLE_S (1.75 s) is over.  It is 87 periods of the control loop,
\* so a running loop has seen it; once the loop has ended nobody reads it.
SettleElapses ==
    /\ settling = "seen"
    /\ settling' = "no"
    /\ UNCHANGED teleop
    /\ TimeUnchanged

\* watchdog_timeout_s has passed since the last teleop command
TeleopExpires ==
    /\ teleop = "fresh"
    /\ teleop' = "stale"
    /\ UNCHANGED settling
    /\ TimeUnchanged
-----------------------------------------------------------------------------
\* the rest of a method that has left the lock
Continue(c) ==
    \/ TakeEnter(c) \/ TakeUndo(c) \/ ReleaseExit(c) \/ ReleaseUndo(c) \/ SwitchStop(c)
    \/ StandUpCall(c) \/ StandUpApply(c) \/ EstopStop(c) \/ EstopDamp(c)
    \/ SitDownCall(c) \/ ShutdownJoined(c) \/ CloseConnection(c)

\* what an operator asks for through the HTTP API; the server has drained its
\* requests when the application shuts down
OperatorCall(c) == ~stop_event /\ (
    \/ "connection" \in Operations /\ Connect(c)
    \/ "manual" \in Operations /\ (
           \/ TakeManual(c) \/ ReleaseManual(c) \/ ClearManualTarget(c)
           \/ \E v \in Requests : Submit(c, "MANUAL", v)
           \/ RejectLatched(c))
    \/ "posture" \in Operations /\ (StandUp(c) \/ SitDown(c) \/ StopMotion(c) \/ DampingOn(c))
    \/ "mission" \in Operations /\ (PauseMission(c) \/ ResumeMission(c) \/ AbortMission(c))
    \/ "estop" \in Operations /\ (LatchEstop(c) \/ ResetEstop(c)))

\* the velocities of a route include the fastest one
RouteRequests == Requests \cup {MaxV}

\* what the mission executor and MissionManager call, at the end of the
\* application too
MissionCall(c) ==
    \/ BeginMission(c) \/ MarkRunning(c) \/ CompleteMission(c) \/ FailMission(c)
    \/ StandUp(c) \/ StopMotion(c) \/ AbortMission(c)
    \/ \E v \in RouteRequests : Submit(c, "AUTO", v)
    \/ RejectLatched(c)

ControlLoop == LoopDecide \/ LoopAct

Background == ControlLoop \/ Watchdog \/ SettleElapses \/ TeleopExpires

Next ==
    \/ \E c \in Callers :
           OperatorCall(c) \/ MissionCall(c) \/ Continue(c) \/ Shutdown(c) \/ Disconnect(c)
    \/ Background

Spec == Init /\ [][Next]_controlVars

\* The two threads run until shutdown(), a method that was entered returns and
\* the settle time ends.  Operators and the mission owe nothing.
ControlFairness ==
    /\ WF_controlVars(ControlLoop)
    /\ WF_controlVars(Watchdog)
    /\ WF_controlVars(SettleElapses)
    /\ \A c \in Callers : WF_controlVars(Continue(c))

FairSpec == Spec /\ ControlFairness
-----------------------------------------------------------------------------
(* Properties                                                               *)

\* a StopMove has been decided, or the next tick will decide it
StopOwed ==
    \/ loop_action = "stop"
    \/ ~stop_sent /\ (explicit_stop \/ settling # "no")

\* the robot was last commanded to move, or is about to be by a Move decided before
MayMove == Driven \/ loop_action = "move"

\* The stop of an emergency is never lost: while ESTOP is latched, a robot
\* that was last commanded to move, or is about to be by a command the control
\* loop had decided before, still has a StopMove coming (latch_estop, the
\* order of decision and adapter call in _control_loop, submit and stand_up
\* against the latch).  The exception is a Go2 that a disconnection has left
\* moving: no StopMove would reach it.
EstopStopOwed == estop_latched /\ MayMove => StopOwed

\* ESTOP has priority over the other modes: the latch and the mode agree
\* whatever takeover, release or reset runs meanwhile.  This is said of
\* adapters whose mode switches do not raise ("enter" and "exit" are not in
\* Faults), as those of the two adapters do not: the rollback of a switch that
\* raised writes back a mode from before the latch.
EstopHoldsMode == estop_latched <=> mode = "ESTOP"

\* A latched ESTOP has ended the automated work: no mission is active or can
\* be resumed under it (latch_estop, against mark_running, resume_mission,
\* complete_mission and begin_mission in other threads).  As for EstopHoldsMode,
\* the mode switches of the adapter do not raise.
EstopEndsMission == estop_latched => mission_status \in {"ESTOPPED", "FAILED"}

\* The target of a manual session does not survive it: outside MANUAL it is
\* zero, or the thread that is switching modes is still about to clear it
\* (take_manual, release_manual, the watchdog and submit); again for mode
\* switches that do not raise.
NoResidualManualTarget ==
    mode # "MANUAL" /\ manual_target # 0 =>
        \E c \in Callers : op[c] \in {"take_enter", "take_stop", "release_exit", "release_stop"}

\* After shutdown() has joined the threads and seated the robot, nothing moves
\* it any more, whatever command was in flight (shutdown, _control_loop); only
\* a Go2 that a disconnection had left moving before may still do so.
ShutdownLeavesRobotStill ==
    stop_event /\ (\A c \in Callers : op[c] # "join" /\ op[c] # "sit") => ~Driven

\* A connected robot that the emergency stop has damped cannot be made to move
\* again while ESTOP is latched: that takes a reset and then an activation
\* (stand_up against latch_estop, emergency_stop).
DampedWhileLatched ==
    [][estop_latched /\ connected /\ ~AdapterCanMove => ~AdapterCanMove']_controlVars

\* Only an operator's resume_mission, in AUTO with ESTOP clear, sets a paused
\* mission going again: no takeover, release or reset does.  This too is said
\* of adapters whose mode switches do not raise: the rollback of take_manual
\* writes back a status that it read before the adapter was called.
PausedUntilResumed ==
    [][mission_status = "PAUSED_MANUAL" /\ mission_status' \in {"STARTING", "RUNNING"} =>
           mode = "AUTO" /\ mode' = "AUTO" /\ ~estop_latched]_controlVars

\* in MANUAL, the watchdog has fired and done its work since the last teleop command
WatchdogDone == mode = "MANUAL" /\ watchdog_fired /\ watchdog_pc = "idle"

\* The stop of the watchdog is not lost: it fires once for an operator who went
\* silent, and from then on the robot stands or has a StopMove coming, whatever
\* Move the control loop had decided, until a new command arms it again
\* (stop_motion in _watchdog_loop against submit, stand_up and the mission).
\* The exception is a Go2 that a disconnection has left moving.
SilentOperatorStopOwed == WatchdogDone /\ MayMove => StopOwed

\* An operator who goes silent in MANUAL does not leave the robot moving: the
\* watchdog stops it unless a new command, another mode or shutdown comes
\* first, or a disconnection puts a moving Go2 out of reach (_watchdog_loop
\* with its two sections, _control_loop, disconnect).
SilentOperatorStops ==
    (mode = "MANUAL" /\ teleop = "stale")
        ~> (~Driven \/ teleop # "stale" \/ mode # "MANUAL" \/ stop_event)

\* The motion of the robot in the terms of MotionGate.
GateMotion ==
    IF ~MayMove THEN IF left_moving THEN "lost" ELSE "still"
    ELSE IF StopOwed THEN "stopping"
    ELSE "moving"

Gate == INSTANCE MotionGate WITH latched <- estop_latched, motion <- GateMotion

\* ControlCore implements the emergency-stop gate: no step of any thread starts
\* motion under the latch, not even of a robot that was lost, and latching stops
\* what moves.  A Go2 is lost when a Move reaches it between the StandDown of a
\* disconnect() and the end of the connection.
ImplementsGate == Gate!GateSpec

\* A latched ESTOP brings the robot to a standstill unless it is reset or the
\* application shuts down first (the liveness of the gate); a robot that a
\* disconnection has put out of reach is all that it may leave moving.
EstopStops ==
    estop_latched ~> (GateMotion \in {"still", "lost"} \/ ~estop_latched \/ stop_event)
=============================================================================
