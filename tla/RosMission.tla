------------------------------ MODULE RosMission ------------------------------
(***************************************************************************)
(* The ROS 2 mission executor (ros_ws/src/go2_mission) with the run that   *)
(* StorageManager keeps for it, and Nav2, whose FollowWaypoints action     *)
(* drives the robot.                                                       *)
(*                                                                         *)
(* Commands come one at a time (the service has one callback group), so a  *)
(* start and a cancel never overlap; the executor thread and Nav2 run next *)
(* to them.  Nav2 is modelled from how it is used: it answers a goal, late *)
(* or never, ends it in one of four ways, and ends a cancelled goal.       *)
(***************************************************************************)
EXTENDS Naturals, Sequences

CONSTANTS
    NumWaypoints,            \* waypoints of a mission
    MaxRuns,                 \* bound on the runs opened
    WritesFail               \* a write of the run's files may raise

ASSUME RosMissionAssumption ==
    /\ NumWaypoints \in Nat \ {0} /\ MaxRuns \in Nat \ {0} /\ WritesFail \in BOOLEAN

VARIABLES
    proc,                    \* "up", "interrupted" (rclpy.ok() is false) or "gone"
    api,                     \* start_mission(): "idle", "servers" or "launch"
    thread,                  \* _thread: where it is, "none" when there is none
    stop_event,              \* _stop_event
    handle,                  \* _active_goal_handle, 0 when None
    waypoint,                \* the waypoint in progress
    status, completed,       \* mission_status and completed_waypoints
    active_run,              \* StorageManager._active_run, 0 when None
    reports,                 \* what the runs' files say, run by run
    goals                    \* the goals sent to Nav2, in order

server == <<api, active_run, reports>>
vars == <<proc, server, thread, stop_event, handle, waypoint, status, completed, goals>>

Terminal == {"COMPLETED", "ABORTED", "FAILED"}
Driving == {"active", "canceling"}
Ended == {"rejected", "succeeded", "missed", "canceled", "aborted"}

Report == [status: Terminal \cup {"STARTING"}, checkpoints: SUBSET (1..NumWaypoints), torn: BOOLEAN]
Goal == [run: 1..MaxRuns, waypoint: 1..NumWaypoints, is: {"sent"} \cup Driving \cup Ended, late: BOOLEAN]

RosTypeOK ==
    /\ proc \in {"up", "interrupted", "gone"}
    /\ api \in {"idle", "servers", "launch"}
    /\ thread \in {"none", "begin", "top", "dispatch", "acceptance", "result", "capture",
                   "complete", "abort", "fail", "finally"} \cup Terminal
    /\ stop_event \in BOOLEAN
    /\ waypoint \in 1..NumWaypoints + 1 /\ completed \in 0..NumWaypoints
    /\ status \in Terminal \cup {"IDLE", "STARTING", "RUNNING"}
    /\ reports \in Seq(Report) /\ active_run \in {0, Len(reports)}
    /\ goals \in Seq(Goal) /\ handle \in {0, Len(goals)}

Init ==
    /\ proc = "up" /\ api = "idle" /\ thread = "none"
    /\ stop_event = FALSE /\ handle = 0 /\ waypoint = 1
    /\ status = "IDLE" /\ completed = 0
    /\ active_run = 0 /\ reports = <<>> /\ goals = <<>>

(* Whether a write raises; a report remembers that one did. *)
Raises == {FALSE, WritesFail}
Torn(raised) == reports' = [reports EXCEPT ![active_run].torn = @ \/ raised]

(* cancel_goal_async(): it stops what drives, and finds nothing else. *)
Cancelled(g) ==
    IF g # 0 /\ goals[g].is = "active" THEN [goals EXCEPT ![g].is = "canceling"] ELSE goals

-----------------------------------------------------------------------------
(* The service: start_mission() and cancel_mission().                       *)

threadOnly == <<thread, stop_event, handle, waypoint, status, completed, goals>>

StartCheck ==
    /\ proc = "up" /\ api = "idle" /\ thread = "none" /\ Len(reports) < MaxRuns
    /\ api' = "servers"
    /\ UNCHANGED <<proc, threadOnly, active_run, reports>>

(* The bridge or Nav2 is not there, or a run is still open: the start is
   refused.  Otherwise the run is opened, and stays open when the file or the
   first event cannot be written. *)
StartRun ==
    /\ proc # "gone" /\ api = "servers"
    /\ \/ api' = "idle" /\ UNCHANGED <<active_run, reports>>
       \/ /\ active_run = 0
          /\ active_run' = Len(reports) + 1
          /\ \E raised \in Raises :
                /\ reports' = Append(reports, [status |-> "STARTING", checkpoints |-> {}, torn |-> raised])
                /\ api' = IF raised THEN "idle" ELSE "launch"
    /\ UNCHANGED <<proc, threadOnly>>

StartLaunch ==
    /\ proc # "gone" /\ api = "launch"
    /\ api' = "idle" /\ thread' = "begin"
    /\ stop_event' = FALSE /\ waypoint' = 1
    /\ status' = "STARTING" /\ completed' = 0
    /\ UNCHANGED <<proc, active_run, reports, handle, goals>>

CancelMission ==
    /\ proc = "up" /\ api = "idle" /\ thread # "none"
    /\ stop_event' = TRUE
    /\ goals' = Cancelled(handle)
    /\ UNCHANGED <<proc, server, thread, handle, waypoint, status, completed>>

(* SIGINT ends rclpy, then shutdown() cancels: the request may not get out any
   more.  The executor thread is a daemon, whatever it was doing. *)
Interrupt ==
    /\ proc = "up" /\ proc' = "interrupted"
    /\ stop_event' = (stop_event \/ thread # "none")
    /\ goals' \in {goals, Cancelled(handle)}
    /\ UNCHANGED <<server, thread, handle, waypoint, status, completed>>

Exit ==
    /\ proc # "gone" /\ proc' = "gone"
    /\ UNCHANGED <<server, threadOnly>>

Service == StartCheck \/ StartRun \/ StartLaunch \/ CancelMission \/ Interrupt \/ Exit

-----------------------------------------------------------------------------
(* The executor thread: _run_mission().                                     *)

At(l) == proc # "gone" /\ thread = l
unmoved == <<proc, api, stop_event>>

Begin ==
    /\ At("begin")
    /\ thread' = "top" /\ status' = "RUNNING"
    /\ UNCHANGED <<unmoved, active_run, reports, handle, waypoint, completed, goals>>

NextWaypoint ==
    /\ At("top")
    /\ thread' = CASE waypoint > NumWaypoints -> "complete"
                   [] waypoint <= NumWaypoints /\ stop_event -> "abort"
                   [] OTHER -> "dispatch"
    /\ UNCHANGED <<unmoved, active_run, reports, handle, waypoint, status, completed, goals>>

(* step_started is recorded, then the goal is sent. *)
Dispatch ==
    /\ At("dispatch")
    /\ \E raised \in Raises :
          /\ Torn(raised)
          /\ IF raised \/ proc # "up"
             THEN thread' = "fail" /\ UNCHANGED goals
             ELSE /\ thread' = "acceptance"
                  /\ goals' = Append(goals, [run |-> active_run, waypoint |-> waypoint,
                                             is |-> "sent", late |-> FALSE])
    /\ UNCHANGED <<unmoved, active_run, handle, waypoint, status, completed>>

current == Len(goals)

(* The answer: a refusal fails the mission, an acceptance gives the handle. *)
Accepted ==
    /\ At("acceptance") /\ goals[current].is # "sent"
    /\ IF goals[current].is = "rejected"
       THEN thread' = "fail" /\ UNCHANGED handle
       ELSE thread' = "result" /\ handle' = current
    /\ UNCHANGED <<unmoved, active_run, reports, waypoint, status, completed, goals>>

(* 15 s without an answer, or rclpy went down: the goal is not cancelled, there
   is no handle to cancel it with. *)
AcceptanceTimeout ==
    /\ At("acceptance")
    /\ thread' = "fail"
    /\ goals' = [goals EXCEPT ![current].late = TRUE]
    /\ UNCHANGED <<unmoved, active_run, reports, handle, waypoint, status, completed>>

\* Mutant of CancelWhileWaiting: the test for a handle is inverted.
CancelWhileWaitingInverted ==
    /\ At("result") /\ stop_event /\ handle = 0
    /\ goals' = Cancelled(handle)
    /\ UNCHANGED <<unmoved, active_run, reports, thread, handle, waypoint, status, completed>>

(* _wait_for_future(allow_cancel=True): asked for once, asking again would
   change nothing. *)
CancelWhileWaiting ==
    /\ At("result") /\ stop_event /\ handle # 0
    /\ goals' = Cancelled(handle)
    /\ UNCHANGED <<unmoved, active_run, reports, thread, handle, waypoint, status, completed>>

\* Mutant of NavResult: the missed waypoints of the result are not looked at.
NavResultMissed ==
    /\ At("result") /\ goals[current].is \in Ended
    /\ handle' = 0
    /\ \E raised \in Raises :
          /\ Torn(raised)
          /\ thread' = CASE goals[current].is = "canceled" -> "abort"
                         [] goals[current].is \in {"succeeded", "missed"} /\ ~raised -> "capture"
                         [] OTHER -> "fail"
    /\ UNCHANGED <<unmoved, active_run, waypoint, status, completed, goals>>

\* Mutant of NavResult: the result is awaited no longer than the acceptance.
NavResultTimeout ==
    /\ At("result")
    /\ handle' = 0
    /\ \E raised \in Raises :
          /\ Torn(raised)
          /\ thread' = CASE goals[current].is = "canceled" -> "abort"
                         [] goals[current].is = "succeeded" /\ ~raised -> "capture"
                         [] OTHER -> "fail"
    /\ UNCHANGED <<unmoved, active_run, waypoint, status, completed, goals>>

(* There is no timeout for the result.  A success is recorded as
   waypoint_arrived before the capture. *)
NavResult ==
    /\ At("result") /\ goals[current].is \in Ended
    /\ handle' = 0
    /\ \E raised \in Raises :
          /\ goals[current].is = "succeeded" \/ ~raised
          /\ Torn(raised)
          /\ thread' = CASE goals[current].is = "canceled" -> "abort"
                         [] goals[current].is = "succeeded" /\ ~raised -> "capture"
                         [] OTHER -> "fail"
    /\ UNCHANGED <<unmoved, active_run, waypoint, status, completed, goals>>

(* rclpy.ok() became false: the goal keeps driving. *)
ResultInterrupted ==
    /\ At("result") /\ proc = "interrupted"
    /\ thread' = "fail"
    /\ UNCHANGED <<unmoved, active_run, reports, handle, waypoint, status, completed, goals>>

(* process_waypoint(): the bridge does not answer within 15 s, answers that it
   failed, or answers with a frame or without one; the checkpoint is saved, and
   an event recorded after it may fail still. *)
Capture ==
    /\ At("capture")
    /\ \/ /\ thread' = "fail" /\ UNCHANGED <<reports, waypoint, completed>>
       \/ \E raised \in Raises :
             /\ reports' = [reports EXCEPT ![active_run].checkpoints = @ \cup {waypoint},
                                           ![active_run].torn = @ \/ raised]
             /\ IF raised
                THEN thread' = "fail" /\ UNCHANGED <<waypoint, completed>>
                ELSE thread' = "top" /\ completed' = waypoint /\ waypoint' = waypoint + 1
    /\ UNCHANGED <<unmoved, active_run, handle, status, goals>>

(* finalize_run(): the report names its status before the file is written, and
   the run is closed after it. *)
Finalize(s, onRaise) ==
    \E raised \in Raises :
        /\ reports' = [reports EXCEPT ![active_run].status = IF raised THEN @ ELSE s,
                                      ![active_run].torn = @ \/ raised]
        /\ active_run' = IF raised THEN active_run ELSE 0
        /\ thread' = IF raised THEN onRaise ELSE s

Complete == At("complete") /\ Finalize("COMPLETED", "fail")

\* Mutant of Abort: a cancelled mission closes its run only when a waypoint was done.
AbortUnfinished ==
    /\ At("abort")
    /\ IF completed > 0 THEN Finalize("ABORTED", "finally")
                        ELSE thread' = "ABORTED" /\ UNCHANGED <<reports, active_run>>

(* An exception in a handler of exceptions leaves the thread by its finally
   clause: the status stays RUNNING and the run open. *)
Abort == At("abort") /\ Finalize("ABORTED", "finally")
Fail == At("fail") /\ Finalize("FAILED", "finally")

Finish ==
    /\ Complete \/ Abort \/ Fail
    /\ UNCHANGED <<unmoved, handle, waypoint, status, completed, goals>>

UpdateStatus ==
    /\ proc # "gone" /\ thread \in Terminal
    /\ status' = thread /\ thread' = "finally"
    /\ UNCHANGED <<unmoved, active_run, reports, handle, waypoint, completed, goals>>

Finally ==
    /\ At("finally")
    /\ thread' = "none" /\ handle' = 0
    /\ UNCHANGED <<unmoved, active_run, reports, waypoint, status, completed, goals>>

Executor ==
    \/ Begin \/ NextWaypoint \/ Dispatch \/ Accepted \/ AcceptanceTimeout
    \/ CancelWhileWaiting \/ NavResult \/ ResultInterrupted \/ Capture
    \/ Finish \/ UpdateStatus \/ Finally

-----------------------------------------------------------------------------
(* Nav2.                                                                    *)

NavStep(g, from, to) ==
    /\ g \in DOMAIN goals /\ goals[g].is \in from
    /\ goals' = [goals EXCEPT ![g].is = to]
    /\ UNCHANGED <<proc, server, thread, stop_event, handle, waypoint, status, completed>>

NavAnswer(g) == \E to \in {"active", "rejected"} : NavStep(g, {"sent"}, to)
NavEnds(g) == \E to \in {"succeeded", "missed", "aborted"} : NavStep(g, Driving, to)
NavCancels(g) == NavStep(g, {"canceling"}, "canceled")

GoalIds == 1..MaxRuns * NumWaypoints
Nav2 == \E g \in GoalIds : NavAnswer(g) \/ NavEnds(g) \/ NavCancels(g)

Next == Service \/ Executor \/ Nav2

Spec == Init /\ [][Next]_vars
(* The thread runs, 15 s pass, and Nav2 ends a goal it was asked to cancel; it
   need not answer a goal, and an uncancelled one may take for ever. *)
RosFairness == WF_vars(Executor) /\ \A g \in GoalIds : WF_vars(NavCancels(g))

FairSpec == Spec /\ RosFairness

-----------------------------------------------------------------------------
(* A report says COMPLETED only when Nav2 reached every waypoint of the mission
   within its run and a checkpoint of each is saved there, whatever timed out,
   was cancelled or failed on the way. *)
CompletedReportIsTrue ==
    \A r \in DOMAIN reports : reports[r].status = "COMPLETED" =>
        /\ reports[r].checkpoints = 1..NumWaypoints
        /\ \A w \in 1..NumWaypoints :
              \E g \in DOMAIN goals :
                  goals[g].run = r /\ goals[g].waypoint = w /\ goals[g].is = "succeeded"

(* While the process is up, what drives the robot is the goal the executor
   waits for, whose handle it keeps to cancel it by from the moment it has read
   the answer, or one that was accepted after the executor had given it up. *)
DrivingIsSupervised ==
    proc = "up" => \A g \in DOMAIN goals : goals[g].is \in Driving =>
        \/ goals[g].late
        \/ g = current /\ (thread = "acceptance" \/ (thread = "result" /\ handle = g))

(* A run that nobody executes is open only when one of its files could not be
   written: any other end of a mission lets the next one start. *)
OpenRunHasExecutor ==
    active_run # 0 /\ api = "idle" /\ thread = "none" => reports[active_run].torn

(* A cancelled mission ends, and with it every goal it still had a handle of:
   also when the request came between the dispatch of a goal and its handle. *)
CancelHalts ==
    (stop_event /\ thread # "none" /\ proc = "up") ~>
        \/ thread = "none" /\ \A g \in DOMAIN goals : goals[g].is \in Driving => goals[g].late
        \/ proc # "up"

(* mission_executor.py answers a cancel with "No active ROS 2 mission is
   running.": then no goal of a mission should be driving the robot. *)
IdleMeansNotDriving ==
    proc = "up" /\ thread = "none" => \A g \in DOMAIN goals : goals[g].is \notin Driving
=============================================================================
