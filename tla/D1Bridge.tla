------------------------------ MODULE D1Bridge ------------------------------
(***************************************************************************)
(* The D1 arm bridge (cpp/d1_bridge) and the application's client of it.   *)
(*                                                                         *)
(* Four threads of the bridge meet here: the main thread, which answers    *)
(* one connection after the other; the poll thread, which reconnects,      *)
(* reads the arm and repeats a halt; the feedback callbacks of DDS; and    *)
(* the signal watcher, which stops the server.  transport_mutex_ is held   *)
(* by the main thread across the two steps of a publication and by the     *)
(* poll thread within single steps.  The application sends one request per *)
(* connection and gives up after a timeout, leaving the connection behind. *)
(***************************************************************************)
EXTENDS D1Transport, Naturals, Sequences

CONSTANTS
    DryRunFallback,          \* option dry_run_fallback
    Backlog                  \* bound on waiting connections (listen() takes 8)

ASSUME D1Assumption == DryRunFallback \in BOOLEAN /\ Backlog \in Nat \ {0}

VARIABLES
    config,                  \* enable_motion of the bridge and of the application
    up,                      \* "running", "stopped" or "killed"
    running,                 \* running_
    queue,                   \* connections waiting to be accepted
    rpc, req,                \* main thread: where it is, and its request
    seen,                    \* main thread: refreshed_status.motion_enabled
    ppc, snap,               \* poll thread: where it is, and next_status.motion_enabled
    stopper,                 \* progress of the two callers of stop()
    mutex,                   \* transport_mutex_ is held by the main thread
    halt,                    \* D1Safety::halt_requested_
    tr,                      \* the DDS backend
    latest,                  \* latest_status_.motion_enabled, what clients are told
    arm,                     \* the last word the arm received
    estopPressed             \* the application's emergency stop

threads == <<up, running, rpc, req, seen, ppc, snap, stopper, mutex>>
world == <<config, estopPressed>>
vars == <<threads, world, queue, halt, tr, latest, arm>>

MotionCommands == {"enable_motion", "set_joint_angle"}   \* set_multi_joint_angle and zero_arm alike
Commands == MotionCommands \cup {"halt", "disable_motion"}           \* the others change nothing
StopCallers == {"main", "watcher"}

D1TypeOK ==
    /\ config \in [bridge: BOOLEAN, app: BOOLEAN]
    /\ up \in {"running", "stopped", "killed"}
    /\ running \in BOOLEAN /\ mutex \in BOOLEAN /\ halt \in BOOLEAN
    /\ queue \in Seq(Commands) /\ Len(queue) <= Backlog
    /\ rpc \in {"accept", "section", "publish", "record", "reply"}
    /\ req \in Commands /\ seen \in BOOLEAN
    /\ ppc \in {"check", "connect", "read", "halt", "stop", "store", "exited"}
    /\ snap \in BOOLEAN /\ latest \in BOOLEAN
    /\ stopper \in [StopCallers -> {"none", "join", "close", "done"}]
    /\ tr \in Transport
    /\ arm \in {"off", "enable", "joints"}
    /\ estopPressed \in BOOLEAN

Init ==
    /\ config \in [bridge: BOOLEAN, app: BOOLEAN]
    /\ up = "running" /\ running = TRUE /\ mutex = FALSE /\ halt = FALSE
    /\ queue = <<>>
    /\ rpc = "accept" /\ req = "halt" /\ seen = FALSE
    /\ ppc = "check" /\ snap = FALSE /\ latest = FALSE
    /\ stopper = [s \in StopCallers |-> "none"]
    /\ tr = TransportInit /\ arm = "off" /\ estopPressed = FALSE

(* A halt or a disable for the arm: it arrives, or Write() throws, or there is
   no way to send it. *)
TellOff == arm' \in {arm} \cup {w \in {"off"} : CanPublish(tr)}

-----------------------------------------------------------------------------
(* The application: D1Service, D1BridgeClient and the emergency stop.       *)

(* D1Service refuses motion commands itself when its configuration says so. *)
Call(cmd) ==
    /\ cmd \in MotionCommands => config.app
    /\ up = "running" /\ running /\ Len(queue) < Backlog
    /\ queue' = Append(queue, cmd)
    /\ UNCHANGED <<threads, world, halt, tr, latest, arm>>

(* latch_estop() of the application: it calls the robot's adapter only. *)
AppEstop ==
    /\ ~estopPressed /\ estopPressed' = TRUE
    /\ UNCHANGED <<config, threads, queue, halt, tr, latest, arm>>

Application ==
    \/ \E cmd \in Commands : Call(cmd)
    \/ AppEstop

-----------------------------------------------------------------------------
(* The main thread: run(), handle_client(), handle_request().               *)

mainOnly == <<up, running, ppc, snap, stopper, world>>

\* Mutant of LatchOf: enable_motion leaves the halt latched.
LatchOfKept(cmd) == IF cmd \in {"halt", "disable_motion"} THEN TRUE ELSE halt

(* request_halt() and clear_halt(), called before the transport is touched. *)
LatchOf(cmd) ==
    CASE cmd \in {"halt", "disable_motion"} -> TRUE
      [] cmd = "enable_motion" -> FALSE
      [] OTHER -> halt

Accept ==
    /\ up = "running" /\ running /\ rpc = "accept" /\ queue # <<>>
    /\ req' = Head(queue) /\ queue' = Tail(queue)
    /\ halt' = LatchOf(req')
    /\ rpc' = "section"
    /\ UNCHANGED <<mainOnly, seen, mutex, tr, latest, arm>>

(* stop_motion(), or set_motion_enabled(false): the gate shuts first, whether
   or not the arm can be told. *)
HaltSection ==
    /\ up = "running" /\ rpc = "section" /\ ~mutex
    /\ \/ /\ req = "halt"
          /\ TellOff /\ tr' = Halted(tr)
       \/ /\ req = "disable_motion"
          /\ TellOff /\ tr' = Disabled(tr)
    /\ rpc' = "record" /\ seen' = FALSE
    /\ UNCHANGED <<mainOnly, req, mutex, queue, halt, latest>>

Allowed == IF req = "enable_motion" THEN MayEnable(tr, config.bridge) ELSE MayMove(tr, config.bridge)

(* The checks that come before a publication.  A joint command may also be
   refused for its values, for missing servo feedback or for its rate. *)
CheckSection ==
    /\ up = "running" /\ rpc = "section" /\ ~mutex /\ req \in MotionCommands
    /\ \/ Allowed /\ mutex' = TRUE /\ rpc' = "publish" /\ UNCHANGED seen
       \/ /\ Allowed => req # "enable_motion"
          /\ rpc' = "record" /\ seen' = ReportsMotion(tr) /\ UNCHANGED mutex
    /\ UNCHANGED <<mainOnly, req, queue, halt, tr, latest, arm>>

\* Mutant of PublishSection: the early return of a failed publication keeps the mutex.
PublishSectionStuck ==
    /\ up = "running" /\ rpc = "publish"
    /\ \/ /\ tr.link = "ready"
          /\ IF req = "enable_motion" THEN arm' = "enable" /\ tr' = Granted(tr)
                                          ELSE arm' = "joints" /\ UNCHANGED tr
          /\ mutex' = FALSE
       \/ UNCHANGED <<arm, tr, mutex>>
    /\ rpc' = "record" /\ seen' = ReportsMotion(tr')
    /\ UNCHANGED <<mainOnly, req, queue, halt, latest>>

(* Write(), then the grant; the publisher may be gone by now, or throw. *)
PublishSection ==
    /\ up = "running" /\ rpc = "publish"
    /\ \/ /\ tr.link = "ready"
          /\ IF req = "enable_motion" THEN arm' = "enable" /\ tr' = Granted(tr)
                                          ELSE arm' = "joints" /\ UNCHANGED tr
       \/ UNCHANGED <<arm, tr>>
    /\ mutex' = FALSE /\ rpc' = "record" /\ seen' = ReportsMotion(tr')
    /\ UNCHANGED <<mainOnly, req, queue, halt, latest>>

Record ==
    /\ up = "running" /\ rpc = "record"
    /\ latest' = seen /\ seen' = FALSE
    /\ rpc' = "reply"
    /\ UNCHANGED <<mainOnly, req, mutex, queue, halt, tr, arm>>

(* The client may have given up meanwhile (socket.timeout closes the socket):
   send() then raises SIGPIPE, which the bridge neither ignores nor handles. *)
Reply ==
    /\ up = "running" /\ rpc = "reply"
    /\ up' \in {up, "killed"}
    /\ rpc' = "accept" /\ req' = "halt"
    /\ UNCHANGED <<running, seen, ppc, snap, stopper, mutex, world, queue, halt, tr, latest, arm>>

Main == Accept \/ HaltSection \/ CheckSection \/ PublishSection \/ Record \/ Reply

-----------------------------------------------------------------------------
(* The poll thread: poll_loop().                                            *)

pollOnly == <<up, running, rpc, req, seen, stopper, mutex, world, queue, halt>>

(* connect() is tried when the arm is silent and the last try is a second ago. *)
PollCheck ==
    /\ up = "running" /\ ppc = "check"
    /\ \/ ~running /\ ppc' = "exited"
       \/ running /\ ~mutex /\ ~IsConnected(tr) /\ ppc' = "connect"
    /\ UNCHANGED <<pollOnly, snap, tr, latest, arm>>

PollConnect ==
    /\ up = "running" /\ ppc = "connect" /\ ~mutex
    /\ tr' \in Connected(tr, DryRunFallback)
    /\ ppc' = "read"
    /\ UNCHANGED <<pollOnly, snap, latest, arm>>

PollRead ==
    /\ up = "running" /\ ~mutex /\ (ppc = "read" \/ (ppc = "check" /\ running))
    /\ snap' = ReportsMotion(tr)
    /\ ppc' = "halt"
    /\ UNCHANGED <<pollOnly, tr, latest, arm>>

PollSeesHalt ==
    /\ up = "running" /\ ppc = "halt"
    /\ ppc' = IF halt THEN "stop" ELSE "store"
    /\ UNCHANGED <<pollOnly, snap, tr, latest, arm>>

PollStop ==
    /\ up = "running" /\ ppc = "stop" /\ ~mutex
    /\ TellOff /\ tr' = Halted(tr)
    /\ snap' = FALSE
    /\ ppc' = "store"
    /\ UNCHANGED <<pollOnly, latest>>

\* Mutant of PollStore: a cycle that found the arm silent keeps the last status.
PollStoreIfConnected ==
    /\ up = "running" /\ ppc = "store"
    /\ latest' = IF IsConnected(tr) \/ snap THEN snap ELSE latest
    /\ snap' = FALSE
    /\ ppc' = "check"
    /\ UNCHANGED <<pollOnly, tr, arm>>

PollStore ==
    /\ up = "running" /\ ppc = "store"
    /\ latest' = snap /\ snap' = FALSE
    /\ ppc' = "check"
    /\ UNCHANGED <<pollOnly, tr, arm>>

Poll == PollCheck \/ PollConnect \/ PollRead \/ PollSeesHalt \/ PollStop \/ PollStore

-----------------------------------------------------------------------------
(* The arm, and stop() called by the signal watcher and by run() itself.    *)

Feedback ==
    /\ up = "running" /\ tr.link # "down"
    /\ tr' \in {Heard(tr)} \cup {HeardStatus(tr, e) : e \in BOOLEAN}
    /\ UNCHANGED <<threads, world, queue, halt, latest, arm>>

(* stale_timeout_ms without a message. *)
ArmFallsSilent ==
    /\ up = "running" /\ tr.fresh
    /\ tr' = [tr EXCEPT !.fresh = FALSE]
    /\ UNCHANGED <<threads, world, queue, halt, latest, arm>>

stopOnly == <<rpc, req, seen, ppc, snap, mutex, world, queue, halt, latest, arm>>

(* SIGTERM or SIGINT; the main thread follows when it is back in its loop. *)
StopBegin(s) ==
    /\ up = "running" /\ stopper[s] = "none"
    /\ s = "main" => ~running /\ rpc = "accept"
    /\ running' = FALSE
    /\ stopper' = [stopper EXCEPT ![s] = "join"]
    /\ UNCHANGED <<up, stopOnly, tr>>

(* Two threads in join() of one std::thread is undefined: the second may come
   back, or the process is aborted. *)
StopJoin(s) ==
    /\ up = "running" /\ stopper[s] = "join" /\ ppc = "exited"
    /\ stopper' = [stopper EXCEPT ![s] = "close"]
    /\ up' \in {up} \cup {k \in {"killed"} : \A c \in StopCallers : stopper[c] = "join"}
    /\ UNCHANGED <<running, stopOnly, tr>>

(* transport_.close() is not under transport_mutex_: taking the publisher away
   from a publication in progress is undefined, too. *)
StopClose(s) ==
    /\ up = "running" /\ stopper[s] = "close"
    /\ tr' = TransportClose(tr)
    /\ stopper' = [stopper EXCEPT ![s] = "done"]
    /\ up' \in IF \A c \in StopCallers : stopper'[c] = "done" THEN {"stopped"}
               ELSE {up} \cup {k \in {"killed"} : rpc = "publish"}
    /\ UNCHANGED <<running, stopOnly>>

Stopping == \E s \in StopCallers : StopBegin(s) \/ StopJoin(s) \/ StopClose(s)

Next == Application \/ Main \/ Poll \/ Feedback \/ ArmFallsSilent \/ Stopping

Spec == Init /\ [][Next]_vars
(* The threads of the bridge are scheduled; nobody has to call, to give up, to
   press or to signal anything, and the arm may be silent for ever. *)
FairSpec == Spec /\ WF_vars(Main) /\ WF_vars(Poll)

-----------------------------------------------------------------------------
(* Between the answer to a halt and the next enable_motion the gate is shut,
   however the poll thread's reconnects, its repeated halts, and the callbacks
   of DDS interleave with the requests: the latch of D1Safety is set before the
   gate shuts and released before it opens. *)
HaltLatchDisarms == halt /\ ~(rpc = "section" /\ req \in {"halt", "disable_motion"}) => ~tr.granted

(* Joint commands reach the arm only after an enable that reached it, never
   after a halt or a disable, and never unless both configurations allow it. *)
Interlock == INSTANCE D1Interlock WITH
    configured <- config.bridge /\ config.app, gate <- tr.granted
ImplementsInterlock == Interlock!Spec

(* A halt that was sent is carried out although the poll thread competes for
   the transport and publications fail, unless the bridge ends first. *)
HaltGetsThrough ==
    (\E i \in DOMAIN queue : queue[i] = "halt") ~> (~tr.granted \/ ~running \/ up # "running")

(* While a halt stays in force, the status reported to clients settles on
   "motion disabled": a status read before the halt may be stored after it, but
   the next cycle of the poll thread replaces it. *)
HaltShown == <>[](halt /\ running /\ up = "running") => <>[](~latest)

(* GO2_QUICKSTART.md: the emergency stop of the application triggers the D1
   software halt. *)
EstopHaltsArm == estopPressed ~> (~tr.granted \/ ~running \/ up # "running")
=============================================================================
