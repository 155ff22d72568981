----------------------------- MODULE RosProcesses -----------------------------
(***************************************************************************)
(* RosProcessService of src/operator_services.py: the ROS launches the     *)
(* operator starts and stops from the web page.  Requests run in parallel; *)
(* a stop releases the lock while it waits for its process, and the        *)
(* shutdown of the application stops what is registered once the requests  *)
(* are drained.  Arguments of the launches and the results are left out.   *)
(***************************************************************************)
EXTENDS Naturals, Sequences

CONSTANTS
    Clients,                 \* concurrent requests
    Server,                  \* the thread that shuts the application down
    MaxLaunches              \* bound on the processes started

ASSUME ProcessAssumption == Server \notin Clients /\ MaxLaunches \in Nat

VARIABLES
    processes,               \* _processes: the launch registered under a key, 0 for none
    launches,                \* every process started, in order
    request,                 \* where each request is, and the launch it waits for
    closing                  \* "open", "closing", "closed" or "failed"

processVars == <<processes, launches, request, closing>>

Keys == {"mapping", "navigation"}
Launch == [key: Keys, is: {"running", "signalled", "exited"}]
Idle == [at |-> "idle", launch |-> 0]

ProcessTypeOK ==
    /\ processes \in [Keys -> 0..Len(launches)]
    /\ launches \in Seq(Launch) /\ Len(launches) <= MaxLaunches
    /\ request \in [Clients \cup {Server} -> [at: {"idle", "wait", "wait_killed"}, launch: 0..Len(launches)]]
    /\ closing \in {"open", "closing", "closed", "failed"}

ProcessInit ==
    /\ processes = [k \in Keys |-> 0] /\ launches = <<>>
    /\ request = [c \in Clients \cup {Server} |-> Idle]
    /\ closing = "open"

Alive(p) == p # 0 /\ launches[p].is # "exited"

\* Mutant of CleanupFinished: whatever is registered is taken out.
CleanupAny(k) == [processes EXCEPT ![k] = 0]

(* _cleanup_finished_locked() *)
CleanupFinished(k) == IF Alive(processes[k]) THEN processes ELSE [processes EXCEPT ![k] = 0]

Signal(p) == launches' = [launches EXCEPT ![p].is = "signalled"]

(* A live process is kept; otherwise the launch may fail, after the cleanup. *)
StartProcess(c, k) ==
    /\ closing = "open" /\ request[c].at = "idle" /\ ~Alive(processes[k])
    /\ \/ processes' = CleanupFinished(k) /\ UNCHANGED launches
       \/ /\ Len(launches) < MaxLaunches
          /\ launches' = Append(launches, [key |-> k, is |-> "running"])
          /\ processes' = [processes EXCEPT ![k] = Len(launches')]
    /\ UNCHANGED <<request, closing>>

(* The first section: there is nothing to stop, or SIGTERM is sent. *)
StopBegin(c, k) ==
    /\ request[c].at = "idle"
    /\ IF Alive(processes[k])
       THEN /\ Signal(processes[k])
            /\ request' = [request EXCEPT ![c] = [at |-> "wait", launch |-> processes[k]]]
            /\ UNCHANGED processes
       ELSE processes' = CleanupFinished(k) /\ UNCHANGED <<launches, request>>

\* Mutant of StopKill: a killed process is taken out without waiting for its end.
StopKillUnwaited(c) ==
    /\ request[c].at = "wait" /\ Alive(request[c].launch)
    /\ Signal(request[c].launch)
    /\ processes' = [processes EXCEPT ![launches[request[c].launch].key] = 0]
    /\ request' = [request EXCEPT ![c] = Idle]
    /\ UNCHANGED closing

(* 10 s later it is killed; 5 s after that wait() raises and nothing is cleaned up. *)
StopKill(c) ==
    /\ request[c].at = "wait" /\ Alive(request[c].launch)
    /\ Signal(request[c].launch)
    /\ request' = [request EXCEPT ![c].at = "wait_killed"]
    /\ UNCHANGED <<processes, closing>>

StopRaises(c) ==
    /\ request[c].at = "wait_killed" /\ Alive(request[c].launch)
    /\ request' = [request EXCEPT ![c] = Idle]
    /\ closing' = IF c = Server THEN "failed" ELSE closing
    /\ UNCHANGED <<processes, launches>>

(* The second section cleans up what is registered now, not what was stopped. *)
StopEnd(c) ==
    /\ request[c].at # "idle" /\ ~Alive(request[c].launch)
    /\ processes' = CleanupFinished(launches[request[c].launch].key)
    /\ request' = [request EXCEPT ![c] = Idle]
    /\ UNCHANGED <<launches, closing>>

(* status() cleans up on the way. *)
ProcessStatus(k) ==
    /\ closing = "open" /\ processes' = CleanupFinished(k)
    /\ UNCHANGED <<launches, request, closing>>

(* The web server has drained its requests when the lifespan ends. *)
ShutdownBegin ==
    /\ closing = "open" /\ \A c \in Clients : request[c].at = "idle"
    /\ closing' = "closing"
    /\ UNCHANGED <<processes, launches, request>>

(* One registered key after the other; an exception ends the loop, and with it
   the rest of the shutdown. *)
ShutdownStops ==
    /\ closing = "closing"
    /\ \E k \in Keys : processes[k] # 0 /\ StopBegin(Server, k)
    /\ UNCHANGED closing

ShutdownEnds ==
    /\ closing = "closing" /\ request[Server].at = "idle"
    /\ \A k \in Keys : processes[k] = 0
    /\ closing' = "closed"
    /\ UNCHANGED <<processes, launches, request>>

(* The kernel: a launch ends by itself or when it was signalled. *)
LaunchExits(p) ==
    /\ p \in DOMAIN launches /\ Alive(p)
    /\ launches' = [launches EXCEPT ![p].is = "exited"]
    /\ UNCHANGED <<processes, request, closing>>

Waiting(c) == StopKill(c) \/ StopRaises(c) \/ StopEnd(c)

ProcessNext ==
    \/ \E c \in Clients, k \in Keys :
          StartProcess(c, k) \/ (closing = "open" /\ StopBegin(c, k) /\ UNCHANGED closing)
    \/ \E k \in Keys : ProcessStatus(k)
    \/ \E c \in Clients \cup {Server} : Waiting(c)
    \/ ShutdownBegin \/ ShutdownStops \/ ShutdownEnds
    \/ \E p \in 1..MaxLaunches : LaunchExits(p)

ProcessSpec == ProcessInit /\ [][ProcessNext]_processVars

(* A process that lives is the one registered under its key, so that a later
   stop finds it: no start or cleanup between the two sections of a stop loses
   one, and there are never two for a key. *)
ChildrenRegistered == \A p \in DOMAIN launches : Alive(p) => processes[launches[p].key] = p

(* After a shutdown that came to its end no launch is left behind. *)
ShutdownLeavesNoChild == closing = "closed" => \A p \in DOMAIN launches : ~Alive(p)
=============================================================================
