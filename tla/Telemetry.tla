------------------------------ MODULE Telemetry ------------------------------
(***************************************************************************)
(* TelemetryService of src/telemetry.py, which polls the robot and feeds   *)
(* RobotStateMachine of src/state_machine.py, and the start of the         *)
(* application that primes it.  The effective state is what the endpoints  *)
(* that start a mission ask, through can_move(), before they call          *)
(* MissionManager.  notify_motion() is called by nobody: _is_moving stays  *)
(* false.                                                                  *)
(***************************************************************************)
EXTENDS Naturals

VARIABLES
    phase,                   \* _start_runtime(): "off", "control", "adapter" or "serving"
    connected,               \* runtime.adapter_connected
    latched, paused,         \* what control.current() reports
    effective,               \* _effective
    poller,                  \* the polling thread, "none" before it runs
    seen                     \* what the poll has read

telemetryVars == <<phase, connected, latched, paused, effective, poller, seen>>

Effective == {"disconnected", "ready", "paused", "estop"}
Seen == [connected: BOOLEAN, latched: BOOLEAN, paused: BOOLEAN]
Nothing == [connected |-> FALSE, latched |-> FALSE, paused |-> FALSE]

TelemetryTypeOK ==
    /\ phase \in {"off", "control", "adapter", "serving"}
    /\ connected \in BOOLEAN /\ latched \in BOOLEAN /\ paused \in BOOLEAN
    /\ effective \in Effective /\ seen \in Seen
    /\ poller \in {"none", "sleep", "store", "current", "connected", "update"}

TelemetryInit ==
    /\ phase = "off" /\ connected = FALSE /\ latched = FALSE /\ paused = FALSE
    /\ effective = "disconnected" /\ poller = "none" /\ seen = Nothing

\* Mutant of DeriveState: the connection is asked first.
DeriveStateConnected(s) ==
    IF ~s.connected THEN "disconnected" ELSE IF s.latched THEN "estop"
    ELSE IF s.paused THEN "paused" ELSE "ready"

(* derive_state(), with telemetry present and no motion notified. *)
DeriveState(s) ==
    IF s.latched THEN "estop" ELSE IF ~s.connected THEN "disconnected"
    ELSE IF s.paused THEN "paused" ELSE "ready"

(* control.start() has run; a failing connect() latches the ESTOP. *)
ConnectAdapter ==
    /\ phase = "off" /\ phase' = "control"
    /\ \/ connected' = TRUE /\ UNCHANGED latched
       \/ latched' = TRUE /\ UNCHANGED connected
    /\ UNCHANGED <<paused, effective, poller, seen>>

(* Only a connected adapter primes the state machine; get_state() may fail. *)
Prime ==
    /\ phase = "control" /\ phase' = "adapter"
    /\ effective' \in {effective, IF connected THEN DeriveState([Nothing EXCEPT !.connected = TRUE])
                                  ELSE effective}
    /\ UNCHANGED <<connected, latched, paused, poller, seen>>

(* start(): if the first snapshot fails there is no polling thread at all. *)
StartTelemetry ==
    /\ phase = "adapter" /\ phase' = "serving"
    /\ poller' \in {"none", "sleep"}
    /\ UNCHANGED <<connected, latched, paused, effective, seen>>

(* Requests and missions: the flags change under the poll. *)
ControlChanges ==
    /\ phase = "serving"
    /\ latched' \in BOOLEAN /\ paused' \in BOOLEAN
    /\ <<latched', paused'>> # <<latched, paused>>
    /\ UNCHANGED <<phase, connected, effective, poller, seen>>

ConnectionChanges ==
    /\ phase = "serving" /\ connected' = ~connected
    /\ UNCHANGED <<phase, latched, paused, effective, poller, seen>>

PollAt(from, to) == poller = from /\ poller' = to

PollUnchanged == UNCHANGED <<phase, connected, latched, paused>>

(* An exception of the adapter or of the storage ends this round only. *)
PollCapture == PollAt("sleep", "store") /\ UNCHANGED <<effective, seen>> /\ PollUnchanged
PollStored == PollAt("store", "current") /\ UNCHANGED <<effective, seen>> /\ PollUnchanged
PollFails == PollAt("store", "sleep") /\ UNCHANGED <<effective, seen>> /\ PollUnchanged

PollCurrent ==
    /\ PollAt("current", "connected")
    /\ seen' = [seen EXCEPT !.latched = latched, !.paused = paused]
    /\ UNCHANGED effective /\ PollUnchanged

PollConnected ==
    /\ PollAt("connected", "update")
    /\ seen' = [seen EXCEPT !.connected = connected]
    /\ UNCHANGED effective /\ PollUnchanged

PollUpdate ==
    /\ PollAt("update", "sleep")
    /\ effective' = DeriveState(seen)
    /\ UNCHANGED seen /\ PollUnchanged

Poll == PollCapture \/ PollStored \/ PollFails \/ PollCurrent \/ PollConnected \/ PollUpdate

TelemetryNext ==
    \/ ConnectAdapter \/ Prime \/ StartTelemetry
    \/ ControlChanges \/ ConnectionChanges \/ Poll

(* The thread goes on, and the disk does not fail for ever. *)
TelemetryFairness == WF_telemetryVars(Poll) /\ SF_telemetryVars(PollStored)

TelemetrySpec == TelemetryInit /\ [][TelemetryNext]_telemetryVars /\ TelemetryFairness

Polling == poller # "none"

(* Once the thread runs and the flags stand still, the effective state
   becomes theirs and stays: an ESTOP shows even on a lost connection, and no
   round that read the flags before they changed has the last word. *)
EffectiveSettles ==
    /\ <>[](Polling /\ latched) => <>[](effective = "estop")
    /\ <>[](Polling /\ ~latched /\ ~connected) => <>[](effective = "disconnected")
    /\ <>[](Polling /\ ~latched /\ connected /\ paused) => <>[](effective = "paused")
    /\ <>[](Polling /\ ~latched /\ connected /\ ~paused) => <>[](effective = "ready")
=============================================================================
