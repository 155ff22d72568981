----------------------------- MODULE MissionStore -----------------------------
(***************************************************************************)
(* CoordinateMissionStore of src/operator_services.py: the waypoint routes *)
(* kept as files, for one route.  Requests run in parallel.  The lock      *)
(* covers a save and a deletion, but not the load with which the addition  *)
(* of a waypoint begins, and nobody takes it to read; a save empties the   *)
(* file, then writes it.                                                   *)
(***************************************************************************)
EXTENDS Naturals, FiniteSets

CONSTANTS
    Users,                   \* concurrent requests
    Waypoints                \* ids of waypoints

VARIABLES
    file,                    \* the route file, and the waypoints it last held when whole
    edit,                    \* where each request is, and the route it will save
    writer,                  \* the request that holds _lock, {} for none
    unseen                   \* history: what was saved since each request loaded

storeVars == <<file, edit, writer, unseen>>

NoEdit == [at |-> "idle", kind |-> "put", waypoints |-> {}]

StoreTypeOK ==
    /\ file \in [is: {"missing", "torn", "whole"}, waypoints: SUBSET Waypoints]
    /\ edit \in [Users -> [at: {"idle", "save", "write"}, kind: {"put", "add"},
                           waypoints: SUBSET Waypoints]]
    /\ writer \in SUBSET Users /\ Cardinality(writer) <= 1
    /\ unseen \in [Users -> SUBSET Waypoints]

StoreInit ==
    /\ file = [is |-> "missing", waypoints |-> {}]
    /\ edit = [u \in Users |-> NoEdit]
    /\ writer = {} /\ unseen = [u \in Users |-> {}]

(* POST and PUT: the whole route comes with the request. *)
Put(u, route) ==
    /\ edit[u].at = "idle"
    /\ edit' = [edit EXCEPT ![u] = [at |-> "save", kind |-> "put", waypoints |-> route]]
    /\ UNCHANGED <<file, writer, unseen>>

\* Mutant of Loaded: a file that cannot be read is taken for a missing one.
LoadedTorn(route) == IF file.is = "whole" THEN route = file.waypoints ELSE route = {}

(* load(): a torn file raises, a missing one makes the addition begin a new route. *)
Loaded(route) ==
    /\ file.is # "torn"
    /\ route = (IF file.is = "whole" THEN file.waypoints ELSE {})

(* waypoint_from_pose(): load() without the lock; a known id is refused. *)
AddLoad(u, w) ==
    /\ edit[u].at = "idle"
    /\ \E route \in SUBSET Waypoints :
          /\ Loaded(route) /\ w \notin route
          /\ edit' = [edit EXCEPT ![u] = [at |-> "save", kind |-> "add", waypoints |-> route \cup {w}]]
    /\ unseen' = [unseen EXCEPT ![u] = {}]
    /\ UNCHANGED <<file, writer>>

(* save(): write_text() truncates the file first. *)
SaveBegin(u) ==
    /\ edit[u].at = "save" /\ writer = {}
    /\ writer' = {u} /\ edit' = [edit EXCEPT ![u].at = "write"]
    /\ file' = [file EXCEPT !.is = "torn"]
    /\ UNCHANGED unseen

SaveEnd(u) ==
    /\ edit[u].at = "write"
    /\ file' = [is |-> "whole", waypoints |-> edit[u].waypoints]
    /\ unseen' = [v \in Users |-> unseen[v] \cup edit[u].waypoints]
    /\ edit' = [edit EXCEPT ![u] = NoEdit] /\ writer' = {}

(* The disk is full: the request fails, the file stays as it is. *)
SaveFails(u) ==
    /\ edit[u].at = "write"
    /\ edit' = [edit EXCEPT ![u] = NoEdit] /\ writer' = {}
    /\ UNCHANGED <<file, unseen>>

DeleteRoute(u) ==
    /\ edit[u].at = "idle" /\ writer = {} /\ file.is # "missing"
    /\ file' = [is |-> "missing", waypoints |-> {}]
    /\ UNCHANGED <<edit, writer, unseen>>

StoreNext == \E u \in Users :
    \/ \E route \in SUBSET Waypoints : Put(u, route)
    \/ \E w \in Waypoints : AddLoad(u, w)
    \/ SaveBegin(u) \/ SaveEnd(u) \/ SaveFails(u) \/ DeleteRoute(u)

StoreSpec == StoreInit /\ [][StoreNext]_storeVars

(* Adding a waypoint drops no other, except those that other requests saved
   after it had loaded the route: it never takes a file it could not read, or
   read while it was being written, for an empty route. *)
AddsForgetOnlyUnseen ==
    [][\A u \in Users :
          edit[u].at = "write" /\ edit[u].kind = "add" /\ file'.is = "whole"
             => file.waypoints \ file'.waypoints \subseteq unseen[u]]_storeVars
=============================================================================
