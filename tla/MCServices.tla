------------------------------ MODULE MCServices ------------------------------
(***************************************************************************)
(* The services of the web application, model-checked in one run.  They    *)
(* share no state, so each behaviour picks one service and exercises it    *)
(* alone: the states are the sum of theirs, not the product.               *)
(***************************************************************************)
EXTENDS RosProcesses, MissionStore, Events, Telemetry, Realsense

VARIABLE exercised         \* the service this behaviour exercises

mcVars == <<exercised, processVars, storeVars, eventVars, telemetryVars, realsenseVars>>

MCInit ==
    /\ exercised \in {"processes", "store", "events", "telemetry", "realsense"}
    /\ ProcessInit /\ StoreInit /\ EventInit /\ TelemetryInit /\ RealsenseInit

Alone(name) == exercised = name /\ UNCHANGED exercised

MCNext ==
    \/ /\ Alone("processes") /\ ProcessNext
       /\ UNCHANGED <<storeVars, eventVars, telemetryVars, realsenseVars>>
    \/ /\ Alone("store") /\ StoreNext
       /\ UNCHANGED <<processVars, eventVars, telemetryVars, realsenseVars>>
    \/ /\ Alone("events") /\ EventNext
       /\ UNCHANGED <<processVars, storeVars, telemetryVars, realsenseVars>>
    \/ /\ Alone("telemetry") /\ TelemetryNext
       /\ UNCHANGED <<processVars, storeVars, eventVars, realsenseVars>>
    \/ /\ Alone("realsense") /\ RealsenseNext
       /\ UNCHANGED <<processVars, storeVars, eventVars, telemetryVars>>

MCSpec == MCInit /\ [][MCNext]_mcVars /\ TelemetryFairness

(* Every service keeps its state within what its type says. *)
ServicesTypeOK ==
    ProcessTypeOK /\ StoreTypeOK /\ EventTypeOK /\ TelemetryTypeOK /\ RealsenseTypeOK
=============================================================================
