-------------------------------- MODULE MCRos --------------------------------
(***************************************************************************)
(* The nodes of the ROS workspace, model-checked in one run: the mission   *)
(* executor, the base bridge with the lidar bridge, the camera bridge, and *)
(* the projection of a cloud.  Their state is their own, so each behaviour *)
(* picks one of them and exercises it alone: the states are the sum of     *)
(* theirs, not the product.                                                *)
(***************************************************************************)
EXTENDS RosMission, RosBridge, CameraBridge, ScanProjection, TLC

VARIABLE exercised         \* the node this behaviour exercises

mcVars == <<exercised, vars, bridgeVars, cameraVars, projectVars>>

\* Clouds of up to two points, in and out of the reach of the scan.
SmallPoints == [angle : -3 .. 4, distance : 0 .. 3, height : {0, 1}]
SmallClouds == UNION {[1 .. n -> SmallPoints] : n \in 0 .. 2}
LeftEdge == -2

MCInit ==
    /\ exercised \in {"mission", "bridge", "camera", "scan"}
    /\ Init /\ BridgeInit /\ CameraInit /\ ProjectInit
    /\ exercised = "camera" \/ ~(required \/ library \/ plugged)
    /\ exercised = "scan" \/ cloud = <<>>

Alone(name) == exercised = name /\ UNCHANGED exercised

MCNext ==
    \/ Alone("mission") /\ Next /\ UNCHANGED <<bridgeVars, cameraVars, projectVars>>
    \/ Alone("bridge") /\ BridgeNext /\ UNCHANGED <<vars, cameraVars, projectVars>>
    \/ Alone("camera") /\ CameraNext /\ UNCHANGED <<vars, bridgeVars, projectVars>>
    \/ Alone("scan") /\ ProjectPoint /\ UNCHANGED <<vars, bridgeVars, cameraVars>>

\* Each node goes on where it is the one that is exercised: the timers of the
\* two bridge nodes fire, what arrives is handled and time passes; the retry
\* timer of the camera fires, and an attempt comes to its end.
MCFairness ==
    /\ RosFairness
    /\ WF_bridgeVars(exercised = "bridge" /\ PublishLidarPoints)
    /\ WF_bridgeVars(exercised = "bridge" /\ HandlePoints)
    /\ WF_bridgeVars(exercised = "bridge" /\ EmitDiagnostics)
    /\ WF_bridgeVars(exercised = "bridge" /\ TimePasses)
    /\ WF_cameraVars(exercised = "camera" /\ Ensure)

MCSpec == MCInit /\ [][MCNext]_mcVars /\ MCFairness
=============================================================================
