------------------------------ MODULE RosBridge ------------------------------
(***************************************************************************)
(* go2_bridge: BaseBridgeNode of base_bridge.py, from its constructor to   *)
(* its shutdown, with the lidar source of unitree_lidar.py that a DDS      *)
(* thread feeds, and LidarBridgeNode of lidar_bridge.py, which turns the   *)
(* point clouds of /points into scans and says when they stop coming.      *)
(*                                                                         *)
(* A node has one thread: its callbacks are actions, and none of them runs *)
(* after its spin() has ended.  A point cloud is its number; time passes   *)
(* in units that StaleAfter counts.                                        *)
(***************************************************************************)
EXTENDS RobotAdapter, Sequences

CONSTANTS
    Depth,       \* messages that the sensor-data profile of a topic keeps
    MaxClouds,   \* bound: clouds of the sensor, or of the mock
    StaleAfter   \* diagnostic_stale_after_sec

ASSUME BridgeAssumption ==
    Depth \in Nat \ {0} /\ MaxClouds \in Nat \ {0} /\ StaleAfter \in Nat \ {0}

VARIABLES
    node,         \* where the process of BaseBridgeNode is
    last_cmd,     \* _last_cmd: the velocity of the last cmd_vel
    odom,         \* the velocity of the last odometry message
    source,       \* _lidar_source: "none", "mock" or "sdk"
    publishing,   \* _lidar_timer is set
    subscribed,   \* the DDS subscription of UnitreeLidarSource
    sensor,       \* "on" while the lidar sends
    sent,         \* the last cloud of the sensor, or of the mock
    latest,       \* _latest_frame: a cloud; 0 when None or without points
    points,       \* /points: the clouds on the way to LidarBridgeNode
    scan,         \* the cloud of the last scan, 0 before the first
    heard,        \* LidarBridgeNode: _last_cloud_at is set
    cloud_age,    \* ... and the time since, as far as StaleAfter
    stale_warned  \* _stale_warning_emitted

driveVars == <<last_cmd, odom>>
lidarVars == <<source, publishing, subscribed, sensor, sent, latest>>
scanVars == <<points, scan, heard, cloud_age, stale_warned>>
bridgeVars == <<adapterVars, node, driveVars, lidarVars, scanVars>>

BridgeTypeOK ==
    /\ AdapterTypeOK
    /\ node \in {"new", "connected", "spin", "close_lidar", "stop", "disconnect", "close",
                "ended", "killed"}
    /\ last_cmd \in Speed /\ odom \in Speed
    /\ source \in {"none", "mock", "sdk"} /\ sensor \in {"on", "off"}
    /\ publishing \in BOOLEAN /\ subscribed \in BOOLEAN
    /\ sent \in 0 .. MaxClouds /\ latest \in 0 .. MaxClouds /\ scan \in 0 .. MaxClouds
    /\ points \in Seq(1 .. MaxClouds) /\ Len(points) <= Depth
    /\ cloud_age \in 0 .. StaleAfter
    /\ heard \in BOOLEAN /\ stale_warned \in BOOLEAN

BridgeInit ==
    /\ AdapterInit
    /\ node = "new"
    /\ last_cmd = 0 /\ odom = 0
    /\ source = "none" /\ publishing = FALSE /\ subscribed = FALSE
    /\ sensor = "on" /\ sent = 0 /\ latest = 0
    /\ points = <<>> /\ scan = 0
    /\ heard = FALSE /\ cloud_age = 0 /\ stale_warned = FALSE
-----------------------------------------------------------------------------
(* main() and the constructor of BaseBridgeNode                             *)

\* the adapter is found, built and connected, or the process ends
BuildConnect ==
    /\ node = "new"
    /\ \/ AdapterConnect /\ node' = "connected"
       \/ UNCHANGED adapterVars /\ node' = "ended"
    /\ UNCHANGED <<driveVars, lidarVars, scanVars>>

\* start() of UnitreeLidarSource: without the SDK, its message type or DDS there
\* is no subscription
SdkStart(started) == subscribed' = started

\* _configure_lidar_source: the source is kept even when it does not start
BuildLidar ==
    /\ node = "connected"
    /\ node' = "spin"
    /\ \/ UNCHANGED <<source, publishing, subscribed>>
       \/ source' = "mock" /\ publishing' = TRUE /\ UNCHANGED subscribed
       \/ /\ source' = "sdk"
          /\ \E started \in BOOLEAN : SdkStart(started) /\ publishing' = started
    /\ UNCHANGED <<adapterVars, driveVars, sensor, sent, latest, scanVars>>

\* an exception in the constructor: main() has no node to shut down
BuildFails ==
    /\ node = "connected"
    /\ node' = "ended"
    /\ UNCHANGED <<adapterVars, driveVars, lidarVars, scanVars>>

\* Mutant of Interrupted: main() returns without shutdown()
InterruptedReturns ==
    /\ node = "spin"
    /\ node' = "ended"
    /\ UNCHANGED <<adapterVars, driveVars, lidarVars, scanVars>>

\* spin() ends, by an interrupt or an exception, and shutdown() begins
Interrupted ==
    /\ node = "spin"
    /\ node' = IF source = "none" THEN "stop" ELSE "close_lidar"
    /\ UNCHANGED <<adapterVars, driveVars, lidarVars, scanVars>>

\* stop() of the lidar source; Close() may raise
CloseLidar ==
    /\ node = "close_lidar"
    /\ node' = "stop"
    /\ subscribed' \in {FALSE, subscribed}
    /\ UNCHANGED <<adapterVars, driveVars, source, publishing, sensor, sent, latest, scanVars>>

StopAdapter ==
    /\ node = "stop"
    /\ StopRobot
    /\ node' = "disconnect"
    /\ UNCHANGED <<driveVars, lidarVars, scanVars>>

\* disconnect(), which has the Go2 lie down; after the mock's the process ends
DisconnectAdapter ==
    /\ node = "disconnect"
    /\ AdapterDisconnect
    /\ node' = IF Hardware THEN "close" ELSE "ended"
    /\ subscribed' = (Hardware /\ subscribed)
    /\ UNCHANGED <<driveVars, source, publishing, sensor, sent, latest, scanVars>>

\* the rest of the Go2's disconnect(); then the process ends
CloseAdapter ==
    /\ node = "close"
    /\ AdapterClose
    /\ node' = "ended"
    /\ subscribed' = FALSE
    /\ UNCHANGED <<driveVars, source, publishing, sensor, sent, latest, scanVars>>

\* a signal that Python does not handle, or a second interrupt
Killed ==
    /\ node \notin {"ended", "killed"}
    /\ node' = "killed"
    /\ subscribed' = FALSE
    /\ UNCHANGED <<adapterVars, driveVars, source, publishing, sensor, sent, latest, scanVars>>
-----------------------------------------------------------------------------
(* The callbacks of BaseBridgeNode                                          *)

\* _handle_cmd_vel: the answer of the adapter is only logged
HandleCmdVel(v) ==
    /\ node = "spin"
    /\ last_cmd' = v
    /\ SendVelocity(v)
    /\ UNCHANGED <<node, odom, lidarVars, scanVars>>

\* _publish_pose, once the adapter knows a pose
PublishPose ==
    /\ node = "spin"
    /\ odom' = last_cmd
    /\ UNCHANGED <<adapterVars, node, last_cmd, lidarVars, scanVars>>

\* extract_xyz_points: the points of a cloud, none when no point is finite, or
\* an error, after which everything is as it was
Extracted(cloud, before) == {cloud, 0, before}

\* _on_message of the DDS thread: what is extracted replaces the frame
CloudArrives ==
    /\ subscribed /\ sensor = "on" /\ sent < MaxClouds
    /\ sent' = sent + 1
    /\ latest' \in Extracted(sent + 1, latest)
    /\ UNCHANGED <<adapterVars, node, driveVars, source, publishing, subscribed, sensor, scanVars>>

\* the lidar stops sending
SensorDies ==
    /\ sensor = "on"
    /\ sensor' = "off"
    /\ UNCHANGED <<adapterVars, node, driveVars, source, publishing, subscribed, sent, latest,
                   scanVars>>

\* get_latest_frame of MockLidarSource: every call makes a frame
MockFrame ==
    /\ sent' = IF sent < MaxClouds THEN sent + 1 ELSE sent
    /\ latest' = sent'

\* get_latest_frame: the SDK source hands out what it has
NextFrame == IF source = "mock" THEN MockFrame ELSE UNCHANGED <<sent, latest>>

\* publish() keeps the newest messages, and on the way any may be lost
Put(cloud) ==
    \/ points' = IF Len(points) < Depth THEN Append(points, cloud) ELSE Append(Tail(points), cloud)
    \/ UNCHANGED points

\* Mutant of PublishLidarPoints: the messages on the way are overtaken
PublishLidarPointsFirst ==
    /\ node = "spin" /\ publishing
    /\ NextFrame
    /\ latest' # 0
    /\ Len(points) < Depth
    /\ points' = <<latest'>> \o points
    /\ UNCHANGED <<adapterVars, node, driveVars, source, publishing, subscribed, sensor, scan,
                   heard, cloud_age, stale_warned>>

\* _publish_lidar_points: the latest frame, whenever it is from
PublishLidarPoints ==
    /\ node = "spin" /\ publishing
    /\ NextFrame
    /\ latest' # 0
    /\ Put(latest')
    /\ UNCHANGED <<adapterVars, node, driveVars, source, publishing, subscribed, sensor, scan,
                   heard, cloud_age, stale_warned>>
-----------------------------------------------------------------------------
(* LidarBridgeNode                                                          *)

\* _handle_points: a cloud that does not parse changes nothing
HandlePoints ==
    /\ points # <<>>
    /\ points' = Tail(points)
    /\ \/ scan' = Head(points) /\ heard' = TRUE /\ cloud_age' = 0 /\ stale_warned' = FALSE
       \/ UNCHANGED <<scan, heard, cloud_age, stale_warned>>
    /\ UNCHANGED <<adapterVars, node, driveVars, lidarVars>>

\* Mutant of EmitDiagnostics: only a node that has heard nothing warns
EmitDiagnosticsAtFirst ==
    /\ ~stale_warned /\ ~heard
    /\ stale_warned' = TRUE
    /\ UNCHANGED <<adapterVars, node, driveVars, lidarVars, points, scan, heard, cloud_age>>

\* _emit_diagnostics: nothing heard yet, or nothing for too long
EmitDiagnostics ==
    /\ ~stale_warned
    /\ ~heard \/ cloud_age >= StaleAfter
    /\ stale_warned' = TRUE
    /\ UNCHANGED <<adapterVars, node, driveVars, lidarVars, points, scan, heard, cloud_age>>

TimePasses ==
    /\ heard /\ cloud_age < StaleAfter
    /\ cloud_age' = cloud_age + 1
    /\ UNCHANGED <<adapterVars, node, driveVars, lidarVars, points, scan, heard, stale_warned>>
-----------------------------------------------------------------------------
BridgeNode ==
    \/ BuildConnect \/ BuildLidar \/ BuildFails
    \/ Interrupted \/ CloseLidar \/ StopAdapter \/ DisconnectAdapter \/ CloseAdapter
    \/ Killed
    \/ (\E v \in Speed : HandleCmdVel(v)) \/ PublishPose \/ PublishLidarPoints

BridgeNext ==
    \/ BridgeNode
    \/ CloudArrives \/ SensorDies
    \/ HandlePoints \/ EmitDiagnostics \/ TimePasses

BridgeSpec == BridgeInit /\ [][BridgeNext]_bridgeVars
-----------------------------------------------------------------------------
(* Properties                                                               *)

\* A bridge that has ended, in whatever way but a kill, has left the robot at
\* rest: commands come until spin() ends, and none afterwards undoes the stop
\* (main and shutdown of BaseBridgeNode).
BridgeEndsAtRest == node = "ended" => robot_velocity = 0 \/ "stop" \in Faults

\* The robot is made to lie down by disconnect(), and is put out of reach by it,
\* only when it has been stopped: nobody but the one thread of the node could
\* send a Move in between (the order of shutdown()).
StoppedBeforeSeated ==
    [][(node = "disconnect" /\ node' # "killed") \/ (connected /\ ~connected')
           => robot_velocity = 0 \/ "stop" \in Faults]_bridgeVars

\* The odometry reports the last command as the velocity of the robot: while
\* the bridge runs it is, unless a Move has failed (_handle_cmd_vel,
\* _publish_pose).
OdometryTellsTruth ==
    [][odom' # odom => odom' = robot_velocity' \/ "move" \in Faults]_bridgeVars

\* A scan never goes back to an older cloud, whatever the DDS thread, the timer
\* and the topic between the nodes do (_on_message, _publish_lidar_points,
\* _handle_points).
ScanNeverOlder == [][scan' >= scan]_bridgeVars

\* A warning that stands is true: no cloud has come yet, or none for as long as
\* it says (_emit_diagnostics against _handle_points).
WarningIsTrue == stale_warned => ~heard \/ cloud_age = StaleAfter

\* When the bridge has gone, LidarBridgeNode says that its input is stale.
LostPublisherReported == node \in {"ended", "killed"} ~> stale_warned
=============================================================================
