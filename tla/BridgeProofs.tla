----------------------------- MODULE BridgeProofs -----------------------------
(***************************************************************************)
(* The ROS bridge of the robot: what its three nodes promise of the drive, *)
(* of the scans and of the camera, for every length of the queues, every   *)
(* number of clouds and of failures, both adapters, and every scan.        *)
(***************************************************************************)
EXTENDS RosBridge, CameraBridge, ScanProjection, SequenceTheorems, TLAPS

-----------------------------------------------------------------------------
(* BaseBridgeNode: the robot while the node comes, runs and goes.           *)

\* From its constructor to the end of its shutdown the node has an adapter
\* that can move the robot.
AdapterThere ==
    /\ node \in {"connected", "spin", "close_lidar", "stop", "disconnect", "close"} => connected
    /\ node \in {"connected", "spin"} => Hardware \/ can_move

\* The robot stands still before the first command and after the stop.
AtRest ==
    /\ node \in {"new", "connected"} => robot_velocity = 0 /\ last_cmd = 0
    /\ node \in {"disconnect", "close", "ended"} => robot_velocity = 0 \/ "stop" \in Faults

\* While commands are taken, the last one is what the robot does.
LastCmdDriven == node = "spin" => last_cmd = robot_velocity \/ "move" \in Faults

DriveInv == AdapterThere /\ AtRest /\ LastCmdDriven

-----------------------------------------------------------------------------
(* The clouds from the sensor to the scan are in order.                     *)

CloudsInOrder ==
    /\ latest <= sent /\ scan <= sent
    /\ \A i \in 1 .. Len(points) : scan <= points[i] /\ points[i] <= sent
    /\ \A i, j \in 1 .. Len(points) : i <= j => points[i] <= points[j]
    /\ latest # 0 =>
           scan <= latest /\ \A i \in 1 .. Len(points) : points[i] <= latest

BridgeInv == BridgeTypeOK /\ DriveInv /\ CloudsInOrder /\ WarningIsTrue

-----------------------------------------------------------------------------
LEMMA ZeroIsSpeed == 0 \in Speed
BY ProfileAssumption DEF Speed

\* Every call of the adapter that the node makes keeps its types.
LEMMA AdapterCallsTyped ==
    ASSUME AdapterTypeOK,
           \/ AdapterConnect \/ AdapterDisconnect \/ AdapterClose \/ StopRobot
           \/ \E v \in Speed : SendVelocity(v)
    PROVE  AdapterTypeOK'
<1> USE ZeroIsSpeed, AdapterAssumption DEF AdapterTypeOK
<1>1. CASE AdapterConnect
  <2>1. /\ (connected \in BOOLEAN)' /\ (can_move \in BOOLEAN)' /\ (manual_active \in BOOLEAN)'
        /\ (left_moving \in BOOLEAN)'
    BY <1>1, Zenon DEF AdapterConnect
  <2> QED BY <1>1, <2>1, Zenon DEF AdapterConnect
<1>2. CASE AdapterDisconnect
  <2>1. robot_velocity' \in Speed /\ (left_moving \in BOOLEAN)'
    BY <1>2, Zenon DEF AdapterDisconnect, ZeroVelocity
  <2>2. /\ (connected \in BOOLEAN)' /\ (can_move \in BOOLEAN)' /\ (manual_active \in BOOLEAN)'
    BY <1>2, Zenon DEF AdapterDisconnect
  <2> QED BY <2>1, <2>2, Zenon
<1>3. CASE AdapterClose
  <2>1. /\ (connected \in BOOLEAN)' /\ (left_moving \in BOOLEAN)' /\ (manual_active \in BOOLEAN)'
    BY <1>3, Zenon DEF AdapterClose
  <2> QED BY <1>3, <2>1, Zenon DEF AdapterClose
<1>4. CASE StopRobot
  <2>1. robot_velocity' \in Speed /\ (left_moving \in BOOLEAN)'
    BY <1>4, Zenon DEF StopRobot, ZeroVelocity
  <2> QED BY <1>4, <2>1, Zenon DEF StopRobot
<1>5. CASE \E v \in Speed : SendVelocity(v)
  <2>1. robot_velocity' \in Speed /\ (left_moving \in BOOLEAN)'
    BY <1>5, Zenon DEF SendVelocity
  <2> QED BY <1>5, <2>1, Zenon DEF SendVelocity
<1> QED BY <1>1, <1>2, <1>3, <1>4, <1>5

\* A message that is put on /points comes last, the oldest may make room for it.
LEMMA PutProperties ==
    ASSUME NEW c \in 1 .. MaxClouds,
           points \in Seq(1 .. MaxClouds), Len(points) <= Depth,
           Put(c)
    PROVE  /\ points' \in Seq(1 .. MaxClouds) /\ Len(points') <= Depth
           /\ \/ points' = points
              \/ \E d \in {0, 1} :
                    /\ d <= Len(points) /\ Len(points') = Len(points) - d + 1
                    /\ points'[Len(points')] = c
                    /\ \A i \in 1 .. (Len(points) - d) : points'[i] = points[i + d]
<1>1. Len(points) \in Nat /\ Depth \in Nat \ {0}
  BY LenProperties, BridgeAssumption
<1>2. CASE UNCHANGED points
  BY <1>2
<1>3. CASE Len(points) < Depth /\ points' = Append(points, c)
  <2>1. /\ points' \in Seq(1 .. MaxClouds) /\ Len(points') = Len(points) + 1
        /\ points'[Len(points) + 1] = c
        /\ \A i \in 1 .. Len(points) : points'[i] = points[i]
    BY <1>3, AppendProperties
  <2>2. \A i \in 1 .. (Len(points) - 0) : points'[i] = points[i + 0]
    BY <1>1, <2>1
  <2> QED BY <1>1, <1>3, <2>1, <2>2
<1>4. CASE Len(points) >= Depth /\ points' = Append(Tail(points), c)
  <2> DEFINE rest == Tail(points)
  <2>1. points # <<>>
    BY <1>1, <1>4, EmptySeq
  <2>2. /\ rest \in Seq(1 .. MaxClouds) /\ Len(rest) = Len(points) - 1
        /\ \A i \in 1 .. Len(rest) : rest[i] = points[i + 1]
    BY <2>1, HeadTailProperties
  <2>3. points' = Append(rest, c)
    BY <1>4
  <2> HIDE DEF rest
  <2>4. /\ points' \in Seq(1 .. MaxClouds) /\ Len(points') = Len(rest) + 1
        /\ points'[Len(rest) + 1] = c
        /\ \A i \in 1 .. Len(rest) : points'[i] = rest[i]
    BY <2>2, <2>3, AppendProperties
  <2>5. Len(points) >= 1 /\ Len(points') = Len(points)
    BY <1>1, <1>4, <2>2, <2>4
  <2>6. \A i \in 1 .. (Len(points) - 1) : points'[i] = points[i + 1]
    BY <2>2, <2>4
  <2> QED BY <1>1, <1>4, <2>2, <2>4, <2>5, <2>6
<1> QED BY <1>1, <1>2, <1>3, <1>4 DEF Put

-----------------------------------------------------------------------------
LEMMA BridgeInvInit == BridgeInit => BridgeInv
<1> SUFFICES ASSUME BridgeInit PROVE BridgeInv
  OBVIOUS
<1> USE DEF BridgeInit
<1>1. AdapterTypeOK
  BY ZeroIsSpeed, Zenon DEF AdapterInit, AdapterTypeOK
<1>2. points \in Seq(1 .. MaxClouds) /\ Len(points) = 0
  OBVIOUS
<1>3. BridgeTypeOK
  <2>1. publishing \in BOOLEAN /\ subscribed \in BOOLEAN /\ heard \in BOOLEAN /\ stale_warned \in BOOLEAN
    BY Zenon
  <2>2. sent \in 0 .. MaxClouds /\ latest \in 0 .. MaxClouds /\ scan \in 0 .. MaxClouds
        /\ cloud_age \in 0 .. StaleAfter /\ Len(points) <= Depth
    BY <1>2, BridgeAssumption
  <2> QED BY <1>1, <1>2, <2>1, <2>2, ZeroIsSpeed, Zenon DEF BridgeTypeOK
<1>4. DriveInv
  BY DEF AdapterInit, DriveInv, AdapterThere, AtRest, LastCmdDriven
<1>5. CloudsInOrder
  BY <1>2 DEF CloudsInOrder
<1>6. WarningIsTrue
  BY Zenon DEF WarningIsTrue
<1> QED BY <1>3, <1>4, <1>5, <1>6 DEF BridgeInv

-----------------------------------------------------------------------------
(* The drive.                                                               *)

\* What the callbacks of the clouds and of the time leave alone.
LEMMA DriveUntouched ==
    ASSUME AdapterTypeOK, DriveInv, UNCHANGED <<adapterVars, node, last_cmd>>
    PROVE  AdapterTypeOK' /\ DriveInv'
BY DEF adapterVars, AdapterTypeOK, DriveInv, AdapterThere, AtRest, LastCmdDriven

\* The stop reaches a robot whose adapter is connected, or it fails.
LEMMA StopsOrFails ==
    ASSUME connected, ZeroVelocity
    PROVE  robot_velocity' = 0 \/ "stop" \in Faults
BY DEF ZeroVelocity, Swallowed

LEMMA DriveStep ==
    ASSUME BridgeTypeOK, DriveInv, BridgeNext
    PROVE  AdapterTypeOK' /\ DriveInv'
<1> USE DEF DriveInv, AdapterThere, AtRest, LastCmdDriven
<1>0. AdapterTypeOK
  BY DEF BridgeTypeOK
<1>1. CASE BuildConnect
  <2>1. CASE AdapterConnect /\ node' = "connected" /\ UNCHANGED last_cmd
    <3>1. AdapterTypeOK'
      BY <1>0, <2>1, AdapterCallsTyped
    <3>2. connected' /\ (Hardware \/ can_move') /\ robot_velocity' = 0 /\ last_cmd' = 0
      BY <1>1, <2>1, AdapterAssumption, Zenon DEF BuildConnect, AdapterConnect
    <3> QED BY <2>1, <3>1, <3>2
  <2>2. CASE UNCHANGED adapterVars /\ node' = "ended" /\ UNCHANGED last_cmd
    BY <1>0, <1>1, <2>2 DEF BuildConnect, adapterVars, AdapterTypeOK
  <2> QED BY <1>1, <2>1, <2>2 DEF BuildConnect, driveVars
<1>2. CASE BuildLidar
  BY <1>0, <1>2 DEF BuildLidar, adapterVars, driveVars, AdapterTypeOK
<1>3. CASE BuildFails
  BY <1>0, <1>3 DEF BuildFails, adapterVars, driveVars, AdapterTypeOK
<1>4. CASE Interrupted
  BY <1>0, <1>4 DEF Interrupted, adapterVars, driveVars, AdapterTypeOK
<1>5. CASE CloseLidar
  BY <1>0, <1>5 DEF CloseLidar, adapterVars, driveVars, AdapterTypeOK
<1>6. CASE StopAdapter
  <2>1. AdapterTypeOK'
    BY <1>0, <1>6, AdapterCallsTyped DEF StopAdapter
  <2>2. robot_velocity' = 0 \/ "stop" \in Faults
    BY <1>6, StopsOrFails DEF StopAdapter, StopRobot
  <2>3. connected' /\ node' = "disconnect"
    BY <1>6 DEF StopAdapter, StopRobot
  <2> QED BY <2>1, <2>2, <2>3
<1>7. CASE DisconnectAdapter
  <2>1. AdapterTypeOK'
    BY <1>0, <1>7, AdapterCallsTyped DEF DisconnectAdapter
  <2>2. robot_velocity' = 0 \/ "stop" \in Faults
    BY <1>7, StopsOrFails DEF DisconnectAdapter, AdapterDisconnect
  <2>3. (node' = "close" /\ connected') \/ node' = "ended"
    BY <1>7, AdapterAssumption DEF DisconnectAdapter, AdapterDisconnect
  <2> QED BY <2>1, <2>2, <2>3
<1>8. CASE Killed
  BY <1>0, <1>8 DEF Killed, adapterVars, driveVars, AdapterTypeOK
<1>9. CASE \E v \in Speed : HandleCmdVel(v)
  <2> PICK v \in Speed : HandleCmdVel(v)
    BY <1>9
  <2>1. AdapterTypeOK'
    BY <1>0, AdapterCallsTyped DEF HandleCmdVel
  <2>2. connected' /\ (Hardware \/ can_move') /\ node = "spin" /\ node' = "spin" /\ last_cmd' = v
    BY DEF HandleCmdVel, SendVelocity
  <2>3. robot_velocity' = v \/ "move" \in Faults
    BY <2>2 DEF HandleCmdVel, SendVelocity, Swallowed
  <2> QED BY <2>1, <2>2, <2>3
<1>10. CASE \/ PublishPose \/ PublishLidarPoints \/ CloudArrives \/ SensorDies
            \/ HandlePoints \/ EmitDiagnostics \/ TimePasses
  <2>1. UNCHANGED <<adapterVars, node, last_cmd>>
    BY <1>10 DEF PublishPose, PublishLidarPoints, CloudArrives, SensorDies, HandlePoints,
                 EmitDiagnostics, TimePasses, driveVars
  <2> QED BY <1>0, <2>1, DriveUntouched
<1>11. CASE CloseAdapter
  <2>1. AdapterTypeOK'
    BY <1>0, <1>11, AdapterCallsTyped DEF CloseAdapter
  <2>2. node = "close" /\ node' = "ended" /\ UNCHANGED robot_velocity
    BY <1>11 DEF CloseAdapter, AdapterClose
  <2> QED BY <2>1, <2>2
<1> QED BY <1>1, <1>2, <1>3, <1>4, <1>5, <1>6, <1>7, <1>8, <1>9, <1>10, <1>11
        DEF BridgeNext, BridgeNode

-----------------------------------------------------------------------------
(* The clouds.                                                              *)

\* The part of BridgeTypeOK that is about the clouds.
CloudTypeOK ==
    /\ sent \in 0 .. MaxClouds /\ latest \in 0 .. MaxClouds /\ scan \in 0 .. MaxClouds
    /\ points \in Seq(1 .. MaxClouds) /\ Len(points) <= Depth

\* get_latest_frame: what it hands out is the frame, or one behind it.
LEMMA NextFrameInOrder ==
    ASSUME CloudTypeOK, CloudsInOrder, NextFrame
    PROVE  /\ sent' \in 0 .. MaxClouds /\ latest' \in 0 .. MaxClouds
           /\ sent <= sent' /\ latest' <= sent'
           /\ latest' # 0 =>
                  scan <= latest' /\ \A i \in 1 .. Len(points) : points[i] <= latest'
<1>1. CASE source = "mock"
  <2>1. sent' \in 0 .. MaxClouds /\ sent <= sent' /\ latest' = sent'
    BY <1>1, BridgeAssumption DEF NextFrame, MockFrame, CloudTypeOK
  <2>2. \A i \in 1 .. Len(points) : points[i] \in 1 .. MaxClouds
    BY ElementOfSeq DEF CloudTypeOK
  <2>3. sent \in Int /\ sent' \in Int /\ scan \in Int
    BY <2>1, BridgeAssumption DEF CloudTypeOK
  <2>4. \A i \in 1 .. Len(points) : points[i] \in Int /\ points[i] <= sent
    BY <2>2 DEF CloudsInOrder
  <2>5. \A i \in 1 .. Len(points) : points[i] <= sent'
    BY <2>1, <2>3, <2>4
  <2> QED BY <2>1, <2>3, <2>5 DEF CloudsInOrder
<1>2. CASE source # "mock"
  BY <1>2 DEF NextFrame, CloudsInOrder, CloudTypeOK
<1> QED BY <1>1, <1>2

LEMMA PublishInOrder ==
    ASSUME CloudTypeOK, CloudsInOrder, PublishLidarPoints
    PROVE  CloudTypeOK' /\ CloudsInOrder'
<1>1. /\ sent' \in 0 .. MaxClouds /\ latest' \in 1 .. MaxClouds
      /\ sent <= sent' /\ latest' <= sent' /\ scan' = scan /\ scan <= latest'
      /\ \A i \in 1 .. Len(points) : points[i] <= latest'
  BY NextFrameInOrder DEF PublishLidarPoints
<1>2. /\ points' \in Seq(1 .. MaxClouds) /\ Len(points') <= Depth
      /\ \/ points' = points
         \/ \E d \in {0, 1} :
               /\ d <= Len(points) /\ Len(points') = Len(points) - d + 1
               /\ points'[Len(points')] = latest'
               /\ \A i \in 1 .. (Len(points) - d) : points'[i] = points[i + d]
  BY <1>1, PutProperties DEF PublishLidarPoints, CloudTypeOK
<1>3. CloudTypeOK'
  BY <1>1, <1>2 DEF CloudTypeOK
<1>4. Len(points) \in Nat /\ \A i \in 1 .. Len(points) : points[i] \in 1 .. MaxClouds
  BY ElementOfSeq, LenProperties DEF CloudTypeOK
<1>5. scan \in Nat /\ sent \in Nat /\ latest' \in Nat /\ sent' \in Nat
  BY <1>1 DEF CloudTypeOK
<1>6. \A i \in 1 .. Len(points) :
          scan <= points[i] /\ points[i] <= latest' /\ points[i] <= sent'
  <2> SUFFICES ASSUME NEW i \in 1 .. Len(points)
               PROVE  scan <= points[i] /\ points[i] <= latest' /\ points[i] <= sent'
    OBVIOUS
  <2>1. points[i] \in Int /\ scan <= points[i] /\ points[i] <= latest'
    BY <1>1, <1>4 DEF CloudsInOrder
  <2> QED BY <1>1, <1>5, <2>1
<1>7. CASE points' = points
  BY <1>1, <1>3, <1>5, <1>6, <1>7 DEF CloudsInOrder
<1>8. CASE \E d \in {0, 1} :
               /\ d <= Len(points) /\ Len(points') = Len(points) - d + 1
               /\ points'[Len(points')] = latest'
               /\ \A i \in 1 .. (Len(points) - d) : points'[i] = points[i + d]
  <2> PICK d \in {0, 1} :
               /\ d <= Len(points) /\ Len(points') = Len(points) - d + 1
               /\ points'[Len(points')] = latest'
               /\ \A i \in 1 .. (Len(points) - d) : points'[i] = points[i + d]
    BY <1>8
  <2> DEFINE n == Len(points) - d
  <2>1. n \in Nat /\ n + d = Len(points) /\ Len(points') = n + 1
    BY <1>4
  <2>2. \A i \in 1 .. n : points'[i] = points[i + d]
    OBVIOUS
  <2>3. points'[n + 1] = latest'
    BY <2>1
  <2> HIDE DEF n
  <2>4. \A i \in 1 .. n : i + d \in 1 .. Len(points)
    BY <2>1
  <2>5. \A i \in 1 .. n : scan <= points'[i] /\ points'[i] <= latest' /\ points'[i] <= sent'
    BY <1>6, <2>2, <2>4
  <2>6. \A i, j \in 1 .. n : i <= j => points'[i] <= points'[j]
    <3> SUFFICES ASSUME NEW i \in 1 .. n, NEW j \in 1 .. n, i <= j
                 PROVE  points'[i] <= points'[j]
      OBVIOUS
    <3>1. i + d \in 1 .. Len(points) /\ j + d \in 1 .. Len(points)
      BY <2>4
    <3>2. i + d <= j + d
      BY <2>1
    <3>3. points[i + d] <= points[j + d]
      BY <3>1, <3>2 DEF CloudsInOrder
    <3> QED BY <2>2, <3>3
  <2>7. \A i \in 1 .. Len(points') :
            scan <= points'[i] /\ points'[i] <= latest' /\ points'[i] <= sent'
    BY <1>1, <1>5, <2>1, <2>3, <2>5
  <2>8. \A i, j \in 1 .. Len(points') : i <= j => points'[i] <= points'[j]
    BY <1>5, <2>1, <2>3, <2>5, <2>6
  <2>9. latest' <= sent' /\ scan' = scan /\ scan <= sent' /\ scan <= latest'
    BY <1>1, <1>5
  <2> QED BY <1>3, <2>7, <2>8, <2>9 DEF CloudsInOrder
<1> QED BY <1>2, <1>3, <1>7, <1>8

\* _handle_points takes the oldest message, which is at least as new as the scan.
LEMMA HandlePointsInOrder ==
    ASSUME CloudTypeOK, CloudsInOrder, HandlePoints
    PROVE  CloudTypeOK' /\ CloudsInOrder' /\ scan' >= scan
<1>1. /\ points # <<>> /\ points' = Tail(points) /\ sent' = sent /\ latest' = latest
      /\ scan' = Head(points) \/ scan' = scan
  BY DEF HandlePoints, lidarVars
<1>2. points \in Seq(1 .. MaxClouds) /\ Len(points) <= Depth
  BY DEF CloudTypeOK
<1>3. Len(points) \in Nat /\ \A i \in 1 .. Len(points) : points[i] \in 1 .. MaxClouds
  BY <1>2, ElementOfSeq, LenProperties
<1>4. /\ points' \in Seq(1 .. MaxClouds) /\ Len(points') = Len(points) - 1
      /\ \A i \in 1 .. Len(points') : points'[i] = points[i + 1]
      /\ Head(points) = points[1] /\ Len(points) >= 1
  BY <1>1, <1>2, <1>3, HeadTailProperties, EmptySeq
<1>5. scan' \in 0 .. MaxClouds /\ scan <= scan' /\ scan' <= sent /\ scan' <= points[1]
  BY <1>1, <1>3, <1>4 DEF CloudTypeOK, CloudsInOrder
<1>6. CloudTypeOK'
  BY <1>1, <1>2, <1>3, <1>4, <1>5, BridgeAssumption DEF CloudTypeOK
<1>7. \A i \in 1 .. Len(points') : i + 1 \in 1 .. Len(points) /\ points'[i] = points[i + 1]
  BY <1>3, <1>4
<1>8. \A i \in 1 .. Len(points) : scan' <= points[i]
  BY <1>3, <1>4, <1>5 DEF CloudsInOrder
<1>9. \A i \in 1 .. Len(points') : scan' <= points'[i] /\ points'[i] <= sent'
  BY <1>1, <1>7, <1>8 DEF CloudsInOrder
<1>10. \A i, j \in 1 .. Len(points') : i <= j => points'[i] <= points'[j]
  <2> SUFFICES ASSUME NEW i \in 1 .. Len(points'), NEW j \in 1 .. Len(points'), i <= j
               PROVE  points'[i] <= points'[j]
    OBVIOUS
  <2>1. i + 1 <= j + 1 /\ i + 1 \in 1 .. Len(points) /\ j + 1 \in 1 .. Len(points)
    BY <1>7
  <2> QED BY <1>7, <2>1 DEF CloudsInOrder
<1>11. latest' # 0 => scan' <= latest' /\ \A i \in 1 .. Len(points') : points'[i] <= latest'
  BY <1>1, <1>3, <1>4, <1>7 DEF CloudsInOrder
<1>12. CloudsInOrder'
  BY <1>1, <1>5, <1>9, <1>10, <1>11 DEF CloudsInOrder
<1>13. scan' >= scan
  BY <1>5 DEF CloudTypeOK
<1> QED BY <1>6, <1>12, <1>13

\* _on_message: a new cloud is newer than all that are on the way.
LEMMA CloudArrivesInOrder ==
    ASSUME CloudTypeOK, CloudsInOrder, CloudArrives
    PROVE  CloudTypeOK' /\ CloudsInOrder'
<1>1. /\ sent < MaxClouds /\ sent' = sent + 1 /\ latest' \in {sent + 1, latest, 0}
      /\ points' = points /\ scan' = scan
  BY DEF CloudArrives, Extracted, scanVars
<1>2. CloudTypeOK'
  BY <1>1, BridgeAssumption DEF CloudTypeOK
<1>3. \A i \in 1 .. Len(points) : points[i] \in 1 .. MaxClouds
  BY ElementOfSeq DEF CloudTypeOK
<1>4. sent \in Nat /\ scan \in Nat /\ latest \in Nat /\ scan <= sent /\ latest <= sent
  BY BridgeAssumption DEF CloudTypeOK, CloudsInOrder
<1>5. \A i \in 1 .. Len(points) : points[i] \in Int /\ scan <= points[i] /\ points[i] <= sent
  BY <1>3 DEF CloudsInOrder
<1>6. \A i \in 1 .. Len(points) : scan <= points[i] /\ points[i] <= sent + 1
  BY <1>4, <1>5
<1>7. CASE latest' = sent + 1
  BY <1>1, <1>2, <1>4, <1>6, <1>7 DEF CloudsInOrder
<1>8. CASE latest' = latest
  BY <1>1, <1>2, <1>4, <1>6, <1>8 DEF CloudsInOrder
<1>9. CASE latest' = 0
  BY <1>1, <1>2, <1>4, <1>6, <1>9 DEF CloudsInOrder
<1> QED BY <1>1, <1>7, <1>8, <1>9

LEMMA CloudsStep ==
    ASSUME CloudTypeOK, CloudsInOrder, BridgeNext
    PROVE  CloudTypeOK' /\ CloudsInOrder' /\ (scan' # scan => scan' >= scan)
<1>1. CASE PublishLidarPoints
  BY <1>1, PublishInOrder DEF PublishLidarPoints
<1>2. CASE HandlePoints
  BY <1>2, HandlePointsInOrder
<1>3. CASE CloudArrives
  BY <1>3, CloudArrivesInOrder DEF CloudArrives, scanVars
<1>4. CASE UNCHANGED <<sent, latest, points, scan>>
  BY <1>4 DEF CloudTypeOK, CloudsInOrder
<1>5. \/ PublishLidarPoints \/ HandlePoints \/ CloudArrives
      \/ UNCHANGED <<sent, latest, points, scan>>
  BY DEF BridgeNext, BridgeNode, BuildConnect, BuildLidar, BuildFails, Interrupted, CloseLidar,
         StopAdapter, DisconnectAdapter, CloseAdapter, Killed, HandleCmdVel, PublishPose, SensorDies,
         EmitDiagnostics, TimePasses, lidarVars, scanVars
<1> QED BY <1>1, <1>2, <1>3, <1>4, <1>5

-----------------------------------------------------------------------------
(* The rest of the types, and the warning.                                  *)

RestTypeOK ==
    /\ node \in {"new", "connected", "spin", "close_lidar", "stop", "disconnect", "close",
                "ended", "killed"}
    /\ last_cmd \in Speed /\ odom \in Speed
    /\ source \in {"none", "mock", "sdk"} /\ sensor \in {"on", "off"}
    /\ publishing \in BOOLEAN /\ subscribed \in BOOLEAN
    /\ cloud_age \in 0 .. StaleAfter
    /\ heard \in BOOLEAN /\ stale_warned \in BOOLEAN

LEMMA RestTypesStep ==
    ASSUME RestTypeOK, BridgeNext
    PROVE  RestTypeOK'
<1> USE DEF RestTypeOK
<1>1. CASE BuildConnect \/ BuildFails \/ Interrupted \/ StopAdapter
  <2>1. UNCHANGED <<driveVars, source, publishing, subscribed, sensor, scanVars>>
        /\ node' \in {"connected", "ended", "stop", "close_lidar", "disconnect"}
    BY <1>1 DEF BuildConnect, BuildFails, Interrupted, StopAdapter, lidarVars
  <2> QED BY <2>1, Zenon DEF driveVars, scanVars
<1>2. CASE BuildLidar
  <2>1. publishing' \in BOOLEAN /\ subscribed' \in BOOLEAN
    BY <1>2, Zenon DEF BuildLidar, SdkStart
  <2>2. source' \in {"none", "mock", "sdk"} /\ node' = "spin"
    BY <1>2 DEF BuildLidar
  <2> QED BY <1>2, <2>1, <2>2, Zenon DEF BuildLidar, driveVars, scanVars
<1>3. CASE CloseLidar \/ DisconnectAdapter \/ CloseAdapter \/ Killed
  <2>1. subscribed' \in BOOLEAN
    BY <1>3, Zenon DEF CloseLidar, DisconnectAdapter, CloseAdapter, Killed
  <2>2. UNCHANGED <<driveVars, source, publishing, sensor, scanVars>>
        /\ node' \in {"stop", "close", "ended", "killed"}
    BY <1>3 DEF CloseLidar, DisconnectAdapter, CloseAdapter, Killed
  <2> QED BY <2>1, <2>2, Zenon DEF driveVars, scanVars
<1>4. CASE (\E v \in Speed : HandleCmdVel(v)) \/ PublishPose
  <2>1. last_cmd' \in Speed /\ odom' \in Speed
    BY <1>4, Zenon DEF HandleCmdVel, PublishPose
  <2>2. UNCHANGED <<node, source, publishing, subscribed, sensor, scanVars>>
    BY <1>4 DEF HandleCmdVel, PublishPose, lidarVars
  <2> QED BY <2>1, <2>2, Zenon DEF scanVars
<1>5. CASE PublishLidarPoints \/ CloudArrives
  <2>1. UNCHANGED <<node, driveVars, source, publishing, subscribed, sensor, heard, cloud_age,
                    stale_warned>>
    BY <1>5 DEF PublishLidarPoints, CloudArrives, scanVars
  <2> QED BY <2>1, Zenon DEF driveVars
<1>6. CASE SensorDies
  BY <1>6, Zenon DEF SensorDies, driveVars, scanVars
<1>7. CASE HandlePoints \/ EmitDiagnostics \/ TimePasses
  <2>1. cloud_age' \in 0 .. StaleAfter
    BY <1>7, BridgeAssumption DEF HandlePoints, EmitDiagnostics, TimePasses
  <2>2. heard' \in BOOLEAN /\ stale_warned' \in BOOLEAN
    BY <1>7, Zenon DEF HandlePoints, EmitDiagnostics, TimePasses
  <2>3. UNCHANGED <<node, driveVars, lidarVars>>
    BY <1>7, Zenon DEF HandlePoints, EmitDiagnostics, TimePasses
  <2> QED BY <2>1, <2>2, <2>3, Zenon DEF driveVars, lidarVars
<1> QED BY <1>1, <1>2, <1>3, <1>4, <1>5, <1>6, <1>7 DEF BridgeNext, BridgeNode

LEMMA WarningStep ==
    ASSUME RestTypeOK, WarningIsTrue, BridgeNext
    PROVE  WarningIsTrue'
<1> USE DEF WarningIsTrue
<1>1. CASE HandlePoints
  BY <1>1 DEF HandlePoints
<1>2. CASE EmitDiagnostics
  BY <1>2, BridgeAssumption DEF EmitDiagnostics, RestTypeOK
<1>3. CASE TimePasses
  BY <1>3, BridgeAssumption DEF TimePasses, RestTypeOK
<1>4. CASE UNCHANGED <<heard, cloud_age, stale_warned>>
  BY <1>4
<1>5. \/ HandlePoints \/ EmitDiagnostics \/ TimePasses
      \/ UNCHANGED <<heard, cloud_age, stale_warned>>
  BY DEF BridgeNext, BridgeNode, BuildConnect, BuildLidar, BuildFails, Interrupted, CloseLidar,
         StopAdapter, DisconnectAdapter, CloseAdapter, Killed, HandleCmdVel, PublishPose, PublishLidarPoints,
         CloudArrives, SensorDies, scanVars
<1> QED BY <1>1, <1>2, <1>3, <1>4, <1>5

-----------------------------------------------------------------------------
LEMMA BridgeTypesSplit == BridgeTypeOK <=> AdapterTypeOK /\ CloudTypeOK /\ RestTypeOK
BY DEF BridgeTypeOK, CloudTypeOK, RestTypeOK

LEMMA BridgeInvNext ==
    ASSUME BridgeInv, [BridgeNext]_bridgeVars
    PROVE  BridgeInv'
<1> USE DEF BridgeInv
<1>1. CASE BridgeNext
  <2>1. AdapterTypeOK' /\ DriveInv'
    BY <1>1, DriveStep
  <2>2. CloudTypeOK' /\ CloudsInOrder'
    BY <1>1, BridgeTypesSplit, CloudsStep
  <2>3. RestTypeOK' /\ WarningIsTrue'
    BY <1>1, BridgeTypesSplit, RestTypesStep, WarningStep
  <2>4. BridgeTypeOK'
    BY <2>1, <2>2, <2>3 DEF BridgeTypeOK, CloudTypeOK, RestTypeOK
  <2> QED BY <2>1, <2>2, <2>3, <2>4
<1>2. CASE UNCHANGED bridgeVars
  BY <1>2 DEF bridgeVars, adapterVars, driveVars, lidarVars, scanVars, BridgeTypeOK,
              AdapterTypeOK, DriveInv, AdapterThere, AtRest, LastCmdDriven, CloudsInOrder,
              WarningIsTrue
<1> QED BY <1>1, <1>2

\* BaseBridgeNode and LidarBridgeNode keep the inductive invariant.
LEMMA BridgeInvAlways == BridgeSpec => []BridgeInv
BY BridgeInvInit, BridgeInvNext, PTL DEF BridgeSpec

\* The variables of the three processes of the bridge always have their types;
\* /points never holds more than its depth.
THEOREM BridgeTypeCorrect == BridgeSpec => []BridgeTypeOK
<1>1. BridgeInv => BridgeTypeOK
  BY DEF BridgeInv
<1> QED BY <1>1, BridgeInvAlways, PTL

\* A bridge that ends, other than by a kill, leaves the robot at rest: what
\* main() and shutdown() do in the end, whatever commands and errors came before.
THEOREM BridgeEndsAtRestCorrect == BridgeSpec => []BridgeEndsAtRest
<1>1. BridgeInv => BridgeEndsAtRest
  BY DEF BridgeInv, DriveInv, AtRest, BridgeEndsAtRest
<1> QED BY <1>1, BridgeInvAlways, PTL

\* A warning of LidarBridgeNode that stands is true.
THEOREM WarningIsTrueCorrect == BridgeSpec => []WarningIsTrue
<1>1. BridgeInv => WarningIsTrue
  BY DEF BridgeInv
<1> QED BY <1>1, BridgeInvAlways, PTL

\* disconnect() has the Go2 lie down, and puts it out of reach, only when it is
\* at rest.
THEOREM StoppedBeforeSeatedCorrect == BridgeSpec => StoppedBeforeSeated
<1>1. ASSUME BridgeInv, [BridgeNext]_bridgeVars
      PROVE  [(node = "disconnect" /\ node' # "killed") \/ (connected /\ ~connected')
                 => robot_velocity = 0 \/ "stop" \in Faults]_bridgeVars
  <2>1. CASE node \in {"disconnect", "close"}
    BY <1>1, <2>1 DEF BridgeInv, DriveInv, AtRest
  <2>2. CASE node # "disconnect" /\ (connected => connected')
    BY <2>2
  <2>3. DisconnectAdapter \/ CloseAdapter \/ (connected => connected')
    BY <1>1 DEF BridgeNext, BridgeNode, BuildConnect, AdapterConnect, BuildLidar, BuildFails,
         Interrupted, CloseLidar, StopAdapter, StopRobot, Killed, HandleCmdVel, SendVelocity,
         PublishPose, PublishLidarPoints, CloudArrives, SensorDies, HandlePoints,
         EmitDiagnostics, TimePasses, adapterVars, bridgeVars
  <2> QED BY <2>1, <2>2, <2>3 DEF DisconnectAdapter, CloseAdapter
<1> QED BY <1>1, BridgeInvAlways, PTL DEF BridgeSpec, StoppedBeforeSeated

\* The velocity that the odometry reports is that of the robot, unless the
\* adapter failed to pass a command on.
THEOREM OdometryTellsTruthCorrect == BridgeSpec => OdometryTellsTruth
<1>1. ASSUME BridgeInv, [BridgeNext]_bridgeVars
      PROVE  [odom' # odom => odom' = robot_velocity' \/ "move" \in Faults]_bridgeVars
  <2>1. CASE PublishPose
    BY <1>1, <2>1 DEF PublishPose, adapterVars, BridgeInv, DriveInv, LastCmdDriven
  <2>2. CASE UNCHANGED odom
    BY <2>2
  <2>3. PublishPose \/ UNCHANGED odom
    BY <1>1 DEF BridgeNext, BridgeNode, BuildConnect, BuildLidar, BuildFails, Interrupted,
         CloseLidar, StopAdapter, DisconnectAdapter, CloseAdapter, Killed, HandleCmdVel, PublishLidarPoints,
         CloudArrives, SensorDies, HandlePoints, EmitDiagnostics, TimePasses, driveVars, bridgeVars
  <2> QED BY <2>1, <2>2, <2>3
<1> QED BY <1>1, BridgeInvAlways, PTL DEF BridgeSpec, OdometryTellsTruth

\* The scans never go back to an older cloud.
THEOREM ScanNeverOlderCorrect == BridgeSpec => ScanNeverOlder
<1>1. ASSUME BridgeInv, [BridgeNext]_bridgeVars
      PROVE  [scan' >= scan]_bridgeVars
  <2>1. CASE BridgeNext
    <3>1. scan' # scan => scan' >= scan
      BY <1>1, <2>1, BridgeTypesSplit, CloudsStep DEF BridgeInv
    <3>2. scan \in Int
      BY <1>1 DEF BridgeInv, BridgeTypeOK
    <3> QED BY <3>1, <3>2
  <2>2. CASE UNCHANGED bridgeVars
    BY <2>2
  <2> QED BY <1>1, <2>1, <2>2
<1> QED BY <1>1, BridgeInvAlways, PTL DEF BridgeSpec, ScanNeverOlder

-----------------------------------------------------------------------------
(* RealSenseCameraBridgeNode: who holds the camera, and whose intrinsics    *)
(* are published.                                                           *)

\* An attempt is made by a node without a camera; the one that has come far
\* enough has a pipeline, and what it has read is of that pipeline.
AttemptInv ==
    /\ ensure # "idle" => ~started /\ camera_node \in {"new", "spin"}
    /\ ensure \in {"color", "depth"} => pipeline
    /\ ensure = "depth" => color_info = "current"
    /\ started => pipeline /\ color_info = "current" /\ depth_info = "current"

CameraInv == CameraTypeOK /\ AttemptInv /\ CameraOwned /\ IntrinsicsMatch /\ RequiredWasFound

LEMMA CameraInvInit == CameraInit => CameraInv
<1> SUFFICES ASSUME CameraInit PROVE CameraInv
  OBVIOUS
<1>1. CameraTypeOK
  <2>1. /\ pipeline \in BOOLEAN /\ streaming \in BOOLEAN /\ started \in BOOLEAN
        /\ warned \in BOOLEAN /\ stop_raised \in BOOLEAN
    BY Zenon DEF CameraInit
  <2>2. glitches \in 0 .. MaxGlitches
    BY CameraAssumption DEF CameraInit
  <2>3. color_info \in Info /\ depth_info \in Info /\ shown \in Info
    BY DEF CameraInit, Info
  <2>4. camera_node \in NodePlace /\ ensure \in AttemptPlace
    BY DEF CameraInit, NodePlace, AttemptPlace
  <2> QED BY <2>1, <2>2, <2>3, <2>4, Zenon DEF CameraInit, CameraTypeOK
<1>2. AttemptInv /\ CameraOwned /\ IntrinsicsMatch /\ RequiredWasFound
  BY DEF CameraInit, AttemptInv, CameraOwned, IntrinsicsMatch, RequiredWasFound
<1> QED BY <1>1, <1>2 DEF CameraInv

LEMMA CameraTypesStep ==
    ASSUME CameraTypeOK, CameraNext
    PROVE  CameraTypeOK'
<1> USE DEF CameraTypeOK
<1>1. ASSUME NEW expected, LibraryRaises(expected)
      PROVE  ensure' \in AttemptPlace /\ glitches' \in 0 .. MaxGlitches
  BY <1>1, CameraAssumption DEF LibraryRaises, AttemptPlace
<1>2. ASSUME Unavailable
      PROVE  camera_node' \in NodePlace /\ warned' \in BOOLEAN
  <2>1. camera_node' \in NodePlace
    BY <1>2 DEF Unavailable, NodePlace
  <2> QED BY <1>2, <2>1, Zenon DEF Unavailable
<1>3. ASSUME StopPipeline
      PROVE  streaming' \in BOOLEAN /\ stop_raised' \in BOOLEAN
  BY <1>3, Zenon DEF StopPipeline
<1>4. CASE EnsureBegin
  <2>1. camera_node' \in NodePlace /\ warned' \in BOOLEAN
    BY <1>2, <1>4, Zenon DEF EnsureBegin
  <2>2. ensure' \in AttemptPlace
    BY <1>4 DEF EnsureBegin, AttemptPlace
  <2> QED BY <1>4, <2>1, <2>2, Zenon DEF EnsureBegin, worldVars, infoVars
<1>5. CASE EnsureQuery
  <2>1. ensure' \in AttemptPlace /\ glitches' \in 0 .. MaxGlitches
    BY <1>1, <1>5 DEF EnsureQuery, AttemptPlace
  <2> QED BY <1>5, <2>1, Zenon DEF EnsureQuery, worldVars, infoVars
<1>6. CASE EnsureOpen
  <2>1. ensure' \in AttemptPlace /\ glitches' \in 0 .. MaxGlitches
    BY <1>1, <1>6 DEF EnsureOpen, AttemptPlace
  <2>2. color_info' \in Info /\ depth_info' \in Info
    BY <1>6 DEF EnsureOpen, OfEarlier, Info
  <2>3. pipeline' \in BOOLEAN /\ streaming' \in BOOLEAN
    BY <1>6, Zenon DEF EnsureOpen
  <2> QED BY <1>6, <2>1, <2>2, <2>3, Zenon DEF EnsureOpen, worldVars
<1>7. CASE EnsureColor
  <2>1. ensure' \in AttemptPlace /\ glitches' \in 0 .. MaxGlitches /\ color_info' \in Info
    BY <1>1, <1>7 DEF EnsureColor, Info, AttemptPlace
  <2> QED BY <1>7, <2>1, Zenon DEF EnsureColor, worldVars
<1>8. CASE EnsureDepth
  <2>1. ensure' \in AttemptPlace /\ glitches' \in 0 .. MaxGlitches /\ depth_info' \in Info
    BY <1>1, <1>8 DEF EnsureDepth, Info, AttemptPlace
  <2>2. started' \in BOOLEAN /\ warned' \in BOOLEAN
    BY <1>8, Zenon DEF EnsureDepth
  <2>3. camera_node' \in NodePlace
    BY <1>8 DEF EnsureDepth, NodePlace
  <2> QED BY <1>8, <2>1, <2>2, <2>3, Zenon DEF EnsureDepth, worldVars
<1>9. CASE EnsureExcept
  <2>1. streaming' \in BOOLEAN /\ stop_raised' \in BOOLEAN
    BY <1>3, <1>9, Zenon DEF EnsureExcept
  <2>2. pipeline' \in BOOLEAN /\ started' \in BOOLEAN
    BY <1>9, Zenon DEF EnsureExcept
  <2>3. ensure' \in AttemptPlace /\ Unavailable
    BY <1>9 DEF EnsureExcept, AttemptPlace
  <2> QED BY <1>2, <1>9, <2>1, <2>2, <2>3, Zenon DEF EnsureExcept, worldVars, infoVars
<1>10. CASE PublishFrames
  <2>1. shown' \in Info /\ camera_node' \in NodePlace
    BY <1>10 DEF PublishFrames, NodePlace
  <2> QED BY <1>10, <2>1, Zenon DEF PublishFrames, worldVars
<1>11. CASE CameraInterrupt
  <2>1. camera_node' \in NodePlace /\ ensure' \in AttemptPlace
    BY <1>11 DEF CameraInterrupt, NodePlace, AttemptPlace
  <2> QED BY <1>11, <2>1, Zenon DEF CameraInterrupt, worldVars, infoVars
<1>12. CASE Close
  <2>1. streaming' \in BOOLEAN /\ stop_raised' \in BOOLEAN
    BY <1>3, <1>12, Zenon DEF Close
  <2>2. started' \in BOOLEAN
    BY <1>12, Zenon DEF Close
  <2>3. camera_node' \in NodePlace
    BY <1>12 DEF Close, NodePlace
  <2> QED BY <1>12, <2>1, <2>2, <2>3, Zenon DEF Close, worldVars, infoVars
<1>13. CASE Plug
  <2>1. plugged' \in BOOLEAN
    BY <1>13, Zenon DEF Plug
  <2> QED BY <1>13, <2>1, Zenon DEF Plug, infoVars
<1> QED BY <1>4, <1>5, <1>6, <1>7, <1>8, <1>9, <1>10, <1>11, <1>12, <1>13 DEF CameraNext, Ensure

LEMMA CameraStep ==
    ASSUME CameraInv, CameraNext
    PROVE  AttemptInv' /\ CameraOwned' /\ IntrinsicsMatch' /\ RequiredWasFound'
<1>1. CameraTypeOK /\ AttemptInv /\ CameraOwned /\ IntrinsicsMatch /\ RequiredWasFound
  BY DEF CameraInv
<1> USE DEF AttemptInv, CameraOwned, IntrinsicsMatch, RequiredWasFound
<1>2. CASE EnsureBegin
  BY <1>1, <1>2 DEF EnsureBegin, Unavailable, worldVars, infoVars
<1>3. CASE EnsureQuery
  BY <1>1, <1>3 DEF EnsureQuery, LibraryRaises, worldVars, infoVars
<1>4. CASE EnsureOpen
  BY <1>1, <1>4 DEF EnsureOpen, LibraryRaises, worldVars
<1>5. CASE EnsureColor
  BY <1>1, <1>5 DEF EnsureColor, LibraryRaises, worldVars
<1>6. CASE EnsureDepth
  BY <1>1, <1>6 DEF EnsureDepth, LibraryRaises, worldVars
<1>7. CASE EnsureExcept
  BY <1>1, <1>7 DEF EnsureExcept, StopPipeline, Unavailable, worldVars, infoVars
<1>8. CASE PublishFrames
  BY <1>1, <1>8 DEF PublishFrames, worldVars
<1>9. CASE CameraInterrupt
  BY <1>1, <1>9 DEF CameraInterrupt, worldVars, infoVars
<1>10. CASE Close
  BY <1>1, <1>10 DEF Close, worldVars, infoVars
<1>11. CASE Plug
  BY <1>1, <1>11 DEF Plug, infoVars
<1> QED BY <1>2, <1>3, <1>4, <1>5, <1>6, <1>7, <1>8, <1>9, <1>10, <1>11 DEF CameraNext, Ensure

LEMMA CameraInvNext ==
    ASSUME CameraInv, [CameraNext]_cameraVars
    PROVE  CameraInv'
<1>1. CASE CameraNext
  BY <1>1, CameraTypesStep, CameraStep DEF CameraInv
<1>2. CASE UNCHANGED cameraVars
  BY <1>2 DEF cameraVars, CameraInv, CameraTypeOK, AttemptInv, CameraOwned, IntrinsicsMatch,
              RequiredWasFound
<1> QED BY <1>1, <1>2

LEMMA CameraInvAlways == CameraSpec => []CameraInv
BY CameraInvInit, CameraInvNext, PTL DEF CameraSpec

\* The variables of RealSenseCameraBridgeNode always have their types.
THEOREM CameraTypeCorrect == CameraSpec => []CameraTypeOK
<1>1. CameraInv => CameraTypeOK
  BY DEF CameraInv
<1> QED BY <1>1, CameraInvAlways, PTL

\* No pipeline that nobody owns keeps the camera, however many attempts have
\* failed and wherever (_ensure_pipeline).
THEOREM CameraOwnedCorrect == CameraSpec => []CameraOwned
<1>1. CameraInv => CameraOwned
  BY DEF CameraInv
<1> QED BY <1>1, CameraInvAlways, PTL

\* Every image goes with the intrinsics of the pipeline it comes from.
THEOREM IntrinsicsMatchCorrect == CameraSpec => []IntrinsicsMatch
<1>1. CameraInv => IntrinsicsMatch
  BY DEF CameraInv
<1> QED BY <1>1, CameraInvAlways, PTL

\* A node that requires the camera spins only with a pipeline that an attempt
\* has started and whose intrinsics it has read, whatever attempts had failed.
THEOREM RequiredWasFoundCorrect == CameraSpec => []RequiredWasFound
<1>1. CameraInv => RequiredWasFound
  BY DEF CameraInv
<1> QED BY <1>1, CameraInvAlways, PTL

-----------------------------------------------------------------------------
(* project_points_to_scan: the bin of a point is the sector of its angle.   *)

LEMMA ScanNumbers ==
    /\ AngleMin \in Int /\ AngleMax \in Int /\ RangeMin \in Int /\ RangeMax \in Int
    /\ MinHeight \in Int /\ MaxHeight \in Int
    /\ AngleStep \in Nat \ {0} /\ AngleMin < AngleMax
BY ScanAssumption

LEMMA TimesMonotone ==
    ASSUME NEW d \in Nat, NEW a \in Int, NEW b \in Int, a <= b
    PROVE  d * a \in Int /\ d * b \in Int /\ d * a <= d * b
OBVIOUS

LEMMA FloorDivision ==
    ASSUME NEW x \in Nat, NEW d \in Nat \ {0}
    PROVE  /\ x \div d \in Nat
           /\ d * (x \div d) <= x /\ x < d * (x \div d) + d
OBVIOUS

\* There is one bin for every multiple of AngleStep up to a number.
LEMMA FloorDivisionIs ==
    ASSUME NEW x \in Nat, NEW d \in Nat \ {0}, NEW b \in Int
    PROVE  x \div d = b <=> b * d <= x /\ x < (b + 1) * d
<1> DEFINE q == x \div d
<1>1. q \in Nat /\ d * q <= x /\ x < d * q + d
  BY FloorDivision
<1>2. b * d = d * b /\ (b + 1) * d = d * b + d /\ d * b \in Int /\ d * q \in Int
  BY <1>1
<1> HIDE DEF q
<1>3. ASSUME b * d <= x, x < (b + 1) * d
      PROVE  q = b
  <2>1. CASE q < b
    <3>1. d * (q + 1) <= d * b /\ d * (q + 1) = d * q + d
      BY <1>1, <2>1, TimesMonotone
    <3> QED BY <1>1, <1>2, <1>3, <3>1
  <2>2. CASE q > b
    <3>1. d * (b + 1) <= d * q /\ d * (b + 1) = d * b + d
      BY <1>1, <2>2, TimesMonotone
    <3> QED BY <1>1, <1>2, <1>3, <3>1
  <2> QED BY <1>1, <2>1, <2>2
<1>4. q = b => b * d <= x /\ x < (b + 1) * d
  BY <1>1, <1>2
<1> QED BY <1>3, <1>4 DEF q

LEMMA BinsAre ==
    /\ SampleCount \in Nat \ {0}
    /\ \A x \in 0 .. (AngleMax - AngleMin) : x \div AngleStep \in 0 .. SampleCount - 1
<1> USE ScanNumbers
<1> DEFINE span == AngleMax - AngleMin
<1>1. span \in Nat /\ SampleCount = span \div AngleStep + 1
  BY DEF SampleCount
<1> HIDE DEF span
<1>2. SampleCount \in Nat \ {0}
  BY <1>1, FloorDivision
<1>3. ASSUME NEW x \in 0 .. span
      PROVE  x \div AngleStep \in 0 .. SampleCount - 1
  <2> DEFINE q == x \div AngleStep
             top == span \div AngleStep
  <2>1. x \in Nat /\ x <= span
    BY <1>1
  <2>2. q \in Nat /\ AngleStep * q <= x
    BY <2>1, FloorDivision
  <2>3. top \in Nat /\ span < AngleStep * top + AngleStep
    BY <1>1, FloorDivision
  <2> HIDE DEF q, top
  <2>4. ~ top + 1 <= q
    <3> SUFFICES ASSUME top + 1 <= q PROVE FALSE
      OBVIOUS
    <3>1. AngleStep * (top + 1) <= AngleStep * q /\ AngleStep * (top + 1) = AngleStep * top + AngleStep
      BY <2>2, <2>3, TimesMonotone
    <3> QED BY <1>1, <2>1, <2>2, <2>3, <3>1
  <2>5. q \in 0 .. top
    BY <2>2, <2>3, <2>4
  <2>6. SampleCount - 1 = top
    BY <1>1, <2>3 DEF top
  <2> QED BY <2>5, <2>6 DEF q
<1> QED BY <1>2, <1>3 DEF span

\* A point in reach has exactly one bin, that of the sector its angle is in.
LEMMA BinIsSector ==
    ASSUME NEW p, p.angle \in Int, ValidPoint(p)
    PROVE  /\ BinOf(p) \in Bins
           /\ \A b \in Bins :
                  BinOf(p) = b <=> /\ AngleMin + b * AngleStep <= p.angle
                                   /\ p.angle < AngleMin + (b + 1) * AngleStep
<1> USE ScanNumbers
<1> DEFINE x == p.angle - AngleMin
<1>1. x \in Nat /\ x \in 0 .. (AngleMax - AngleMin)
  BY DEF ValidPoint
<1>2. x \div AngleStep \in 0 .. SampleCount - 1 /\ SampleCount \in Nat
  BY <1>1, BinsAre
<1>3. BinOf(p) = x \div AngleStep
  BY <1>2 DEF BinOf, Clipped
<1>4. ASSUME NEW b \in Bins
      PROVE  BinOf(p) = b <=> /\ AngleMin + b * AngleStep <= p.angle
                              /\ p.angle < AngleMin + (b + 1) * AngleStep
  <2>1. b \in Int
    BY <1>2 DEF Bins
  <2>2. x \div AngleStep = b <=> b * AngleStep <= x /\ x < (b + 1) * AngleStep
    BY <1>1, <2>1, FloorDivisionIs
  <2>3. b * AngleStep \in Int /\ (b + 1) * AngleStep \in Int
    BY <2>1
  <2> QED BY <1>3, <2>2, <2>3
<1> QED BY <1>2, <1>3, <1>4 DEF Bins

\* Sector is the valid points of a bin.
LEMMA SectorIsBin ==
    ASSUME cloud \in Seq(Point), NEW n \in 0 .. Len(cloud), NEW b \in Bins
    PROVE  Sector(b, n) = {i \in 1 .. n : ValidPoint(cloud[i]) /\ BinOf(cloud[i]) = b}
<1> USE ScanNumbers
<1>1. ASSUME NEW i \in 1 .. n
      PROVE  cloud[i].angle \in Int
  <2>1. cloud[i] \in Point
    BY ElementOfSeq, LenProperties
  <2> QED BY <2>1 DEF Point
<1>2. b \in Int /\ 0 <= b
  BY BinsAre DEF Bins
<1>3. b * AngleStep \in Int /\ (b + 1) * AngleStep \in Int /\ 0 <= b * AngleStep
  BY <1>2
<1>4. ASSUME NEW i \in 1 .. n
      PROVE  i \in Sector(b, n) <=> ValidPoint(cloud[i]) /\ BinOf(cloud[i]) = b
  <2>1. CASE ValidPoint(cloud[i])
    <3>1. BinOf(cloud[i]) = b <=> /\ AngleMin + b * AngleStep <= cloud[i].angle
                                  /\ cloud[i].angle < AngleMin + (b + 1) * AngleStep
      BY <1>1, <2>1, BinIsSector
    <3> QED BY <2>1, <3>1 DEF Sector, ValidPoint
  <2>2. CASE ~ValidPoint(cloud[i])
    <3> DEFINE low == b * AngleStep
               angle == cloud[i].angle
    <3>0. low \in Int /\ 0 <= low /\ angle \in Int
      BY <1>1, <1>3
    <3> HIDE DEF low, angle
    <3>1. AngleMin + low <= angle => AngleMin <= angle
      BY <3>0
    <3> USE DEF low, angle
    <3> QED BY <2>2, <3>1 DEF Sector, ValidPoint
  <2> QED BY <2>1, <2>2
<1> QED BY <1>4 DEF Sector

-----------------------------------------------------------------------------
(* The loop.                                                                *)

\* The part of a cloud that the loop has seen is in the scan.
NearestSoFar ==
    \A b \in Bins :
        /\ \A i \in Sector(b, index - 1) : ranges[b] <= cloud[i].distance
        /\ ranges[b] = Inf \/ \E i \in Sector(b, index - 1) : ranges[b] = cloud[i].distance

ScanInv ==
    /\ cloud \in Seq(Point)
    /\ index \in 1 .. Len(cloud) + 1
    /\ ranges \in [Bins -> Int]
    /\ NearestSoFar

LEMMA ScanInvInit == ProjectInit => ScanInv
<1> SUFFICES ASSUME ProjectInit PROVE ScanInv
  OBVIOUS
<1>1. cloud \in Seq(Point) /\ index = 1
  BY ScanAssumption DEF ProjectInit
<1>2. index \in 1 .. Len(cloud) + 1
  BY <1>1, LenProperties
<1>3. ranges \in [Bins -> Int] /\ \A b \in Bins : ranges[b] = Inf
  BY ScanNumbers DEF ProjectInit, Inf
<1>4. \A b \in Bins : Sector(b, index - 1) = {}
  BY <1>1 DEF Sector
<1>5. NearestSoFar
  BY <1>3, <1>4 DEF NearestSoFar
<1> QED BY <1>1, <1>2, <1>3, <1>5 DEF ScanInv

LEMMA ScanInvNext ==
    ASSUME ScanInv, ProjectPoint
    PROVE  ScanInv'
<1> DEFINE p == cloud[index]
<1>1. /\ cloud \in Seq(Point) /\ index \in 1 .. Len(cloud) /\ Len(cloud) \in Nat
      /\ cloud' = cloud /\ index' = index + 1
  BY LenProperties DEF ScanInv, ProjectPoint
<1>2. /\ p \in Point /\ p.distance \in Int /\ p.angle \in Int
      /\ \A i \in 1 .. Len(cloud) : cloud[i].distance \in Int
  <2>1. \A i \in 1 .. Len(cloud) : cloud[i] \in Point
    BY <1>1, ElementOfSeq
  <2>2. p \in Point
    BY <1>1, <2>1
  <2> QED BY <2>1, <2>2 DEF Point
<1>3. ranges' = IF ValidPoint(p) /\ p.distance < ranges[BinOf(p)]
                THEN [ranges EXCEPT ![BinOf(p)] = p.distance] ELSE ranges
  BY DEF ProjectPoint
<1>4. ranges \in [Bins -> Int]
  BY DEF ScanInv
<1>5. ASSUME NEW b \in Bins
      PROVE  Sector(b, index - 1)' = IF ValidPoint(p) /\ BinOf(p) = b
                                     THEN Sector(b, index - 1) \cup {index}
                                     ELSE Sector(b, index - 1)
  <2>1. Sector(b, index - 1)' = Sector(b, index)
    BY <1>1 DEF Sector
  <2>2. Sector(b, index) = {i \in 1 .. index : ValidPoint(cloud[i]) /\ BinOf(cloud[i]) = b}
    BY <1>1, SectorIsBin
  <2>3. Sector(b, index - 1) = {i \in 1 .. index - 1 : ValidPoint(cloud[i]) /\ BinOf(cloud[i]) = b}
    BY <1>1, SectorIsBin
  <2>4. 1 .. index = (1 .. index - 1) \cup {index} /\ index \notin 1 .. index - 1
    BY <1>1
  <2> QED BY <2>1, <2>2, <2>3, <2>4
<1>6. ASSUME NEW b \in Bins
      PROVE  /\ ranges[b] \in Int
             /\ \A i \in Sector(b, index - 1) :
                    cloud[i].distance \in Int /\ ranges[b] <= cloud[i].distance
             /\ ranges[b] = Inf \/ \E i \in Sector(b, index - 1) : ranges[b] = cloud[i].distance
  <2>1. Sector(b, index - 1) \subseteq 1 .. Len(cloud)
    BY <1>1 DEF Sector
  <2> QED BY <1>2, <1>4, <2>1 DEF ScanInv, NearestSoFar
<1> HIDE DEF p
<1>7. ranges' \in [Bins -> Int]
  <2>1. CASE ValidPoint(p)
    <3>1. BinOf(p) \in Bins
      BY <1>2, <2>1, BinIsSector
    <3> QED BY <1>2, <1>3, <1>4, <3>1
  <2>2. CASE ~ValidPoint(p)
    BY <1>3, <1>4, <2>2
  <2> QED BY <2>1, <2>2
<1>8. ASSUME NEW b \in Bins
      PROVE  /\ \A i \in Sector(b, index - 1)' : ranges'[b] <= cloud[i].distance
             /\ \/ ranges'[b] = Inf
                \/ \E i \in Sector(b, index - 1)' : ranges'[b] = cloud[i].distance
  <2>1. CASE ValidPoint(p) /\ BinOf(p) = b
    <3>1. ranges'[b] = IF p.distance < ranges[b] THEN p.distance ELSE ranges[b]
      BY <1>3, <1>4, <2>1
    <3>2. Sector(b, index - 1)' = Sector(b, index - 1) \cup {index}
      BY <1>5, <2>1
    <3>3. cloud[index].distance = p.distance
      BY DEF p
    <3>4. CASE p.distance < ranges[b]
      <4>1. ranges'[b] = p.distance
        BY <3>1, <3>4
      <4>2. \A i \in Sector(b, index - 1) : p.distance <= cloud[i].distance
        BY <1>2, <1>6, <3>4
      <4> QED BY <1>2, <3>2, <3>3, <4>1, <4>2
    <3>5. CASE ~(p.distance < ranges[b])
      <4>1. ranges'[b] = ranges[b] /\ ranges[b] <= p.distance
        BY <1>2, <1>6, <3>1, <3>5
      <4> QED BY <1>6, <3>2, <3>3, <4>1
    <3> QED BY <3>4, <3>5
  <2>2. CASE ~(ValidPoint(p) /\ BinOf(p) = b)
    <3>1. Sector(b, index - 1)' = Sector(b, index - 1)
      BY <1>5, <2>2
    <3>2. ranges'[b] = ranges[b]
      <4>1. CASE ValidPoint(p)
        BY <1>2, <1>3, <1>4, <2>2, <4>1, BinIsSector
      <4>2. CASE ~ValidPoint(p)
        BY <1>3, <4>2
      <4> QED BY <4>1, <4>2
    <3> QED BY <1>6, <3>1, <3>2
  <2> QED BY <2>1, <2>2
<1>9. NearestSoFar'
  BY <1>1, <1>8 DEF NearestSoFar, Bins, Inf
<1> QED BY <1>1, <1>7, <1>9 DEF ScanInv, Bins

LEMMA ScanInvAlways == ProjectSpec => []ScanInv
<1>1. ScanInv /\ UNCHANGED projectVars => ScanInv'
  BY DEF projectVars, ScanInv, NearestSoFar, Sector, Bins, Inf
<1> QED BY <1>1, ScanInvInit, ScanInvNext, PTL DEF ProjectSpec

\* The scan shows in every sector the nearest obstacle of the cloud, and
\* nothing that is not there, for every cloud and every scan.
THEOREM NearestPerBinCorrect == ProjectSpec => []NearestPerBin
<1>1. ScanInv => NearestPerBin
  <2> SUFFICES ASSUME ScanInv, index > Len(cloud) PROVE NearestPerBin
    BY DEF NearestPerBin
  <2>1. index - 1 = Len(cloud)
    BY LenProperties DEF ScanInv
  <2> QED BY <2>1 DEF ScanInv, NearestSoFar, NearestPerBin
<1> QED BY <1>1, ScanInvAlways, PTL

\* No obstacle in reach falls between the sectors.
THEOREM SectorsCoverCorrect == ProjectSpec => []SectorsCover
<1>1. ScanInv => SectorsCover
  <2> SUFFICES ASSUME ScanInv, NEW i \in 1 .. Len(cloud), ValidPoint(cloud[i])
               PROVE  \E b \in Bins : i \in Sector(b, Len(cloud))
    BY DEF SectorsCover
  <2>1. cloud \in Seq(Point) /\ Len(cloud) \in 0 .. Len(cloud) /\ cloud[i] \in Point
    BY ElementOfSeq, LenProperties DEF ScanInv
  <2>2. BinOf(cloud[i]) \in Bins
    BY <2>1, BinIsSector DEF Point
  <2>3. i \in Sector(BinOf(cloud[i]), Len(cloud))
    BY <2>1, <2>2, SectorIsBin
  <2> QED BY <2>2, <2>3
<1> QED BY <1>1, ScanInvAlways, PTL
=============================================================================
