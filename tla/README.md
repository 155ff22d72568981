# Verification of Go2Robot

TLA+ models of the control software in this repository, with the TLC
configurations that check them on small instances and TLAPS proofs of the
properties that matter most. Paths below are relative to the repository's root;
`PROJECT.json` maps every definition to the lines it translates.

## 1. Inventory of the system

The repository holds a standalone Python application for a Unitree Go2
(`src/`), a C++ daemon for the D1 arm (`cpp/d1_bridge/`) and a ROS 2 workspace
(`ros_ws/`). The application runs an HTTP server with a pool of worker threads;
everything else is a thread or a lock-protected object.

| component | state it keeps | operations | interacts with | what makes it correct |
|---|---|---|---|---|
| **ControlCore** `src/control.py` | mode, latch, mission status, abort flag; manual and AUTO targets, ramped velocity; the four flags that decide whether a StopMove is sent; teleop time stamp | 20 methods called by any HTTP worker and by the mission executor; the threads `control-motion` (50 Hz) and `control-watchdog` (20 Hz) | calls the adapter outside its lock | ESTOP > MANUAL > AUTO under every interleaving; a stop that was asked for is sent; a silent operator is stopped |
| **Motion profile** `src/control.py` | ramped velocity per axis | clamp, ramp, minimum effective speed | control loop | limits, bounded acceleration, convergence, no command against the target |
| **RobotAdapter** `src/robot/` | connection, readiness, commanded velocity | connect, stand_up, Move, StopMove, Damp, StandDown, manual mode | ControlCore, the executor, and three operator actions directly | which calls raise, which swallow a failure, what a damped robot accepts |
| **MissionManager** `src/mission.py` | one executor thread, the step it is in | start_route, the steps, shutdown | ControlCore, adapter, storage | it ends; it leaves no movement behind; its report says what was executed |
| **StorageManager** `src/storage.py` | the active run, its checkpoints | start_run, save_checkpoint, finalize_run | MissionManager, telemetry, events | a report belongs to its own run; a run is not left open |
| **HTTP API** `src/api.py` | the runtime, `adapter_connected` | endpoints and operator actions, start and shutdown of the application | everything | actions that bypass ControlCore break none of its promises |
| **RobotStateMachine, Telemetry** `src/state_machine.py`, `src/telemetry.py` | effective state, last snapshot | update in two critical sections | gates the start of missions | the gate is not stale |
| **EventBus, PersistentEventLog** `src/streaming.py`, `src/event_log.py` | bounded history, sequence numbers | publish, read_since | web sockets | no event lost silently |
| **CoordinateMissionStore** `src/operator_services.py` | mission files | load, save, add waypoint | HTTP workers | no lost update |
| **RosProcessService** `src/operator_services.py` | child processes | start, stop, cleanup | HTTP workers, operating system | no orphan process, no double start |
| **RealSense camera** `src/sensors/realsense_camera.py` | pipeline, latest frame, status | start, stop, capture thread | executor | stopped means stopped |
| **D1Service, D1BridgeClient** `src/services/`, `src/integrations/` | the application's interlock | one request per connection | D1 bridge | nothing reaches the arm without the interlock |
| **D1 bridge** `cpp/d1_bridge/` | interlock, halt, estop, poll watchdog, arm status | commands over a UNIX socket, DDS feedback | D1Service, DDS | no motion unless connected, enabled, not halted |
| **ROS go2_mission** `ros_ws/src/go2_mission/` | goal in progress, cancel event, its run | services, Nav2 goals | Nav2, StorageManager | a cancelled mission stops the goal it has sent; its report is true |
| **ROS go2_bridge** `ros_ws/src/go2_bridge/` | base node: adapter, last command, lidar source; lidar node: last cloud, warned; camera node: pipeline, intrinsics | one callback at a time per node; a DDS thread for the lidar | adapter, RealSense library, topics | the robot is at rest when the bridge ends; scans in order; a warning is true; nothing keeps the camera |
| **Scan projection** `pointcloud_utils.py` | none | one pass over a cloud | lidar node | the nearest point of every sector is shown |

The hardest behaviour is in the first five: ControlCore takes decisions under one
lock and acts on the robot outside it, every method may be called by any
worker thread at any time, and the executor goes through the same methods with
`wait_until_runnable()` as its only synchronisation. The D1 bridge and the ROS
executor have the same pattern: a lock or a flag for the decision, and an actuator
or a remote server that answers later, or never. Around them are services that hold
one lock each and let go of it to wait for a process, a file or a device.

The main places where these can go wrong, line by line, are the hazards in
`PROJECT.json`, each with the property that watches it or the reason why none does.

## 2. Modules

| module | models | state and actions |
|---|---|---|
| `MotionProfile` | the functions of one velocity axis | `Clamp`, `StepTowards`, `EffectiveAxis` |
| `MotionRamp` | one axis under the control loop and any sequence of targets | `Retarget` (submit), `Tick` (control loop) |
| `RobotAdapter` | MockRobotAdapter and Go2RobotAdapter (`Hardware`), with failures (`Faults`) | one operator per adapter method |
| `MotionGate` | **abstract**: what an emergency stop promises | `Start`, `Brake`, `Lose`, `Halt`, `Latch`, `Unlatch` |
| `ControlCore` | `src/control.py`: every method, both threads, and the endpoints that call them | one action per critical section and per adapter call; `op[c]` is where thread `c` is between two of them |
| `MissionManager` | `src/mission.py` and `src/storage.py` composed with ControlCore | one action per call of the executor; `start_pc` for the request that starts it |
| `D1Transport` | the DDS backend of `d1_transport.cpp` | one operator per method: connect, halt, enable, publication, feedback |
| `D1Bridge` | `d1_bridge_server.cpp`, `d1_safety.cpp`, `main.cpp` and the application's client, over `D1Transport` | one action per critical section of the main thread, the poll thread, the feedback callbacks and the signal watcher; connections in `queue` |
| `D1Interlock` | **abstract**: what the bridge promises about the arm | `Enable`, `Move`, `Shut` |
| `RosMission` | `go2_mission` with the run it keeps through StorageManager, and Nav2 | the service, the executor thread, the answers of Nav2, the end of the process |
| `RosProcesses` | the launches of `RosProcessService` | start, the two sections of a stop, cleanup, shutdown, and processes that end by themselves |
| `MissionStore` | `CoordinateMissionStore`, one route | load, delete, and the two steps of a save on disk, for several requests |
| `Events` | `EventBus` and the websocket handler that follows it | publish, join, read, send, disconnect |
| `Telemetry` | `TelemetryService`, `RobotStateMachine` and the start of the application | one action per thing a poll reads, and what may raise in between |
| `Realsense` | the RealSense camera | start, the capture thread, the steps of stop |
| `RosBridge` | `BaseBridgeNode` with its lidar source, and `LidarBridgeNode` | the steps of the constructor and of the shutdown, one action per callback, clouds that arrive, a sensor that dies, a kill |
| `CameraBridge` | the camera node | the steps of `_ensure_pipeline`, the frame timer, the shutdown, a camera that is plugged in |
| `ScanProjection` | `project_points_to_scan`, on integers | one action per point |
| `MCControlCore`, `MCMissionManager`, `MCServices`, `MCRos` | the constants of the runs; the services, and the ROS nodes, side by side | |
| `MotionProfileProofs`, `MotionRampProofs`, `ControlCoreProofs`, `MissionManagerProofs`, `D1BridgeProofs`, `RosMissionProofs`, `ServicesProofs`, `BridgeProofs` | lemmas and theorems | |

`ControlCore` EXTENDS `RobotAdapter` EXTENDS `MotionProfile`; `MissionManager`
EXTENDS `ControlCore`, and `RosBridge`, which drives the same adapters, `RobotAdapter`. Three refinements tie modules together: ControlCore
implements `MotionGate` (refinement mapping `GateMotion`); MissionManager
implements ControlCore with arbitrary callers (`OnlyCallsControlCore`, the identity
mapping), so that whatever holds for any callers holds while a mission runs; and
D1Bridge implements `D1Interlock`, with the backend's grant as the gate.

`MCServices` composes five services that share no state, and `MCRos` the nodes of the ROS
workspace, which are processes of their own: each behaviour exercises
one of them, so the states are the sum of theirs and not the product. The fairness of a node is
stated for the behaviours that exercise it, so that no node keeps the others from going on.

How state corresponds to code, where it is not the same name:

- Velocities are integers on one axis, the unit being `_AXIS_EPS`, below which
  the code treats a velocity as zero. The three axes go through the same
  functions; the decisions look only at "some axis is non-zero".
- `dt` is one tick. `Accel` and `Decel` are the largest steps of a tick.
- `teleop` is the age of `last_teleop_ts`: never set, younger or older than the
  watchdog's timeout. `captured_is_last` is the comparison of the watchdog's two
  sections.
- `settling` is `now < _settle_until`. It cannot elapse before the control loop
  has ticked once ("new" to "seen"): 1.75 s are 87 periods.
- `explicit_stop`, `stop_sent`, `last_sent` are the flags of the control loop.
- `robot_velocity` is what the robot was last commanded; it stays in force until
  the next command, which is how the mock integrates its pose.
- `connected` is `_sport is not None` on the Go2. Its `disconnect()` takes no lock: it sends
  StandDown, closes its subscribers, and clears `_sport` last, so it is two actions
  (`AdapterDisconnect`, then `AdapterClose`: `Disconnect` and `CloseConnection` in ControlCore,
  `DisconnectAdapter` and `CloseAdapter` in RosBridge), and other threads run in between.
  The mock's is one action, under its lock. `left_moving` is a history variable: the connection was
  closed while the robot moved, and no command has reached it since; `Driven` is a robot
  that moves for any other reason.
- `saved[c]` is what `take_manual()` restores when the adapter raises; it is kept
  only while that can still happen.
- In `D1Bridge`, `mutex` says that the main thread holds `transport_mutex_` between
  two of its actions; the poll thread holds it only within one, so its actions
  merely need it free. `stop()` takes no lock there, and its actions need none.
- In `RosMission`, `late` marks a goal that the executor has stopped waiting for;
  `current` is the last goal sent. A run's report is `torn` when one of its
  files could not be written.
- In `MissionStore`, `unseen[u]` is a history variable: what others saved since
  request `u` loaded the route. In `Events`, `sent` and `lost` are what the page
  has been sent and what it can no longer be sent.
- In `RosBridge` a cloud is its number, and `scan` the number of the cloud of the last
  scan; `points` is the topic between the two nodes, which keeps the `Depth` most recent
  messages. `cloud_age` counts up to `StaleAfter`, where a cloud is stale.
- In `CameraBridge`, `color_info` and `depth_info` are "current" when the intrinsics kept are
  those of the pipeline that runs and "stale" when they are of an earlier one;
  `stop_raised` is a history variable: the library could not stop a pipeline.
- `ScanProjection` measures angles and distances in integers: `floor((angle -
  angle_min) / angle_increment)` is `\div`, which rounds down as well.

Mutated forms of a definition stand directly above it and are named in comments
as mutants. No action uses them; each is a plausible bug that one of the
properties must notice.

## 3. Runs

All run with two TLC workers; sizes are distinct states.

| run | question | result |
|---|---|---|
| `motion_ramp` | do limits, acceleration, direction and convergence hold for every sequence of targets? | holds, 187 |
| `control_safety` | ESTOP, mode switches, pause and shutdown, two concurrent callers, mock adapter | holds, 1.2 million |
| `control_liveness` | the Go2 adapter with a Move that fails silently, a StandUp and mode switches that raise: and a disconnection that a Move may split: do watchdog and ESTOP bring the robot to rest, unless it is out of reach? refinement of MotionGate | holds, 0.37 million |
| `mission_safety` | two missions against an operator who takes over, aborts, pauses or latches ESTOP; failing checkpoints and file writes | holds, 2.9 million |
| `mission_liveness` | every kind of step, a join that times out: the executor ends, an abort stops the robot; refinement of ControlCore | holds, 34 thousand |
| `d1_bridge` | the four threads of the bridge against clients that give up: halt, interlock, what clients are told | holds, 0.45 million |
| `services` | launches, route files, event history, effective state, camera | holds, 0.13 million |
| `ros_nodes` | two missions against a Nav2 that answers late or never; the end of the bridge, its scans and its silence; a camera that comes and goes; the scan of a cloud | holds, 0.11 million |
| `mission_pause` | does a paused mission stop the robot? | **violated** |
| `control_damped` | does a damped robot stay damped under the latch? | **violated** |
| `d1_estop` | does the emergency stop of the application halt the arm? | **violated** |
| `ros_late` | is nothing driven when no mission is active? | **violated** |

### What the passing runs check

- `SpeedRampsUp`, `NeverAgainstTarget`, `RampSettles` (motion_ramp):
  the minimum effective speed and the sign rule of `_effective_axis` interact with
  the ramp on a reversal; none of the three follows from one function alone.
- `EstopStopOwed` (control_safety): while ESTOP is latched, a robot that moves, or is
  about to by a Move decided before, has a StopMove coming. This is the race between
  the control loop's decision and its adapter call. Like all properties about a stop it
  excepts the robot that `left_moving` marks, which no StopMove could reach (see section 5).
- `SilentOperatorStopOwed` (control_safety): once the watchdog has fired and done its work
  in MANUAL, the same holds until a new command arms it again. It fires only once, so a
  stop that some other call withdrew would never be asked for again.
- `EstopHoldsMode`, `EstopEndsMission` (control_safety): latch, mode and mission
  status agree whatever takeover, release, seat or mission call runs meanwhile, provided that
  the mode switches of the adapter do not raise. `Faults` has neither "enter" nor "exit" in this run,
  so no rollback is reachable in it; with one, both are false, because it writes
  back what was read before the adapter call.
- `NoResidualManualTarget` (control_safety): a manual target does not outlive its
  session except inside a mode switch that is about to clear it, under the same assumption.
- `ShutdownLeavesRobotStill` (control_safety): nothing is in flight after the joins.
- `PausedUntilResumed` (control_safety): only a resume sets a paused mission going,
  again when the mode switches do not raise.
- `SilentOperatorStops`, `EstopStops` (control_liveness): the watchdog's two
  sections and the loop's flags always end in a robot at rest, or out of reach.
- `ImplementsGate` (control_liveness): the refinement of MotionGate, whose state "lost" is a
  Go2 that a disconnection has left moving. A lost robot may come to rest, also after a new
  connection, but nothing sets it going under the latch.
- `CompletedMeansAllSteps`, `ReportsWrittenOnce` (mission_safety): what a report
  claims, and that after failed writes and failed starts no run writes into the
  report of another.
- `NoOrphanAutoTarget`, `EndedMissionStopOwed` (mission_liveness): a mission that is over
  leaves no target, and no motion without a StopMove to come, although its executor may
  submit one more movement after the end.
- `MissionEndsUnlessPaused`, `AbortedMissionStops`, `OnlyCallsControlCore`
  (mission_liveness): the executor ends, an aborted robot comes to rest, and the
  composition refines ControlCore.
- `HaltLatchDisarms`, `ImplementsInterlock` (d1_bridge): between a halt and the next
  accepted enable no joint command passes, although the poll thread reads the latch in one
  section and acts in another, reconnects, and publications fail half-way.
- `HaltGetsThrough`, `HaltShown` (d1_bridge): a halt that was sent is carried out, and
  a status read before it does not stay on display after it.
- `CompletedReportIsTrue`, `DrivingIsSupervised`, `OpenRunHasExecutor`, `CancelHalts`
  (ros_nodes): a COMPLETED report is of waypoints reached in that very run; what drives
  has an executor that waits for it and holds the handle to cancel it by; a run is left open only by a failing write; a
  cancellation gets hold of the goal even between dispatch and handle.
- `ChildrenRegistered`, `ShutdownLeavesNoChild` (services): a stop waits outside the
  lock while other requests start, stop and clean up under the same key.
- `AddsForgetOnlyUnseen` (services): adding a waypoint never takes a file it could
  not read for an empty route; what it overwrites is what others saved after its load.
- `EveryEventOnceOrLost` (services): a page that follows by sequence number gets each
  event once and in order, or the event had left the history.
- `EffectiveSettles` (services): the last flags win, whatever round was late or
  failed in the middle.
- `CameraReleased` (services): a failed start or a stop during a capture does not
  leave the device open, unless the library itself cannot close it.
- `BridgeEndsAtRest` (ros_nodes): whichever step of the constructor fails and wherever an
  interrupt comes, the robot stands still when the process ends.
- `ScanNeverOlder` (ros_nodes): the DDS thread overwrites the latest frame, the topic
  drops old ones, and still no scan is of an older cloud than the one before.
- `LostPublisherReported` (ros_nodes): a bridge that is gone is reported as a stale input.
- `CameraOwned`, `CameraFound` (ros_nodes): an attempt that fails half-way gives the camera back,
  and is made again until the camera is found.
- `NearestPerBin` (ros_nodes): every sector of a scan shows the nearest point in reach.
  Angles are integers here: the rounding of floats at the edge of a sector is left out.

### What the violations show

- **Pause** (`mission_pause`). The executor passes its gate, an operator pauses,
  the executor's `submit()` follows. It is accepted (the mode is still AUTO) and
  clears `_explicit_stop_requested`; `pause_mission()` had already cleared
  `_last_sent_command`, so no tick finds a reason to send StopMove. The robot
  keeps walking until the mission is resumed, aborted or taken over. The same
  order after an *abort* is harmless only because the executor then leaves its
  step through `stop_motion()`: that is `AbortedMissionStops`, which holds, and
  whose mutant drops exactly that call.
- **Stand-up against ESTOP** (`control_damped`). `stand_up()` checks the latch
  in one critical section and raises the robot after it.
- **ESTOP and the arm** (`d1_estop`). The guide says the emergency stop triggers the
  software halt of the D1; `POST /api/mode/estop` and the button of the page call
  `latch_estop()` and nothing else.
- **Late goal** (`ros_late`). The wait for the acceptance of a goal ends after 15 s;
  the goal is neither cancelled nor remembered. `DrivingIsSupervised` and `CancelHalts`
  except exactly these goals, and hold for all others.

Three more disagreements are described by the models without a run of their own. A
takeover or ESTOP between `can_start_mission()` and `begin_mission()`
(`src/mission.py:77`) leaves an active run that nobody executes, and every later
start is refused (`StartBegin`; compare `OpenRunHasExecutor` of the ROS
executor). And `Go2RobotAdapter` has no `ensure_motion_ready()`, which
`src/mission.py:95` calls: a scripted route fails at its first call on hardware, which is
why the mission runs use the mock adapter. And with the SDK the base node of the ROS bridge
publishes its latest frame on every timer, whether or not a new one has come
(`base_bridge.py:225`): a lidar that falls silent is never reported by the lidar node, whose
warning says "no fresh cloud received" (`lidar_bridge.py:135`).

### Bounds

- `MaxV = MinV = Accel = Decel = 1` in the control and mission runs: the velocity
  profile is checked by itself in `motion_ramp` (limit 5, minimum 2, steps 2 and
  3), and the control flow only distinguishes zero from non-zero velocities, so
  one magnitude is enough. Requests of 2 exceed the limit.
- Two callers: every race in the code is between two method calls, or between
  one and the two threads, which are always present. In the liveness
  run there is one caller besides the two threads, because symmetry and
  liveness do not go together. Failing mode switches are in that run: the state kept for a
  rollback is too large for two arbitrary callers, and the theorems cover those.
- `Operations` bounds what operators ask for. `control_safety` leaves out
  "connection": the mock is made ready by a stand-up instead, and connecting is in
  `control_liveness`. `mission_liveness` leaves out "manual", since its properties are
  about AUTO, and both mission runs leave out "posture": an operator who repeats stand_up
  restarts the settle time for ever, so that nothing would have to end.
- `Chunks`, the 50 ms chunks of a step, is 1 or 3: two chunks are needed for a
  submit after an earlier one, three for a robot that is already moving when the
  pause arrives. `MaxRuns` is 1, and 2 where one run may affect the next.
- D1: `Backlog` 1, a connection waiting while another is served; more of them only
  repeat the order in which requests may come, which is arbitrary. `DryRunFallback` is TRUE
  (with it the bridge serves also when the arm cannot be reached); both `enable_motion` settings take every
  value in the initial state.
- ROS: two waypoints (a first and a last), two runs (what the first leaves to
  the second), `WritesFail` TRUE.
- Services: two clients and the shutdown of the server with four launches, so that a
  key is started again while both a stop and another start are on their way; two users and three
  waypoints, the third being the one that a lost update loses; a history of three
  events of which a new page is sent the two most recent, and seven events, so that
  a page can fall behind more than the history holds.
- ROS bridge: a topic that keeps two messages and three clouds, so that messages are
  dropped between two that arrive; `StaleAfter` 2, an age between fresh and stale. `Faults`
  is empty because the constructor's failures are actions of their own; the theorems cover every set
  of faults. Three calls of the library may fail although the camera is there: the first
  attempt, its repetition, and one after an interrupt. The projection has three
  sectors, of which the first begins below zero and the last holds only one angle, points on both
  sides of each limit, and clouds of two points, enough for one to hide the other.
- Deadlock is checked in `motion_ramp` only: elsewhere the system ends after shutdown,
  or the bound of a counter is reached.

### Fairness

`ControlFairness`: the control loop and the watchdog run until shutdown (both
are loops on `_stop_event.wait(period)`), a method that was entered returns (no
wait inside one depends on another thread), and the settle time passes. Nothing
is assumed of operators and of the mission. `MissionFairness` adds the executor,
which polls every 50 to 100 ms, and a start request that holds the lock.
`D1Bridge` assumes that the main thread and the poll thread go on, and nothing of the
arm or of signals. The main thread's `recv()` has no timeout, so this rests on the client:
the application's sends its whole request right after it has connected, and closes the
connection when it gives up.
`RosFairness` assumes that the executor thread goes on: it polls a future every 50 ms,
gives the acceptance of a goal 15 s, and waits for a result without limit, asking Nav2 to
cancel once the mission is cancelled. Nav2 is assumed to end a goal it was asked to
cancel; an uncancelled goal may take for ever, and `Executor` is then not enabled. In `Telemetry` the polling thread goes on, and a
write of its log line that is tried again and again succeeds sometimes (strong
fairness of `PollStored`): a disk that is full for ever does keep the effective state
from being updated. In `MCRos` the timers of both bridge nodes go on while they spin, messages that
were sent are handled, and time passes; nothing is assumed of the sensor. The retry timer of the camera calls `_ensure_pipeline` again and again, and the constant `MaxGlitches` says
that a camera that is there does not fail for ever. All the rest is weak fairness.

## 4. Proofs

| theorem | states | assumption |
|---|---|---|
| `RampTypeCorrect`, `SpeedRampsUpCorrect`, `NeverAgainstTargetCorrect` | the velocity profile | `ProfileAssumption` |
| `RampApproachesCorrect` | every tick brings the ramp closer to the target, or leaves it there | the same |
| `TypeCorrect` | type correctness of ControlCore | none |
| `EstopStopOwedCorrect` | the stop of an ESTOP is never lost (*) | the adapter's stop does not fail |
| `ImplementsGateCorrect` | ControlCore implements MotionGate, "lost" included | the same |
| `SilentOperatorStopOwedCorrect` | the stop of the watchdog is never lost (*) | leaving manual mode and the adapter's stop do not fail |
| `EstopHoldsModeCorrect`, `EstopEndsMissionCorrect` | latch, mode and mission agree | mode switches of the adapter do not raise |
| `NoResidualManualTargetCorrect`, `PausedUntilResumedCorrect` | manual targets end with their session; only a resume ends a pause | the same |
| `ShutdownLeavesRobotStillCorrect` | the robot stands after shutdown (*) | the joins get through, the adapter's stop does not fail |
| `OnlyCallsControlCoreCorrect` | MissionManager implements ControlCore | none |
| `MissionTypeCorrect` | type correctness of MissionManager | none |
| `CompletedMeansAllStepsCorrect` | a COMPLETED report is of all steps and all checkpoints of its run | entering manual mode does not raise |
| `MissionEstopStopOwed` | the stop of an ESTOP is never lost while a mission runs (*) | the adapter's stop does not fail |
| `MissionImplementsGate` | the composition with the executor implements MotionGate, "lost" included | the same |
| `EndedMissionStopOwedCorrect` | the stop that ends a mission is never lost (*) | entering manual mode and the adapter's stop do not fail |
| `ReportsWrittenOnceCorrect` | reports are written once, by their own run | none |
| `NoOrphanAutoTargetCorrect` | an executor that ended leaves no target behind | none |
| `D1TypeCorrect`, `HaltLatchDisarmsCorrect` | types of the D1 bridge; a halt keeps the gate shut | none |
| `ImplementsInterlockCorrect` | D1Bridge implements D1Interlock | none |
| `RosTypeCorrect`, `CompletedReportIsTrueCorrect` | types of the ROS executor; reports are true | none |
| `DrivingIsSupervisedCorrect`, `OpenRunHasExecutorCorrect` | what drives is supervised; a run left open has a torn file | none |
| `ChildrenRegisteredCorrect`, `ShutdownLeavesNoChildCorrect` | no launch gets lost | none |
| `ServicesTypeCorrect` | types of the five services side by side | none |
| `EveryEventOnceOrLostCorrect` | a page gets each event once, in order, or has lost it | none |
| `AddsForgetOnlyUnseenCorrect` | only waypoints that a request could not see are overwritten | none |
| `CameraReleasedCorrect` | a camera service that has stopped does not hold the device | none |
| `BridgeTypeCorrect`, `BridgeEndsAtRestCorrect`, `StoppedBeforeSeatedCorrect`, `OdometryTellsTruthCorrect` | types of the ROS bridge; rest, and a true odometry | none |
| `ScanNeverOlderCorrect`, `WarningIsTrueCorrect` | scans in order, true warnings | none |
| `CameraTypeCorrect`, `CameraOwnedCorrect`, `IntrinsicsMatchCorrect`, `RequiredWasFoundCorrect` | the camera node; a required camera was found before the node spins (not: is there still) | none |
| `NearestPerBinCorrect`, `SectorsCoverCorrect` | the scan of any cloud | none |

(*) Except for a Go2 that a disconnection has left moving: `left_moving` marks it, and
the property says so.

They hold for every set of callers, every request, every limit and ramp, both
adapters, every route and number of runs, every backlog, number of waypoints, clients and
launches, every history and topic depth, every cloud and range of angles ("none" is besides the
types of the constants). The assumptions are
not conveniences: if a StopMove fails, it is logged and never retried; if a mode switch
raises, `take_manual()` restores the mode it had read before its adapter call, so that an
ESTOP latched meanwhile keeps its latch and loses its mode to AUTO; if a join times out,
the control loop may still send a Move after the robot was told to sit; if entering manual
mode raises, the rollback may set a mission RUNNING again that was aborted meanwhile, and a step
that was broken off then counts as done; if leaving it raises, MANUAL comes back over a
mission that began meanwhile and withdrew the watchdog's stop. Neither
adapter of the repository raises in a mode switch; the one in
`tests/test_control_priority.py:84` does. (`ESTOPPED` may also become `FAILED`,
because `fail_mission()` looks at no status: `EstopEndsMission` allows both.)

**The argument for the stop.** `EstopStopOwed` is not inductive: nothing in it
says why a stop that was sent is not needed again. `StopInv` adds, for a latched
core and also before a latch, how `stop_sent`, `explicit_stop` and `settling`
relate to the velocity of the robot and to the action the loop has decided but
not done. The point is the Move in flight: `latch_estop()` clears `stop_sent`
*and* sets `explicit_stop`, and while the latch is set no method clears the
latter except `stand_up()`, which sets `settling` in the same section. So
whatever arrives after the emergency stop is followed by one more StopMove. A connection
that is closed only takes a robot out of its reach (`Driven` becomes false, `left_moving` true); that a
new connection does not bring it back as a driven one is why `left_moving` lasts until a command
reaches the robot.

**The stops without a latch.** The same problem returns where nothing forbids new motion.
`StopStays` is what keeps a stop that was asked for: it is unsent wherever the robot
may move, an unsent stop is due, and no ramp is left to send a motion from. The lemmas sort
the calls of ControlCore into those that establish it (`ResetCall`), those that keep it
(`QuietCall`), and `submit` and `begin_mission`, which do not. `SilentInv` has it after
the watchdog's work, where both are excluded: a submit arms the watchdog again, a mission begins
in AUTO, and no rollback brings MANUAL back. `OverInv` has it in AUTO without a mission:
whoever may still submit there, the executor in the last chunk of a movement, has a
`stop_motion()` of its own to come, and so has a release of manual mode.

**The argument for the priority.** `PriorityInv` relates latch, mode and mission
status, including threads that are in the middle of a mode switch: a rollback
is impossible unless the adapter call raises. `NoResidualManualTarget` is inductive
on top of it, and `PausedUntilResumed` is a fact about steps from it.

**The argument for the shutdown.** `StillInv`: once nobody is in the joins any more, the loop has
no action in flight, and the robot stands or the call that seats it is still to come.

**The refinement of the gate** uses `StopInv` before and after a step, and one
lemma per way of moving: only the control loop's decision starts motion, and it
decides on motion only with the latch clear.

**The composition with missions** is one lemma per group of executor actions: each is a call
that ControlCore allows, or leaves ControlCore alone. `RunInv` (the run an
executor works on is the one it was started for, and has no report yet) and `MoveInv` (a
target exists only where the executor is inside a movement) give the two
properties about runs and targets.

**The interlock of the arm.** The invariant of `D1BridgeProofs` has one part for
each thing a thread relies on after it has let go of the lock: the main thread keeps
the mutex through a publication (`MutexHeld`), what it has checked there still holds
(`Checked`), requests of the application come only when it is configured to
send them (`Requested`), a grant implies that the arm was told to enable its
motors (`GrantedArm`), and nobody latches a halt between the acceptance of an
enable and its grant (`EnableUnlatched`). The last is what makes `HaltLatchDisarms` inductive.

**The ROS executor.** `Place` ties the position of the thread to its goal, run and
waypoint; `Progress` says that the waypoints before the current one are reached and
recorded in the active run, which is what makes a COMPLETED report true; `RunOpen` and
`Supervised` are the two other properties strengthened to positions where
the thread is about to finish.

**The launches.** A request that waits is waiting for a launch that exists
(`WaitsForLaunch`); with it `ChildrenRegistered` is inductive, and the shutdown finds every child.

**The completed missions.** `EndInv`: once an abort or an ESTOP has come, the status is terminal and stays so
until the executor has ended. `CountInv` has the rest: the counters are those of the step
(`ProgressInv`), the checkpoints those of the steps before (`SavedInv`), and only an executor that has
done all of them brings the status to COMPLETED (`CompletedInv`). The number of checkpoints of a
prefix of the route is a cardinality (`SavedBy`), so that no induction over the route is needed.

**The event page, the routes, the camera.** Events are numbered by their position
(`Numbered`), a page holds those before the last it was sent in order (`PageInOrder`), and every
number up to that one was sent or lost (`NothingUnaccounted`): the three together are
inductive, and the gap that `read_since` leaves is what becomes lost. For
the routes, a save holds the lock for both its steps (`OneWriter`) and a request
that adds has all that was on disk but `unseen` (`AddKnows`). For the camera the place
of each thread says who still has to close the device (`CameraInv`).

**The bridge.** `DriveInv` has one part per thing its end relies on: where the adapter exists
(`AdapterThere`), where the robot must already stand (`AtRest`), and that the robot does
what `_last_cmd` says (`LastCmdDriven`). `CloudsInOrder` orders the numbers along the
whole way of a cloud: scan, then the last cloud handled, the topic, the latest frame, the
sensor. For the camera node `AttemptInv` says, for each step of an attempt, what it
has opened and whose intrinsics it keeps.

**The projection.** `NearestSoFar` is the loop invariant: every bin holds the nearest of the points
read so far. The lemmas before it relate the floor of a division to the
edges of a sector, which is where an off-by-one would be.

Only model-checked: the liveness properties `RampSettles`, `SilentOperatorStops`, `EstopStops`,
`MissionEndsUnlessPaused`, `AbortedMissionStops`, `HaltGetsThrough`, `HaltShown`,
`CancelHalts`, `EffectiveSettles`, `LostPublisherReported` and `CameraFound`; liveness under
fairness is out of reach of the prover. Every other property of a passing run is a theorem. Of three of them the part that is not
liveness is proved too: `SilentOperatorStopOwed` and `EndedMissionStopOwed` say that the stop
which `SilentOperatorStops` and `AbortedMissionStops` wait for cannot get lost, and
`RampApproaches` that no tick takes the ramp further away from where `RampSettles` wants it.

Only proved: the types of all modules, `RampApproaches`, `MissionImplementsGate`, `StoppedBeforeSeated`,
`OdometryTellsTruth`, `WarningIsTrue`, `IntrinsicsMatch`, `RequiredWasFound` and `SectorsCover`, which
no run repeats on a small instance.

## 5. What is left out

In the modelled components:

- Fields that are only reported: `active_step_id`, `_last_action_message`, return
  codes, `_derive_motion_mode_locked`.
- Event records and logs, and failures of the callback that records them.
- The mission gate of `RobotStateMachine` is read before `start_route()` and
  may be stale when it is used: `StartCheck` assumes nothing from it. That the state it
  reads settles is `EffectiveSettles`.
- Route validation, RealSense snapshots and image analysis: in
  `CheckpointStep` they may raise, nothing else.
- D1: the poll watchdog and the second copy of ESTOP in `D1Safety`, which only
  change messages; requests that change nothing; the values of joints; the mock
  backend, which serves tests; SIGPIPE, after which the bridge is gone.
- go2_bridge: the building of messages, its capture service, which keeps nothing, and the search for
  the message type of the SDK.
- Nav2, the arm and the processes behind `ros2 launch` are external and may do what
  their interface allows.

Not modelled:

- **CameraStream**, **PersistentEventLog**: one writer, no state but the latest frame or
  an append-only file that nothing reads to decide.
- **Point cloud and lidar conversion** apart from the projection to a scan: how bytes become points
  and a depth image becomes a cloud, one message into another without any state.
- **Image analysis**: arithmetic on the pixels of one frame.
- **Web dashboard, launch files, configuration**: user interface and deployment.

**A disconnection under a Move.** The operator's "disconnect" (`src/api.py:778`) goes past ControlCore,
and `Go2RobotAdapter.disconnect()` (`go2_adapter.py:128-150`) has no lock against the control loop. A
Move that the loop sends after its StandDown and before `_sport` is `None` leaves the robot moving, and
every later `stop()` returns at once (`go2_adapter.py:216`): neither the watchdog nor ESTOP
reaches it. Connecting again does not stop it either: the core believes that its stop was sent,
and under the latch nothing but another request for a stop, a damp or a posture command will. The models have this behaviour.
Nothing in the code or its documents promises the contrary, so no property is violated by it;
the properties about a stop except this robot and no other, and `PROJECT.json` has the hazard at
`src/api.py:813`. A Move that is already inside `_send_move` when `_sport` is cleared is not
distinguished from one that got there before.

Known weak points that `PROJECT.json` does not list among its hazards, because
nothing in the code or its documents says what should hold:

- the report of a mission shows the status read before it is written, so that one which ends
  while paused is reported PAUSED_MANUAL (`src/mission.py:128`);
- `begin_mission()` clears the request of a stop (`src/control.py:136`). A release of manual mode
  has asked for one; when a mission begins before the loop has sent it, because a call of the adapter
  takes long or no tick has come yet, it is withdrawn, and the robot goes on with its last
  velocity until the mission's first movement or stop. This is why `EndedMissionStopOwed` and
  `SilentOperatorStopOwed` are about times without an active mission;
- when the first telemetry snapshot fails, the polling thread is never started
  (`src/telemetry.py:38`);
- a route deleted between the load and the save of a waypoint comes back
  (`src/operator_services.py:188`); killing `ros2 launch` does not end the nodes it
  started (`:398`); mapping and navigation may both start go2_bridge (`:349`);
- a capture that outlives `stop()` reports "streaming" again
  (`src/sensors/realsense_camera.py:306`), and a snapshot after an error is of an old
  frame (`:179`);
- feedback without an ESTOP field clears the ESTOP of the last one
  (`d1_transport.cpp:1372`), which the models allow; the poll watchdog is evaluated by the
  thread it watches (`d1_safety.cpp:26`); the mock backend applies part of a command it
  then rejects (`d1_transport.cpp:1596`);
- go2_bridge has no timeout on `cmd_vel` (`base_bridge.py:126`): when its sender dies the robot
  goes on with the last command;
- a camera that is unplugged while it streams is never looked for again, because `_started`
  stays set (`camera_bridge.py:119`).

## 6. Ideas for later

1. `MissionLifecycle`: an abstract mission (started, running, paused, ended, one
   report) that both MissionManager and RosMission implement.
2. The snapshots of the RealSense camera with the age of their frame.
