----------------------------- MODULE RobotAdapter -----------------------------
(***************************************************************************)
(* The robot as the application sees it: MockRobotAdapter                  *)
(* (src/robot/robot_adapter.py) when Hardware is FALSE, Go2RobotAdapter    *)
(* (src/robot/go2_adapter.py) when it is TRUE.  A commanded velocity       *)
(* persists until the next command, as _integrate_locked assumes.          *)
(*                                                                         *)
(* The operators are the adapter's methods; the callers are in the modules *)
(* that extend this one.  Faults names the calls that may fail.            *)
(***************************************************************************)
EXTENDS MotionProfile

CONSTANTS
    Hardware,   \* TRUE: Go2RobotAdapter, FALSE: MockRobotAdapter
    Faults      \* the adapter calls (and file writes) that may fail

FaultKind == {"move", "stop", "stand_up", "enter", "exit", "checkpoint", "write", "slow_join"}

ASSUME AdapterAssumption == Hardware \in BOOLEAN /\ Faults \subseteq FaultKind

VARIABLES
    connected,        \* _connected, or _sport is not None
    can_move,         \* MockRobotAdapter.can_move; Go2RobotAdapter has no such attribute
    manual_active,    \* Go2RobotAdapter._manual_mode_active
    robot_velocity,   \* the velocity the robot was last commanded
    left_moving       \* history: the connection was closed while the robot moved,
                      \* and no command has reached it since

adapterVars == <<connected, can_move, manual_active, robot_velocity, left_moving>>

AdapterTypeOK ==
    /\ connected \in BOOLEAN
    /\ can_move \in BOOLEAN
    /\ manual_active \in BOOLEAN
    /\ robot_velocity \in Speed
    /\ left_moving \in BOOLEAN

AdapterInit ==
    /\ connected = FALSE
    /\ can_move = FALSE
    /\ manual_active = FALSE
    /\ robot_velocity = 0
    /\ left_moving = FALSE

\* the robot moves, and not only because it was left so
Driven == robot_velocity # 0 /\ ~left_moving

\* getattr(self.adapter, "can_move", True) in ControlCore.submit
AdapterCanMove == Hardware \/ can_move

\* The Go2 calls swallow a failure and return: nothing reaches the robot.
Swallowed(call) == Hardware /\ (~connected \/ call \in Faults)

\* StopMove or StandDown on the Go2, zeroed velocities on the mock
ZeroVelocity ==
    \/ ~(Hardware /\ ~connected) /\ robot_velocity' = 0 /\ left_moving' = FALSE
    \/ Swallowed("stop") /\ UNCHANGED <<robot_velocity, left_moving>>

AdapterConnect ==
    /\ connected' = TRUE
    /\ can_move' = ~Hardware
    /\ manual_active' = FALSE
    /\ UNCHANGED <<robot_velocity, left_moving>>

\* disconnect: the mock's is done under its lock.  The Go2's has no lock; it
\* sends StandDown, then closes its subscribers, and its connection is still
\* there for the calls of other threads ...
AdapterDisconnect ==
    /\ ZeroVelocity
    /\ can_move' = FALSE
    /\ connected' = (Hardware /\ connected)
    /\ manual_active' = (Hardware /\ manual_active)

\* ... until _sport is None.  (A command whose call is under way then may still
\* come through: it is as if it had come before, since nothing else reaches the
\* robot any more.)
AdapterClose ==
    /\ connected' = FALSE
    /\ manual_active' = FALSE
    /\ left_moving' = (robot_velocity # 0)
    /\ UNCHANGED <<can_move, robot_velocity>>

\* send_velocity: the mock refuses with -1 while it cannot move
SendVelocity(v) ==
    /\ UNCHANGED <<connected, can_move, manual_active>>
    /\ \/ /\ IF Hardware THEN connected ELSE can_move
          /\ robot_velocity' = v /\ left_moving' = FALSE
       \/ /\ Swallowed("move") \/ (~Hardware /\ ~can_move)
          /\ UNCHANGED <<robot_velocity, left_moving>>

\* stop
StopRobot ==
    /\ UNCHANGED <<connected, can_move, manual_active>>
    /\ ZeroVelocity

\* emergency_stop after its call of stop: the mock blocks motion, the Go2
\* goes passive
DampRobot ==
    IF Hardware
    THEN /\ UNCHANGED <<connected, can_move>>
         /\ \/ /\ connected
               /\ robot_velocity' = 0 /\ left_moving' = FALSE /\ manual_active' = FALSE
            \/ Swallowed("stop") /\ UNCHANGED <<robot_velocity, left_moving, manual_active>>
    ELSE /\ can_move' = FALSE
         /\ UNCHANGED <<connected, manual_active, robot_velocity, left_moving>>

\* sit_down: the mock only stops, the Go2 lies down (StandDown)
SeatRobot ==
    /\ UNCHANGED <<connected, can_move>>
    /\ manual_active' = FALSE
    /\ ZeroVelocity

\* stand_up raises when the Go2 is not connected or StandUp returns non-zero
StandUpRaises == Hardware /\ (~connected \/ "stand_up" \in Faults)

RaiseRobot ==
    /\ Hardware => connected
    /\ can_move' = ~Hardware
    /\ UNCHANGED <<connected, manual_active, robot_velocity, left_moving>>

EnterManualMode ==
    /\ manual_active' = Hardware
    /\ UNCHANGED <<connected, can_move, robot_velocity, left_moving>>

\* exit_manual_mode: the Go2 is sent Move(0, 0, 0) if it had entered
ExitManualMode ==
    /\ manual_active' = FALSE
    /\ UNCHANGED <<connected, can_move>>
    /\ \/ manual_active /\ connected /\ robot_velocity' = 0 /\ left_moving' = FALSE
       \/ /\ ~(manual_active /\ connected) \/ Swallowed("move")
          /\ UNCHANGED <<robot_velocity, left_moving>>
=============================================================================
