------------------------------ MODULE MotionGate ------------------------------
(***************************************************************************)
(* What ControlCore promises about ESTOP, and nothing else: a latch, and   *)
(* the motion of the robot as "moving", "stopping" (it moves, or a command *)
(* to move is on its way, and a stop is due), "still", or "lost" (the      *)
(* connection was closed while it moved, so that no stop can reach it).    *)
(* Motion starts only while the latch is clear, latching turns any motion  *)
(* into a stopping one, and a stopping robot comes to a standstill unless  *)
(* it is lost.                                                             *)
(***************************************************************************)
VARIABLES latched, motion

gateVars == <<latched, motion>>

GateTypeOK == latched \in BOOLEAN /\ motion \in {"still", "moving", "stopping", "lost"}

GateInit == latched = FALSE /\ motion = "still"

Start == ~latched /\ motion # "moving" /\ motion' = "moving" /\ UNCHANGED latched

Brake == motion = "moving" /\ motion' = "stopping" /\ UNCHANGED latched

Lose == motion \in {"moving", "stopping"} /\ motion' = "lost" /\ UNCHANGED latched

Halt == motion # "still" /\ motion' = "still" /\ UNCHANGED latched

Latch ==
    /\ ~latched
    /\ latched' = TRUE
    /\ motion' = IF motion = "moving" THEN "stopping" ELSE motion

Unlatch == latched /\ latched' = FALSE /\ UNCHANGED motion

GateNext == Start \/ Brake \/ Lose \/ Halt \/ Latch \/ Unlatch

GateSpec == GateInit /\ [][GateNext]_gateVars

\* a latched robot comes to a standstill or is lost, unless the latch is cleared
GateStops == latched ~> (motion \in {"still", "lost"} \/ ~latched)
=============================================================================
