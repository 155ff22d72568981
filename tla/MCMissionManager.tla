--------------------------- MODULE MCMissionManager ---------------------------
(* Constants of the runs of MissionManager.                                 *)
EXTENDS MissionManager, TLC

CONSTANTS executor, operator
ExecutorAndOperator == {executor, operator}

FullRoute == <<"stand_up", "move", "checkpoint", "stop", "wait">>
ShortRoute == <<"move", "checkpoint">>
MoveRoute == <<"move">>
=============================================================================
