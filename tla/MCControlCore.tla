---------------------------- MODULE MCControlCore ----------------------------
(* Constants of the runs of ControlCore.                                    *)
EXTENDS ControlCore, TLC

CONSTANTS c1, c2
TwoCallers == {c1, c2}
AnyCaller == Permutations(TwoCallers)
=============================================================================
