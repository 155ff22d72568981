----------------------------- MODULE D1Interlock -----------------------------
(***************************************************************************)
(* What the D1 bridge promises about the arm: joint commands reach it only *)
(* through an open gate, the gate opens only after the arm was told to     *)
(* enable its motors, and both keys of the configuration are needed.       *)
(***************************************************************************)
VARIABLES
    configured,              \* both enable_motion settings are on
    gate,                    \* joint commands are let through
    arm                      \* last told: "off", "enable" or "joints"

vars == <<configured, gate, arm>>

Init == configured \in BOOLEAN /\ gate = FALSE /\ arm = "off"

Enable == configured /\ arm' = "enable" /\ gate' \in {gate, TRUE}
Move == gate /\ arm' = "joints" /\ UNCHANGED gate
Shut == gate' = FALSE /\ arm' \in {arm, "off"}

Next == (Enable \/ Move \/ Shut) /\ UNCHANGED configured
Spec == Init /\ [][Next]_vars
=============================================================================
