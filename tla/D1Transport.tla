----------------------------- MODULE D1Transport -----------------------------
(***************************************************************************)
(* The DDS backend of the D1 bridge: what it knows of the arm, and what    *)
(* each of its operations does to that.  Every operator maps a state of    *)
(* the backend to the next one; D1Bridge decides who calls them and when.  *)
(*                                                                         *)
(*   link     the DDS endpoints that exist: none, subscribers only, or     *)
(*            subscribers and the command publisher.  The ownership lock   *)
(*            is held exactly while there is a link                        *)
(*   fresh    a message of the arm is younger than stale_timeout_ms        *)
(*   granted  motion_requested_enabled_                                    *)
(*   halted   halt_requested_                                              *)
(*   estop    the ESTOP the last parsed feedback reported                  *)
(*                                                                         *)
(* Error codes and texts are left out.  The cached motion_enabled of       *)
(* latest_status_ is left out too: read_status() never uses it.            *)
(***************************************************************************)

Link == {"down", "feedback", "ready"}

Transport == [link: Link, fresh: BOOLEAN, granted: BOOLEAN, halted: BOOLEAN, estop: BOOLEAN]

TransportInit == [link |-> "down", fresh |-> FALSE, granted |-> FALSE, halted |-> FALSE, estop |-> FALSE]

(* Both flags and the ages of the messages are reset, the cached ESTOP is not. *)
TransportClose(t) == [TransportInit EXCEPT !.estop = t.estop]

(* Motion and halt are reset before anything else is tried.  A publisher that
   cannot be created leaves a read-only link when the options allow it, and
   closes everything otherwise; so does any other failure. *)
Connected(t, dryRunFallback) ==
    {[t EXCEPT !.link = l, !.granted = FALSE, !.halted = FALSE] :
        l \in IF dryRunFallback THEN {"feedback", "ready"} ELSE {"ready"}}
    \cup {TransportClose(t)}

(* is_connected(): freshness alone decides. *)
IsConnected(t) == t.fresh

(* handle_servo_info() and handle_feedback(): every message makes the arm
   fresh, a feedback that parses also replaces the ESTOP by its own (FALSE when
   it carries none), whichever of the two topics it came from. *)
Heard(t) == [t EXCEPT !.fresh = TRUE]
HeardStatus(t, e) == [t EXCEPT !.fresh = TRUE, !.estop = e]

CanPublish(t) == IsConnected(t) /\ t.link = "ready"

(* What read_status() reports as motion_enabled. *)
ReportsMotion(t) == t.granted /\ CanPublish(t) /\ ~t.estop /\ ~t.halted

(* The checks of set_motion_enabled(true) and of validate_motion_preconditions(). *)
MayEnable(t, enableMotion) == enableMotion /\ CanPublish(t) /\ ~t.estop

\* Mutant of MayMove: the grant is not asked for.
MayMoveUngranted(t, enableMotion) == MayEnable(t, enableMotion) /\ ~t.halted

MayMove(t, enableMotion) == MayEnable(t, enableMotion) /\ t.granted /\ ~t.halted

(* The gate of a successful enable, of a disable and of a halt. *)
Granted(t) == [t EXCEPT !.granted = TRUE, !.halted = FALSE]
Disabled(t) == [t EXCEPT !.granted = FALSE, !.halted = FALSE]
Halted(t) == [t EXCEPT !.granted = FALSE, !.halted = TRUE]
=============================================================================
