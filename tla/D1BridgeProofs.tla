---------------------------- MODULE D1BridgeProofs ----------------------------
(***************************************************************************)
(* What the D1 bridge guarantees for every length of the connection queue  *)
(* and with or without the read-only fallback: the halt latch disarms the  *)
(* arm, and every step of the bridge is one the interlock allows.          *)
(***************************************************************************)
EXTENDS D1Bridge, TLAPS

-----------------------------------------------------------------------------
(* The inductive invariant.  The type alone says nothing of the mutex; that
   a publication holds it keeps the poll thread from taking the grant back
   between the check and the write.                                         *)

MutexHeld == mutex <=> rpc = "publish"

\* The grant is given only after the enable reached the arm.
GrantedArm == tr.granted => arm \in {"enable", "joints"} /\ config.bridge /\ config.app

\* A motion command comes from an application that allows it.
Requested ==
    /\ \A i \in DOMAIN queue : queue[i] \in MotionCommands => config.app
    /\ req \in MotionCommands => config.app

\* What the checks before a publication still guarantee while it goes on.
Checked ==
    rpc = "publish" =>
        /\ config.bridge /\ req \in MotionCommands
        /\ req = "set_joint_angle" => tr.granted \/ tr.link # "ready"

\* Nobody sets the halt latch between the acceptance of an enable and its grant.
EnableUnlatched == rpc \in {"section", "publish"} /\ req = "enable_motion" => ~halt

Inv ==
    /\ D1TypeOK /\ MutexHeld /\ GrantedArm /\ Requested /\ Checked
    /\ EnableUnlatched /\ HaltLatchDisarms

LEMMA InvInit == Init => Inv
<1> SUFFICES ASSUME Init PROVE Inv
  OBVIOUS
<1> USE DEF Init
<1>1. tr \in Transport /\ tr.granted = FALSE
  BY DEF TransportInit, Transport, Link
<1>2. queue \in Seq(Commands) /\ Len(queue) = 0 /\ DOMAIN queue = {}
  OBVIOUS
<1>3. stopper \in [StopCallers -> {"none", "join", "close", "done"}]
  OBVIOUS
<1>4. queue \in Seq(Commands) /\ Len(queue) <= Backlog
  BY <1>2, D1Assumption
<1>5. D1TypeOK
  BY <1>1, <1>3, <1>4 DEF D1TypeOK, Commands
<1>6. Requested
  BY <1>2 DEF Requested, MotionCommands
<1> QED BY <1>1, <1>5, <1>6
       DEF Inv, MutexHeld, GrantedArm, Checked, EnableUnlatched, HaltLatchDisarms

-----------------------------------------------------------------------------
(* The backend: what each of its operations leaves alone.                   *)

LEMMA ClosedTransport ==
    ASSUME NEW t \in Transport
    PROVE  /\ TransportClose(t) \in Transport
           /\ TransportClose(t).granted = FALSE /\ TransportClose(t).link = "down"
BY DEF Transport, Link, TransportClose, TransportInit

LEMMA ConnectedTransport ==
    ASSUME NEW t \in Transport, NEW fallback, NEW u \in Connected(t, fallback)
    PROVE  u \in Transport /\ u.granted = FALSE
<1>1. CASE u = TransportClose(t)
  BY <1>1, ClosedTransport
<1>2. CASE u # TransportClose(t)
  <2>1. PICK l \in Link : u = [t EXCEPT !.link = l, !.granted = FALSE, !.halted = FALSE]
    BY <1>2 DEF Connected, Link
  <2> QED BY <2>1 DEF Transport
<1> QED BY <1>1, <1>2

LEMMA HeardTransport ==
    ASSUME NEW t \in Transport
    PROVE  \A u : \/ u = Heard(t) \/ \E e \in BOOLEAN : u = HeardStatus(t, e)
                 \/ u = [t EXCEPT !.fresh = FALSE]
                 => u \in Transport /\ u.granted = t.granted /\ u.link = t.link
<1>1. Heard(t) \in Transport /\ Heard(t).granted = t.granted /\ Heard(t).link = t.link
  BY DEF Heard, Transport
<1>2. ASSUME NEW e \in BOOLEAN
      PROVE  /\ HeardStatus(t, e) \in Transport
             /\ HeardStatus(t, e).granted = t.granted /\ HeardStatus(t, e).link = t.link
  BY DEF HeardStatus, Transport
<1>3. /\ [t EXCEPT !.fresh = FALSE] \in Transport
      /\ [t EXCEPT !.fresh = FALSE].granted = t.granted
      /\ [t EXCEPT !.fresh = FALSE].link = t.link
  BY DEF Transport
<1> QED BY <1>1, <1>2, <1>3

LEMMA GateTransport ==
    ASSUME NEW t \in Transport
    PROVE  /\ Granted(t) \in Transport /\ Granted(t).granted = TRUE
           /\ Disabled(t) \in Transport /\ Disabled(t).granted = FALSE
           /\ Halted(t) \in Transport /\ Halted(t).granted = FALSE
BY DEF Transport, Granted, Disabled, Halted

LEMMA ReportsBoolean == ASSUME NEW t \in Transport PROVE ReportsMotion(t) \in BOOLEAN
BY DEF ReportsMotion, CanPublish, IsConnected, Transport

-----------------------------------------------------------------------------
(* One step at a time.                                                      *)

\* What the two threads do to the arm when they stop it keeps the types.
LEMMA ToldOffTypes ==
    ASSUME D1TypeOK, tr' \in Transport, arm' \in {"off", arm},
           UNCHANGED <<config, up, running, req, queue, stopper, estopPressed>>,
           UNCHANGED <<mutex, halt, latest>>,
           \/ rpc' = "record" /\ seen' = FALSE /\ UNCHANGED <<ppc, snap>>
           \/ ppc' = "store" /\ snap' = FALSE /\ UNCHANGED <<rpc, seen>>
    PROVE  D1TypeOK'
<1>1. /\ config' \in [bridge: BOOLEAN, app: BOOLEAN]
      /\ queue' \in Seq(Commands) /\ Len(queue') <= Backlog
      /\ stopper' \in [StopCallers -> {"none", "join", "close", "done"}]
  BY Zenon DEF D1TypeOK
<1>2. /\ running' \in BOOLEAN /\ mutex' \in BOOLEAN /\ halt' \in BOOLEAN
      /\ seen' \in BOOLEAN /\ snap' \in BOOLEAN /\ latest' \in BOOLEAN
      /\ estopPressed' \in BOOLEAN
  BY Zenon DEF D1TypeOK
<1>3. /\ up' \in {"running", "stopped", "killed"} /\ req' \in Commands
      /\ ppc' \in {"check", "connect", "read", "halt", "stop", "store", "exited"}
      /\ rpc' \in {"accept", "section", "publish", "record", "reply"}
      /\ arm' \in {"off", "enable", "joints"}
  BY DEF D1TypeOK
<1> QED BY <1>1, <1>2, <1>3, Zenon DEF D1TypeOK

LEMMA InvApplication == ASSUME Inv, Application PROVE Inv'
<1> USE DEF Inv, threads, world
<1>1. ASSUME NEW cmd \in Commands, Call(cmd) PROVE Inv'
  <2>1. /\ queue' = Append(queue, cmd) /\ queue' \in Seq(Commands)
        /\ Len(queue') <= Backlog
    BY <1>1, D1Assumption DEF Call, D1TypeOK
  <2>2. D1TypeOK'
    BY <1>1, <2>1 DEF Call, D1TypeOK
  <2>3. Requested'
    BY <1>1, <2>1 DEF Call, D1TypeOK, Requested
  <2> QED BY <1>1, <2>2, <2>3
         DEF Call, MutexHeld, GrantedArm, Checked, EnableUnlatched, HaltLatchDisarms
<1>2. ASSUME AppEstop PROVE Inv'
  BY <1>2 DEF AppEstop, D1TypeOK, MutexHeld, GrantedArm, Requested, Checked, EnableUnlatched,
              HaltLatchDisarms
<1> QED BY <1>1, <1>2 DEF Application

LEMMA InvAccept == ASSUME Inv, Accept PROVE Inv'
<1> USE DEF Inv, mainOnly, world, Accept
<1>1. /\ req' \in Commands /\ queue' \in Seq(Commands) /\ Len(queue') <= Backlog
      /\ req' = queue[1] /\ 1 \in DOMAIN queue
      /\ \A i \in DOMAIN queue' : i + 1 \in DOMAIN queue /\ queue'[i] = queue[i + 1]
  BY D1Assumption DEF D1TypeOK
<1>2. halt' \in BOOLEAN
  BY DEF LatchOf, D1TypeOK
<1>3. D1TypeOK'
  BY <1>1, <1>2 DEF D1TypeOK
<1>4. Requested'
  BY <1>1 DEF Requested
<1>5. EnableUnlatched' /\ HaltLatchDisarms'
  BY <1>1, <1>2 DEF EnableUnlatched, HaltLatchDisarms, LatchOf, Commands, MotionCommands
<1> QED BY <1>3, <1>4, <1>5 DEF MutexHeld, GrantedArm, Checked

LEMMA InvHalt == ASSUME Inv, HaltSection PROVE Inv'
<1> USE DEF Inv, mainOnly, world, HaltSection
<1>1. tr' \in Transport /\ tr'.granted = FALSE /\ arm' \in {"off", arm}
  BY GateTransport DEF D1TypeOK, TellOff
<1>2. rpc' = "record" /\ seen' = FALSE /\ UNCHANGED <<mainOnly, req, mutex, queue, halt, latest>>
  BY Zenon
<1>3. D1TypeOK'
  BY <1>1, <1>2, ToldOffTypes
<1> QED BY <1>1, <1>3
       DEF MutexHeld, GrantedArm, Requested, Checked, EnableUnlatched, HaltLatchDisarms

LEMMA InvCheck == ASSUME Inv, CheckSection PROVE Inv'
<1> USE DEF Inv, mainOnly, world, CheckSection
<1>1. D1TypeOK'
  <2>1. mutex' \in BOOLEAN /\ seen' \in BOOLEAN
    BY ReportsBoolean, Zenon DEF D1TypeOK
  <2>2. rpc' \in {"publish", "record"}
    OBVIOUS
  <2> QED BY <2>1, <2>2 DEF D1TypeOK
<1>2. Checked'
  BY DEF Checked, Allowed, MayEnable, MayMove, MotionCommands
<1>3. MutexHeld'
  <2>1. rpc # "publish"
    OBVIOUS
  <2>2. ~mutex
    BY <2>1, Zenon DEF MutexHeld
  <2>3. CASE mutex' = TRUE /\ rpc' = "publish"
    BY <2>3, Zenon DEF MutexHeld
  <2>4. CASE UNCHANGED mutex /\ rpc' = "record"
    BY <2>2, <2>4, Zenon DEF MutexHeld
  <2> QED BY <2>3, <2>4, Zenon
<1>4. GrantedArm' /\ Requested'
  BY DEF GrantedArm, Requested
<1>5. EnableUnlatched' /\ HaltLatchDisarms'
  BY DEF EnableUnlatched, HaltLatchDisarms, MotionCommands
<1> QED BY <1>1, <1>2, <1>3, <1>4, <1>5

LEMMA InvPublish == ASSUME Inv, PublishSection PROVE Inv'
<1> USE DEF Inv, mainOnly, world, PublishSection
<1>1. tr' \in Transport /\ arm' \in {"off", "enable", "joints"}
  BY GateTransport DEF D1TypeOK
<1>2. D1TypeOK'
  BY <1>1, ReportsBoolean DEF D1TypeOK
<1>3. GrantedArm' /\ HaltLatchDisarms'
  <2>1. CASE UNCHANGED <<arm, tr>>
    BY <2>1 DEF GrantedArm, HaltLatchDisarms, D1TypeOK
  <2>2. CASE tr.link = "ready" /\ req = "enable_motion" /\ arm' = "enable" /\ tr' = Granted(tr)
    BY <2>2 DEF GrantedArm, HaltLatchDisarms, Checked, Requested, EnableUnlatched, MotionCommands
  <2>3. CASE tr.link = "ready" /\ req # "enable_motion" /\ arm' = "joints" /\ UNCHANGED tr
    BY <2>3 DEF GrantedArm, HaltLatchDisarms, Checked
  <2> QED BY <2>1, <2>2, <2>3
<1> QED BY <1>2, <1>3 DEF MutexHeld, Requested, Checked, EnableUnlatched

LEMMA InvMain == ASSUME Inv, Main PROVE Inv'
<1>1. ASSUME Record \/ Reply PROVE Inv'
  <2>1. D1TypeOK'
    <3>1. CASE Record
      <4>1. latest' \in BOOLEAN /\ seen' \in BOOLEAN
        BY <3>1, Zenon DEF Inv, D1TypeOK, Record
      <4> QED BY <3>1, <4>1 DEF Inv, D1TypeOK, Record, mainOnly, world
    <3>2. CASE Reply
      BY <3>2 DEF Inv, D1TypeOK, Reply, world, Commands
    <3> QED BY <1>1, <3>1, <3>2
  <2>2. MutexHeld'
    BY <1>1 DEF Inv, Record, Reply, mainOnly, MutexHeld
  <2>3. Requested'
    BY <1>1 DEF Inv, Record, Reply, mainOnly, world, Requested, MotionCommands
  <2>4. GrantedArm' /\ Checked' /\ EnableUnlatched' /\ HaltLatchDisarms'
    BY <1>1 DEF Inv, Record, Reply, mainOnly, world, GrantedArm, Checked, EnableUnlatched,
                HaltLatchDisarms
  <2> QED BY <2>1, <2>2, <2>3, <2>4 DEF Inv
<1> QED BY <1>1, InvAccept, InvHalt, InvCheck, InvPublish DEF Main

LEMMA InvPoll == ASSUME Inv, Poll PROVE Inv'
<1> USE DEF Inv, pollOnly, world
<1>1. ASSUME PollConnect \/ PollStop PROVE Inv'
  <2>1. tr' \in Transport /\ tr'.granted = FALSE /\ arm' \in {"off", arm}
    BY <1>1, GateTransport, ConnectedTransport DEF D1TypeOK, TellOff, PollConnect, PollStop
  <2>2. D1TypeOK'
    <3>1. CASE PollConnect
      BY <2>1, <3>1 DEF D1TypeOK, PollConnect
    <3>2. CASE PollStop
      <4>1. ppc' = "store" /\ snap' = FALSE /\ UNCHANGED pollOnly /\ UNCHANGED latest
        BY <3>2, Zenon DEF PollStop
      <4> QED BY <2>1, <4>1, ToldOffTypes
    <3> QED BY <1>1, <3>1, <3>2
  <2>3. UNCHANGED <<config, rpc, req, mutex, queue, halt>> /\ ~mutex
    BY <1>1 DEF PollConnect, PollStop
  <2>4. MutexHeld' /\ rpc' # "publish"
    BY <2>3 DEF MutexHeld
  <2>5. GrantedArm' /\ HaltLatchDisarms'
    BY <2>1 DEF GrantedArm, HaltLatchDisarms
  <2> QED BY <2>2, <2>3, <2>4, <2>5 DEF Requested, Checked, EnableUnlatched
<1>2. ASSUME PollCheck \/ PollRead \/ PollSeesHalt \/ PollStore PROVE Inv'
  <2>1. D1TypeOK'
    <3>1. CASE PollCheck
      BY <3>1 DEF D1TypeOK, PollCheck
    <3>2. CASE PollRead
      <4>1. snap' \in BOOLEAN
        BY <3>2, ReportsBoolean, Zenon DEF D1TypeOK, PollRead
      <4> QED BY <3>2, <4>1 DEF D1TypeOK, PollRead
    <3>3. CASE PollSeesHalt
      BY <3>3 DEF D1TypeOK, PollSeesHalt
    <3>4. CASE PollStore
      <4>1. latest' \in BOOLEAN /\ snap' \in BOOLEAN
        BY <3>4, Zenon DEF D1TypeOK, PollStore
      <4> QED BY <3>4, <4>1 DEF D1TypeOK, PollStore
    <3> QED BY <1>2, <3>1, <3>2, <3>3, <3>4
  <2>2. UNCHANGED <<config, rpc, req, mutex, queue, halt, tr, arm>>
    BY <1>2 DEF PollCheck, PollRead, PollSeesHalt, PollStore
  <2> QED BY <2>1, <2>2
         DEF MutexHeld, GrantedArm, Requested, Checked, EnableUnlatched, HaltLatchDisarms
<1> QED BY <1>1, <1>2 DEF Poll

LEMMA InvArm == ASSUME Inv, Feedback \/ ArmFallsSilent PROVE Inv'
<1> USE DEF Inv, threads, world
<1>1. tr' \in Transport /\ tr'.granted = tr.granted /\ tr'.link = tr.link
  BY HeardTransport DEF D1TypeOK, Feedback, ArmFallsSilent
<1>2. D1TypeOK'
  BY <1>1 DEF D1TypeOK, Feedback, ArmFallsSilent
<1> QED BY <1>1, <1>2
       DEF Feedback, ArmFallsSilent, MutexHeld, GrantedArm, Requested, Checked,
           EnableUnlatched, HaltLatchDisarms

LEMMA InvStopping == ASSUME Inv, Stopping PROVE Inv'
<1> USE DEF Inv, stopOnly, world
<1>1. PICK s \in StopCallers : StopBegin(s) \/ StopJoin(s) \/ StopClose(s)
  BY DEF Stopping
<1>2. /\ tr' \in Transport
      /\ tr' = tr \/ (tr'.granted = FALSE /\ tr'.link = "down")
  BY <1>1, ClosedTransport DEF D1TypeOK, StopBegin, StopJoin, StopClose
<1>3. /\ stopper' \in [StopCallers -> {"none", "join", "close", "done"}]
      /\ up' \in {"running", "stopped", "killed"} /\ running' \in BOOLEAN
  BY <1>1 DEF D1TypeOK, StopBegin, StopJoin, StopClose
<1>4. UNCHANGED <<rpc, req, mutex, config, queue, halt, arm>>
  BY <1>1 DEF StopBegin, StopJoin, StopClose
<1>5. D1TypeOK'
  BY <1>1, <1>2, <1>3 DEF D1TypeOK, StopBegin, StopJoin, StopClose
<1> QED BY <1>2, <1>4, <1>5
       DEF MutexHeld, GrantedArm, Requested, Checked, EnableUnlatched, HaltLatchDisarms

LEMMA InvNext == ASSUME Inv, [Next]_vars PROVE Inv'
<1>1. CASE UNCHANGED vars
  BY <1>1 DEF vars, threads, world, Inv, D1TypeOK, MutexHeld, GrantedArm, Requested, Checked,
              EnableUnlatched, HaltLatchDisarms
<1> QED BY <1>1, InvApplication, InvMain, InvPoll, InvArm, InvStopping DEF Next

LEMMA SpecInv == Spec => []Inv
BY InvInit, InvNext, PTL DEF Spec

-----------------------------------------------------------------------------
(* Theorems                                                                 *)

\* Every variable of the bridge keeps its type, whatever the backlog.
THEOREM D1TypeCorrect == Spec => []D1TypeOK
<1>1. Inv => D1TypeOK
  BY DEF Inv
<1> QED BY <1>1, SpecInv, PTL

\* After the answer to a halt or a disable, and until the next enable_motion,
\* no interleaving of the threads grants motion (D1Safety, set_motion_enabled,
\* stop_motion, poll_loop).
THEOREM HaltLatchDisarmsCorrect == Spec => []HaltLatchDisarms
<1>1. Inv => HaltLatchDisarms
  BY DEF Inv
<1> QED BY <1>1, SpecInv, PTL

LEMMA InterlockInit == Init => Interlock!Init
BY DEF Init, Interlock!Init, TransportInit

LEMMA InterlockMain == ASSUME Inv, Main PROVE [Interlock!Next]_(Interlock!vars)
<1> USE DEF mainOnly, world, Inv, Interlock!Next, Interlock!vars
<1>1. CASE HaltSection
  BY <1>1, GateTransport DEF HaltSection, TellOff, D1TypeOK, Interlock!Shut
<1>2. CASE PublishSection
  <2>1. CASE UNCHANGED <<arm, tr>>
    BY <1>2, <2>1 DEF PublishSection
  <2>2. CASE tr.link = "ready" /\ req = "enable_motion" /\ arm' = "enable" /\ tr' = Granted(tr)
    BY <1>2, <2>2, GateTransport
       DEF PublishSection, Checked, Requested, MotionCommands, D1TypeOK, Interlock!Enable
  <2>3. CASE tr.link = "ready" /\ req # "enable_motion" /\ arm' = "joints" /\ UNCHANGED tr
    BY <1>2, <2>3 DEF PublishSection, Checked, MotionCommands, Interlock!Move
  <2> QED BY <1>2, <2>1, <2>2, <2>3 DEF PublishSection
<1>3. CASE Accept \/ CheckSection \/ Record \/ Reply
  BY <1>3 DEF Accept, CheckSection, Record, Reply
<1> QED BY <1>1, <1>2, <1>3 DEF Main

LEMMA InterlockOthers ==
    ASSUME Inv, Application \/ Poll \/ Feedback \/ ArmFallsSilent \/ Stopping
    PROVE  [Interlock!Next]_(Interlock!vars)
<1> USE DEF world, threads, pollOnly, stopOnly, Inv, Interlock!Next, Interlock!vars, Interlock!Shut
<1>1. CASE Application
  BY <1>1 DEF Application, Call, AppEstop
<1>2. CASE PollConnect \/ PollStop
  BY <1>2, GateTransport, ConnectedTransport DEF PollConnect, PollStop, TellOff, D1TypeOK
<1>3. CASE PollCheck \/ PollRead \/ PollSeesHalt \/ PollStore
  BY <1>3 DEF PollCheck, PollRead, PollSeesHalt, PollStore
<1>4. CASE Feedback \/ ArmFallsSilent
  BY <1>4, HeardTransport DEF Feedback, ArmFallsSilent, D1TypeOK
<1>5. CASE Stopping
  BY <1>5, ClosedTransport DEF Stopping, StopBegin, StopJoin, StopClose, D1TypeOK
<1> QED BY <1>1, <1>2, <1>3, <1>4, <1>5 DEF Poll

\* Whatever threads, clients, arm and configurations do, a joint command
\* reaches the arm only through a gate that an enable has opened and no halt,
\* disable or reconnect has shut (publish_command and its callers).
THEOREM ImplementsInterlockCorrect == Spec => ImplementsInterlock
<1>1. ASSUME Inv, [Next]_vars PROVE [Interlock!Next]_(Interlock!vars)
  <2>1. CASE UNCHANGED vars
    BY <2>1 DEF vars, threads, world, Interlock!vars
  <2> QED BY <1>1, <2>1, InterlockMain, InterlockOthers DEF Next
<1> QED BY <1>1, InterlockInit, SpecInv, PTL DEF Spec, ImplementsInterlock, Interlock!Spec
=============================================================================
