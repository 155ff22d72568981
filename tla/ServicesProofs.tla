---------------------------- MODULE ServicesProofs ----------------------------
(***************************************************************************)
(* The services of the web application: what the ROS launches, the event   *)
(* bus, the mission store and the camera promise, for every number of      *)
(* requests, launches, events and waypoints.                               *)
(***************************************************************************)
EXTENDS MCServices, SequenceTheorems, FiniteSetTheorems, TLAPS

-----------------------------------------------------------------------------
(* RosProcessService: no launch gets lost.                                  *)

\* A request that waits, waits for a launch that was started.
WaitsForLaunch ==
    \A c \in Clients \cup {Server} : request[c].at # "idle" => request[c].launch # 0

Inv == ProcessTypeOK /\ WaitsForLaunch /\ ChildrenRegistered /\ ShutdownLeavesNoChild

LEMMA InvInit == ProcessInit => Inv
<1> SUFFICES ASSUME ProcessInit PROVE Inv
  OBVIOUS
<1>1. launches \in Seq(Launch) /\ Len(launches) = 0 /\ DOMAIN launches = {}
  BY DEF ProcessInit
<1>2. ProcessTypeOK
  BY <1>1, ProcessAssumption DEF ProcessInit, ProcessTypeOK, Idle
<1> QED BY <1>1, <1>2
       DEF ProcessInit, Inv, WaitsForLaunch, ChildrenRegistered, ShutdownLeavesNoChild, Idle

-----------------------------------------------------------------------------
(* The helpers.                                                             *)

\* A launch changes its state but not its key, and none comes to life again.
LaunchesKept ==
    /\ launches' \in Seq(Launch) /\ Len(launches') = Len(launches)
    /\ \A p \in DOMAIN launches :
          launches'[p].key = launches[p].key /\ (Alive(p)' => Alive(p))

LEMMA Types ==
    ASSUME ProcessTypeOK
    PROVE  /\ launches \in Seq(Launch) /\ Len(launches) \in Nat
           /\ \A p \in DOMAIN launches : launches[p] \in Launch /\ launches[p].key \in Keys
           /\ \A c \in Clients \cup {Server} : request[c].launch \in 0..Len(launches)
<1>1. launches \in Seq(Launch) /\ Len(launches) \in Nat
  BY DEF ProcessTypeOK
<1>2. ASSUME NEW p \in DOMAIN launches PROVE launches[p] \in Launch /\ launches[p].key \in Keys
  <2>1. launches[p] \in Launch
    BY <1>1
  <2> QED BY <2>1 DEF Launch
<1>3. ASSUME NEW c \in Clients \cup {Server} PROVE request[c].launch \in 0..Len(launches)
  BY DEF ProcessTypeOK
<1> QED BY <1>1, <1>2, <1>3

LEMMA ReplacedLaunch ==
    ASSUME launches \in Seq(Launch), NEW p \in DOMAIN launches, NEW new \in Launch,
           launches' = [launches EXCEPT ![p] = new]
    PROVE  launches' \in Seq(Launch) /\ Len(launches') = Len(launches)
OBVIOUS

LEMMA ChangedLaunch ==
    ASSUME ProcessTypeOK, NEW p \in DOMAIN launches, Alive(p),
           NEW to \in {"signalled", "exited"}, launches' = [launches EXCEPT ![p].is = to]
    PROVE  LaunchesKept
<1> DEFINE new == [launches[p] EXCEPT !.is = to]
<1>1. launches[p] \in Launch
  BY DEF ProcessTypeOK
<1>2. launches' = [launches EXCEPT ![p] = new]
  OBVIOUS
<1>3. new \in Launch /\ new.key = launches[p].key
  BY <1>1 DEF Launch
<1> HIDE DEF new
<1>4. launches' \in Seq(Launch) /\ Len(launches') = Len(launches)
  BY <1>2, <1>3, Types, ReplacedLaunch
<1>5. ASSUME NEW q \in DOMAIN launches
      PROVE  launches'[q].key = launches[q].key /\ (Alive(q)' => Alive(q))
  <2>1. CASE q = p
    BY <1>2, <1>3, <2>1 DEF ProcessTypeOK
  <2>2. CASE q # p
    BY <1>2, <2>2 DEF ProcessTypeOK, Alive
  <2> QED BY <2>1, <2>2
<1> QED BY <1>4, <1>5 DEF LaunchesKept

LEMMA SameLaunches == ASSUME ProcessTypeOK, UNCHANGED launches PROVE LaunchesKept
BY DEF LaunchesKept, ProcessTypeOK, Alive

\* The cleanup takes out only what has exited.
LEMMA CleanedUp ==
    ASSUME Inv, NEW k \in Keys
    PROVE  /\ CleanupFinished(k) \in [Keys -> 0..Len(launches)]
           /\ \A p \in DOMAIN launches : Alive(p) => CleanupFinished(k)[launches[p].key] = p
<1>1. Len(launches) \in Nat /\ processes \in [Keys -> 0..Len(launches)]
  BY DEF Inv, ProcessTypeOK
<1>2. ASSUME NEW p \in DOMAIN launches, Alive(p)
      PROVE  CleanupFinished(k)[launches[p].key] = p
  <2>1. processes[launches[p].key] = p /\ launches[p] \in Launch
    BY <1>2 DEF Inv, ChildrenRegistered, ProcessTypeOK
  <2> QED BY <1>1, <1>2, <2>1 DEF CleanupFinished, Launch
<1> QED BY <1>1, <1>2 DEF CleanupFinished

\* Steps that start nothing.
LEMMA KeptKeepsInv ==
    ASSUME Inv, LaunchesKept, ProcessTypeOK', WaitsForLaunch',
           processes' = processes \/ \E k \in Keys : processes' = CleanupFinished(k),
           closing' = "closed" => closing = "closed" \/ \A k \in Keys : processes[k] = 0
    PROVE  Inv'
<1>1. ASSUME NEW p \in DOMAIN launches', Alive(p)'
      PROVE  p \in DOMAIN launches /\ Alive(p) /\ launches'[p].key = launches[p].key
  BY <1>1 DEF LaunchesKept, Inv, ProcessTypeOK
<1>2. ChildrenRegistered'
  BY <1>1, CleanedUp DEF ChildrenRegistered, Inv
<1>3. ShutdownLeavesNoChild'
  <2> SUFFICES ASSUME closing' = "closed", NEW p \in DOMAIN launches', Alive(p)'
               PROVE  FALSE
    BY DEF ShutdownLeavesNoChild
  <2>1. p \in DOMAIN launches /\ Alive(p) /\ launches[p].key \in Keys
    BY <1>1, Types DEF Inv
  <2>2. processes[launches[p].key] = p
    BY <2>1 DEF Inv, ChildrenRegistered
  <2> QED BY <2>1, <2>2 DEF Inv, ShutdownLeavesNoChild, Alive
<1> QED BY <1>2, <1>3 DEF Inv

-----------------------------------------------------------------------------
(* One step at a time.                                                      *)

LEMMA InvStart ==
    ASSUME Inv, NEW c \in Clients, NEW k \in Keys, StartProcess(c, k) PROVE Inv'
<1> USE DEF StartProcess
<1>1. CASE processes' = CleanupFinished(k) /\ UNCHANGED launches
  <2>1. ProcessTypeOK' /\ WaitsForLaunch'
    BY <1>1, CleanedUp DEF Inv, ProcessTypeOK, WaitsForLaunch
  <2> QED BY <1>1, <2>1, SameLaunches, KeptKeepsInv DEF Inv
<1>2. CASE /\ Len(launches) < MaxLaunches
           /\ launches' = Append(launches, [key |-> k, is |-> "running"])
           /\ processes' = [processes EXCEPT ![k] = Len(launches')]
  <2>1. /\ launches' \in Seq(Launch) /\ Len(launches) \in Nat
        /\ Len(launches') = Len(launches) + 1 /\ launches'[Len(launches')].key = k
        /\ \A p \in DOMAIN launches' : p # Len(launches') =>
              p \in DOMAIN launches /\ launches'[p] = launches[p] /\ launches[p] \in Launch
    <3> DEFINE new == [key |-> k, is |-> "running"]
    <3>1. new \in Launch /\ new.key = k /\ launches' = Append(launches, new)
      BY <1>2 DEF Launch
    <3> HIDE DEF new
    <3> QED BY <3>1, Types DEF Inv
  <2>2. ProcessTypeOK'
    <3>1. processes' \in [Keys -> 0..Len(launches')] /\ Len(launches') <= MaxLaunches
      BY <1>2, <2>1, ProcessAssumption DEF Inv, ProcessTypeOK
    <3>2. request' \in [Clients \cup {Server} ->
                           [at: {"idle", "wait", "wait_killed"}, launch: 0..Len(launches')]]
      <4>1. request' = request /\ 0..Len(launches) \subseteq 0..Len(launches')
        BY <2>1
      <4> QED BY <4>1 DEF Inv, ProcessTypeOK
    <3> QED BY <2>1, <3>1, <3>2 DEF Inv, ProcessTypeOK
  <2>3. WaitsForLaunch' /\ ShutdownLeavesNoChild'
    BY DEF Inv, WaitsForLaunch, ShutdownLeavesNoChild
  <2>4. ASSUME NEW p \in DOMAIN launches', Alive(p)'
        PROVE  processes'[launches'[p].key] = p
    <3>1. CASE p = Len(launches')
      BY <1>2, <2>1, <3>1 DEF Inv, ProcessTypeOK
    <3>2. CASE p # Len(launches')
      <4>1. Alive(p) /\ processes[launches[p].key] = p /\ launches[p].key \in Keys
        BY <2>1, <2>4, <3>2 DEF Alive, Inv, ChildrenRegistered, Launch
      <4>2. launches[p].key # k
        BY <4>1
      <4> QED BY <1>2, <2>1, <3>2, <4>1, <4>2 DEF Inv, ProcessTypeOK
    <3> QED BY <3>1, <3>2
  <2> QED BY <2>2, <2>3, <2>4 DEF Inv, ChildrenRegistered
<1> QED BY <1>1, <1>2

LEMMA InvStopBegin ==
    ASSUME Inv, NEW c \in Clients \cup {Server}, NEW k \in Keys, StopBegin(c, k), UNCHANGED closing
    PROVE  Inv'
<1> USE DEF StopBegin
<1>1. CASE Alive(processes[k])
  <2>1. processes[k] \in DOMAIN launches
    BY <1>1 DEF Inv, ProcessTypeOK, Alive
  <2>2. LaunchesKept
    BY <1>1, <2>1, ChangedLaunch DEF Inv, Signal
  <2>3. ProcessTypeOK' /\ WaitsForLaunch'
    <3>1. request' \in [Clients \cup {Server} ->
                           [at: {"idle", "wait", "wait_killed"}, launch: 0..Len(launches')]]
      <4> DEFINE new == [at |-> "wait", launch |-> processes[k]]
      <4>1. request' = [request EXCEPT ![c] = new]
        BY <1>1
      <4>2. new \in [at: {"idle", "wait", "wait_killed"}, launch: 0..Len(launches)]
        BY <2>1, Types DEF Inv
      <4> HIDE DEF new
      <4>3. Len(launches') = Len(launches)
        BY <2>2 DEF LaunchesKept
      <4> QED BY <4>1, <4>2, <4>3 DEF Inv, ProcessTypeOK
    <3>2. WaitsForLaunch'
      <4> SUFFICES ASSUME NEW d \in Clients \cup {Server}, request'[d].at # "idle"
                   PROVE  request'[d].launch # 0
        BY DEF WaitsForLaunch
      <4>1. CASE d = c
        <5>1. request'[d] = [at |-> "wait", launch |-> processes[k]]
          BY <1>1, <4>1 DEF Inv, ProcessTypeOK
        <5> QED BY <1>1, <5>1 DEF Alive
      <4>2. CASE d # c
        <5>1. request'[d] = request[d]
          BY <1>1, <4>2 DEF Inv, ProcessTypeOK
        <5> QED BY <5>1 DEF Inv, WaitsForLaunch
      <4> QED BY <4>1, <4>2
    <3>3. UNCHANGED <<processes, closing>>
      BY <1>1
    <3> QED BY <2>2, <3>1, <3>2, <3>3 DEF Inv, ProcessTypeOK, LaunchesKept
  <2> QED BY <1>1, <2>2, <2>3, KeptKeepsInv DEF Inv
<1>2. CASE ~Alive(processes[k])
  <2>1. processes' = CleanupFinished(k) /\ UNCHANGED <<launches, request>>
    BY <1>2
  <2>2. ProcessTypeOK' /\ WaitsForLaunch'
    BY <2>1, CleanedUp DEF Inv, ProcessTypeOK, WaitsForLaunch
  <2> QED BY <2>1, <2>2, SameLaunches, KeptKeepsInv DEF Inv
<1> QED BY <1>1, <1>2

LEMMA InvWaiting ==
    ASSUME Inv, NEW c \in Clients \cup {Server}, Waiting(c) PROVE Inv'
<1>1. CASE StopKill(c)
  <2>1. request[c].launch \in DOMAIN launches
    BY <1>1 DEF StopKill, Inv, ProcessTypeOK, Alive
  <2>2. LaunchesKept
    BY <1>1, <2>1, ChangedLaunch DEF StopKill, Inv, Signal
  <2>3. ProcessTypeOK' /\ WaitsForLaunch'
    BY <1>1, <2>2 DEF StopKill, Inv, ProcessTypeOK, WaitsForLaunch, LaunchesKept, Alive
  <2> QED BY <1>1, <2>2, <2>3, KeptKeepsInv DEF StopKill, Inv
<1>2. CASE StopRaises(c)
  <2>1. ProcessTypeOK' /\ WaitsForLaunch'
    BY <1>2 DEF StopRaises, Inv, ProcessTypeOK, WaitsForLaunch, Idle
  <2>2. closing' = "closed" => closing = "closed"
    BY <1>2 DEF StopRaises
  <2> QED BY <1>2, <2>1, <2>2, SameLaunches, KeptKeepsInv DEF StopRaises, Inv
<1>3. CASE StopEnd(c)
  <2> DEFINE k == launches[request[c].launch].key
  <2>1. k \in Keys
    BY <1>3, Types DEF StopEnd, Inv, WaitsForLaunch
  <2>2. processes' = CleanupFinished(k) /\ UNCHANGED <<launches, closing>>
    BY <1>3 DEF StopEnd
  <2>3. ProcessTypeOK' /\ WaitsForLaunch'
    BY <1>3, <2>1, CleanedUp DEF StopEnd, Inv, ProcessTypeOK, WaitsForLaunch, Idle
  <2> QED BY <2>1, <2>2, <2>3, SameLaunches, KeptKeepsInv DEF Inv
<1> QED BY <1>1, <1>2, <1>3 DEF Waiting

LEMMA InvOthers ==
    ASSUME Inv, \/ \E k \in Keys : ProcessStatus(k)
                \/ ShutdownBegin \/ ShutdownEnds \/ UNCHANGED processVars
                \/ \E p \in 1..MaxLaunches : LaunchExits(p)
    PROVE  Inv'
<1>1. CASE \E k \in Keys : ProcessStatus(k)
  <2>1. PICK k \in Keys : processes' = CleanupFinished(k) /\ UNCHANGED <<launches, request, closing>>
    BY <1>1 DEF ProcessStatus
  <2>2. ProcessTypeOK' /\ WaitsForLaunch'
    BY <2>1, CleanedUp DEF Inv, ProcessTypeOK, WaitsForLaunch
  <2> QED BY <2>1, <2>2, SameLaunches, KeptKeepsInv DEF Inv
<1>2. CASE ShutdownBegin \/ ShutdownEnds \/ UNCHANGED processVars
  <2>1. ProcessTypeOK' /\ WaitsForLaunch' /\ UNCHANGED <<processes, launches>>
    BY <1>2 DEF ShutdownBegin, ShutdownEnds, processVars, Inv, ProcessTypeOK, WaitsForLaunch
  <2>2. closing' = "closed" => closing = "closed" \/ \A k \in Keys : processes[k] = 0
    BY <1>2 DEF ShutdownBegin, ShutdownEnds, processVars
  <2> QED BY <2>1, <2>2, SameLaunches, KeptKeepsInv DEF Inv
<1>3. CASE \E p \in 1..MaxLaunches : LaunchExits(p)
  <2>1. PICK p \in DOMAIN launches :
           /\ Alive(p) /\ launches' = [launches EXCEPT ![p].is = "exited"]
           /\ UNCHANGED <<processes, request, closing>>
    BY <1>3 DEF LaunchExits
  <2>2. LaunchesKept
    BY <2>1, ChangedLaunch DEF Inv
  <2>3. ProcessTypeOK' /\ WaitsForLaunch'
    BY <2>1, <2>2 DEF Inv, ProcessTypeOK, WaitsForLaunch, LaunchesKept
  <2> QED BY <2>1, <2>2, <2>3, KeptKeepsInv
<1> QED BY <1>1, <1>2, <1>3

LEMMA InvNext == ASSUME Inv, [ProcessNext]_processVars PROVE Inv'
<1>1. ASSUME ShutdownStops PROVE Inv'
  BY <1>1, InvStopBegin DEF ShutdownStops
<1> QED BY <1>1, InvStart, InvStopBegin, InvWaiting, InvOthers DEF ProcessNext

LEMMA SpecInv == ProcessSpec => []Inv
BY InvInit, InvNext, PTL DEF ProcessSpec

-----------------------------------------------------------------------------
(* Theorems                                                                 *)

\* A launch that lives stays registered under its key, however the requests
\* interleave with the waits of the stops (_start_process, _stop_process).
THEOREM ChildrenRegisteredCorrect == ProcessSpec => []ChildrenRegistered
<1>1. Inv => ChildrenRegistered
  BY DEF Inv
<1> QED BY <1>1, SpecInv, PTL

\* A shutdown that comes to its end leaves no launch behind (shutdown).
THEOREM ShutdownLeavesNoChildCorrect == ProcessSpec => []ShutdownLeavesNoChild
<1>1. Inv => ShutdownLeavesNoChild
  BY DEF Inv
<1> QED BY <1>1, SpecInv, PTL

-----------------------------------------------------------------------------
(* EventBus: the history is the newest numbers in order.                    *)

\* s holds the last numbers before n, in order.
Numbered(s, n) ==
    /\ Len(s) <= n - 1
    /\ \A i \in DOMAIN s : s[i] = n - Len(s) - 1 + i

Ascending(s) == \A i, j \in DOMAIN s : i < j => s[i] < s[j]

\* What a page was sent is behind last_sequence, what it will be sent ahead.
PageInOrder ==
    /\ Ascending(sent) /\ \A e \in ToSet(sent) : e <= lastSequence
    /\ Ascending(batch) /\ \A e \in ToSet(batch) : lastSequence < e /\ e < nextSequence
    /\ lastSequence < nextSequence
    /\ watch = "gone" => sent = <<>> /\ batch = <<>> /\ lastSequence = 0

Shown == ToSet(sent) \cup ToSet(batch)

\* What is neither shown nor lost is still in the history, and next in line.
Pending(e) == e \in ToSet(history) /\ e > lastSequence /\ \A f \in ToSet(batch) : e > f

\* What is lost will not be read again: it left the history or is passed over.
Passed(e) == e <= lastSequence \/ (batch # <<>> /\ e < Head(batch))

NothingUnaccounted ==
    /\ Shown \cap lost = {}
    /\ \A e \in lost : e < nextSequence /\ (e \in ToSet(history) => Passed(e))
    /\ watch # "gone" => \A e \in 1..(nextSequence - 1) : e \in Shown \cup lost \/ Pending(e)

EventInv ==
    EventTypeOK /\ Numbered(history, nextSequence) /\ PageInOrder /\ NothingUnaccounted

-----------------------------------------------------------------------------
(* Sequences as sets, and the two ends of a sequence.                       *)

LEMMA ToSetIsRange ==
    ASSUME NEW S, NEW s \in Seq(S)
    PROVE  /\ ToSet(s) \subseteq S
           /\ \A e : e \in ToSet(s) <=> \E i \in 1..Len(s) : e = s[i]
BY LenProperties, ElementOfSeq DEF ToSet

LEMMA ToSetEmpty == ToSet(<<>>) = {}
BY DEF ToSet

LEMMA ToSetAppend ==
    ASSUME NEW S, NEW s \in Seq(S), NEW e \in S
    PROVE  ToSet(Append(s, e)) = ToSet(s) \cup {e}
<1> DEFINE t == Append(s, e)
<1>1. t \in Seq(S) /\ Len(t) = Len(s) + 1 /\ Len(s) \in Nat /\ t[Len(s) + 1] = e
  BY AppendProperties, LenProperties
<1>2. \A i \in 1..Len(s) : t[i] = s[i]
  BY AppendProperties
<1> HIDE DEF t
<1>3. \A f : f \in ToSet(t) <=> \E i \in 1..(Len(s) + 1) : f = t[i]
  BY <1>1, ToSetIsRange
<1>4. \A f : f \in ToSet(s) <=> \E i \in 1..Len(s) : f = s[i]
  BY ToSetIsRange
<1>5. ASSUME NEW f PROVE f \in ToSet(t) <=> f \in ToSet(s) \/ f = e
  <2>1. ASSUME f \in ToSet(t) PROVE f \in ToSet(s) \/ f = e
    <3>1. PICK i \in 1..(Len(s) + 1) : f = t[i]
      BY <2>1, <1>3
    <3>2. i \in 1..Len(s) \/ i = Len(s) + 1
      BY <1>1
    <3> QED BY <3>1, <3>2, <1>1, <1>2, <1>4
  <2>2. ASSUME f \in ToSet(s) \/ f = e PROVE f \in ToSet(t)
    <3>1. 1..Len(s) \subseteq 1..(Len(s) + 1) /\ Len(s) + 1 \in 1..(Len(s) + 1)
      BY <1>1
    <3> QED BY <2>2, <3>1, <1>1, <1>2, <1>3, <1>4
  <2> QED BY <2>1, <2>2
<1> QED BY <1>5 DEF t

LEMMA HeadFirst ==
    ASSUME NEW S, NEW s \in Seq(S), s # <<>>
    PROVE  /\ Head(s) = s[1] /\ Head(s) \in S /\ Tail(s) \in Seq(S)
           /\ Len(s) \in Nat \ {0} /\ Len(Tail(s)) = Len(s) - 1
           /\ \A i \in 1..(Len(s) - 1) : Tail(s)[i] = s[i + 1]
           /\ ToSet(s) = {Head(s)} \cup ToSet(Tail(s))
<1>1. /\ Head(s) = s[1] /\ Head(s) \in S /\ Tail(s) \in Seq(S)
      /\ Len(s) \in Nat \ {0} /\ Len(Tail(s)) = Len(s) - 1
      /\ \A i \in 1..(Len(s) - 1) : Tail(s)[i] = s[i + 1]
  BY HeadTailProperties, EmptySeq
<1>2. \A f : f \in ToSet(s) <=> \E i \in 1..Len(s) : f = s[i]
  BY ToSetIsRange
<1>3. \A f : f \in ToSet(Tail(s)) <=> \E i \in 1..(Len(s) - 1) : f = Tail(s)[i]
  <2>1. \A f : f \in ToSet(Tail(s)) <=> \E i \in 1..Len(Tail(s)) : f = Tail(s)[i]
    BY <1>1, ToSetIsRange, Zenon
  <2> QED BY <2>1, <1>1, Zenon
<1>4. ASSUME NEW f PROVE f \in ToSet(s) <=> f = Head(s) \/ f \in ToSet(Tail(s))
  <2>1. ASSUME f \in ToSet(s), f # Head(s) PROVE f \in ToSet(Tail(s))
    <3>1. PICK i \in 1..Len(s) : f = s[i]
      BY <2>1, <1>2
    <3>2. i # 1
      BY <3>1, <2>1, <1>1
    <3>3. i - 1 \in 1..(Len(s) - 1) /\ Tail(s)[i - 1] = s[i]
      BY <3>2, <1>1
    <3> QED BY <3>1, <3>3, <1>3
  <2>2. ASSUME f \in ToSet(Tail(s)) PROVE f \in ToSet(s)
    <3>1. PICK i \in 1..(Len(s) - 1) : f = Tail(s)[i]
      BY <2>2, <1>3
    <3>2. i + 1 \in 1..Len(s) /\ f = s[i + 1]
      BY <3>1, <1>1
    <3> QED BY <3>2, <1>2
  <2>3. Head(s) \in ToSet(s)
    <3>1. 1 \in 1..Len(s)
      BY <1>1
    <3> QED BY <3>1, <1>1, <1>2
  <2> QED BY <2>1, <2>2, <2>3
<1> QED BY <1>1, <1>4

\* The end of a sequence: its elements, in their order.
LEMMA EndOf ==
    ASSUME NEW S, NEW s \in Seq(S), NEW i \in 1..(Len(s) + 1)
    PROVE  /\ SubSeq(s, i, Len(s)) \in Seq(S)
           /\ Len(SubSeq(s, i, Len(s))) = Len(s) - i + 1
           /\ \A k \in 1..(Len(s) - i + 1) : SubSeq(s, i, Len(s))[k] = s[i + k - 1]
           /\ \A e : e \in ToSet(SubSeq(s, i, Len(s))) <=> \E k \in i..Len(s) : e = s[k]
<1> DEFINE t == SubSeq(s, i, Len(s))
<1>1. Len(s) \in Nat /\ i \in Int /\ \A k \in i..Len(s) : s[k] \in S
  BY LenProperties, ElementOfSeq
<1>2. /\ t \in Seq(S) /\ Len(t) = (IF i <= Len(s) THEN Len(s) - i + 1 ELSE 0)
      /\ \A k \in 1..(Len(s) - i + 1) : t[k] = s[i + k - 1]
  BY <1>1, SubSeqProperties
<1>3. Len(t) = Len(s) - i + 1
  BY <1>1, <1>2
<1> HIDE DEF t
<1>4. \A e : e \in ToSet(t) <=> \E k \in 1..(Len(s) - i + 1) : e = t[k]
  <2>1. \A e : e \in ToSet(t) <=> \E k \in 1..Len(t) : e = t[k]
    BY <1>2, ToSetIsRange, Zenon
  <2> QED BY <2>1, <1>3, Zenon
<1>5. ASSUME NEW e PROVE e \in ToSet(t) <=> \E k \in i..Len(s) : e = s[k]
  <2>1. ASSUME e \in ToSet(t) PROVE \E k \in i..Len(s) : e = s[k]
    <3>1. PICK k \in 1..(Len(s) - i + 1) : e = t[k]
      BY <2>1, <1>4
    <3>2. i + k - 1 \in i..Len(s)
      BY <1>1
    <3> QED BY <3>1, <3>2, <1>2
  <2>2. ASSUME NEW k \in i..Len(s), e = s[k] PROVE e \in ToSet(t)
    <3>1. k - i + 1 \in 1..(Len(s) - i + 1) /\ i + (k - i + 1) - 1 = k
      BY <1>1
    <3> QED BY <3>1, <2>2, <1>2, <1>4
  <2> QED BY <2>1, <2>2
<1> QED BY <1>2, <1>3, <1>5 DEF t
-----------------------------------------------------------------------------
(* Numbered sequences.                                                      *)

LEMMA NumberedIs ==
    ASSUME NEW s \in Seq(Numbers), NEW n \in Nat, Numbered(s, n)
    PROVE  /\ ToSet(s) = (n - Len(s))..(n - 1)
           /\ Ascending(s)
           /\ s # <<>> => Head(s) = n - Len(s)
<1>1. Len(s) \in Nat /\ DOMAIN s = 1..Len(s)
  BY LenProperties
<1>2. \A i \in 1..Len(s) : s[i] = n - Len(s) - 1 + i
  BY <1>1 DEF Numbered
<1>3. ASSUME NEW e PROVE e \in ToSet(s) <=> e \in (n - Len(s))..(n - 1)
  <2>1. e \in ToSet(s) <=> \E i \in 1..Len(s) : e = s[i]
    BY ToSetIsRange
  <2>2. ASSUME e \in (n - Len(s))..(n - 1) PROVE \E i \in 1..Len(s) : e = s[i]
    <3>1. e - n + Len(s) + 1 \in 1..Len(s)
      BY <1>1, <2>2
    <3>2. s[e - n + Len(s) + 1] = e
      BY <1>1, <1>2, <2>2, <3>1
    <3> QED BY <3>1, <3>2
  <2>3. ASSUME NEW i \in 1..Len(s), e = s[i] PROVE e \in (n - Len(s))..(n - 1)
    BY <1>1, <1>2, <2>3
  <2> QED BY <2>1, <2>2, <2>3
<1>4. Ascending(s)
  BY <1>1, <1>2 DEF Ascending
<1>5. s # <<>> => Head(s) = n - Len(s)
  <2> SUFFICES ASSUME s # <<>> PROVE Head(s) = n - Len(s)
    OBVIOUS
  <2>1. Head(s) = s[1] /\ Len(s) \in Nat \ {0}
    BY HeadFirst
  <2> QED BY <2>1, <1>2
<1> QED BY <1>3, <1>4, <1>5

LEMMA NumberedEnd ==
    ASSUME NEW s \in Seq(Numbers), NEW n \in Nat, Numbered(s, n), NEW i \in 1..(Len(s) + 1)
    PROVE  Numbered(SubSeq(s, i, Len(s)), n)
<1> DEFINE t == SubSeq(s, i, Len(s))
<1>1. /\ t \in Seq(Numbers) /\ Len(t) = Len(s) - i + 1
      /\ \A k \in 1..(Len(s) - i + 1) : t[k] = s[i + k - 1]
  BY EndOf
<1> HIDE DEF t
<1>2. Len(s) \in Nat /\ DOMAIN s = 1..Len(s) /\ DOMAIN t = 1..Len(t)
  BY <1>1, LenProperties
<1>3. \A j \in 1..Len(s) : s[j] = n - Len(s) - 1 + j
  BY <1>2 DEF Numbered
<1>4. ASSUME NEW k \in 1..Len(t) PROVE t[k] = n - Len(t) - 1 + k
  <2>1. i + k - 1 \in 1..Len(s) /\ t[k] = s[i + k - 1]
    BY <1>1, <1>2
  <2> QED BY <2>1, <1>1, <1>2, <1>3
<1>5. Len(t) <= n - 1
  BY <1>1, <1>2 DEF Numbered
<1>6. Numbered(t, n)
  BY <1>2, <1>4, <1>5 DEF Numbered
<1> QED BY <1>6 DEF t

LEMMA NumberedAppend ==
    ASSUME NEW s \in Seq(Numbers), NEW n \in Numbers, Numbered(s, n)
    PROVE  Append(s, n) \in Seq(Numbers) /\ Numbered(Append(s, n), n + 1)
<1> DEFINE t == Append(s, n)
<1>1. /\ t \in Seq(Numbers) /\ Len(t) = Len(s) + 1 /\ t[Len(s) + 1] = n
      /\ \A i \in 1..Len(s) : t[i] = s[i]
  BY AppendProperties
<1> HIDE DEF t
<1>2. n \in Nat /\ Len(s) \in Nat /\ DOMAIN s = 1..Len(s) /\ DOMAIN t = 1..Len(t)
  BY <1>1, LenProperties DEF Numbers
<1>3. \A j \in 1..Len(s) : s[j] = n - Len(s) - 1 + j
  BY <1>2 DEF Numbered
<1>4. ASSUME NEW k \in 1..Len(t) PROVE t[k] = n + 1 - Len(t) - 1 + k
  <2>1. CASE k = Len(s) + 1
    BY <2>1, <1>1, <1>2
  <2>2. CASE k \in 1..Len(s)
    BY <2>2, <1>1, <1>2, <1>3
  <2> QED BY <2>1, <2>2, <1>1, <1>2
<1>5. Len(t) <= n + 1 - 1
  BY <1>1, <1>2 DEF Numbered
<1>6. Numbered(t, n + 1)
  BY <1>2, <1>4, <1>5 DEF Numbered
<1> QED BY <1>1, <1>6 DEF t

\* What LastOf() keeps is the end of the sequence, and never nothing of something.
LEMMA LastOfIs ==
    ASSUME NEW S, NEW s \in Seq(S), NEW limit \in Nat \ {0}
    PROVE  /\ \E i \in 1..(Len(s) + 1) : LastOf(limit, s) = SubSeq(s, i, Len(s))
           /\ LastOf(limit, s) \in Seq(S)
           /\ Len(LastOf(limit, s)) <= limit /\ Len(LastOf(limit, s)) <= Len(s)
           /\ s # <<>> => Len(LastOf(limit, s)) >= 1
<1> DEFINE i == IF Len(s) > limit THEN Len(s) - limit + 1 ELSE 1
<1>1. Len(s) \in Nat /\ (s # <<>> => Len(s) \in Nat \ {0})
  BY LenProperties, EmptySeq
<1>2. i \in 1..(Len(s) + 1) /\ LastOf(limit, s) = SubSeq(s, i, Len(s))
  BY <1>1 DEF LastOf
<1>3. /\ Len(s) - i + 1 <= limit /\ Len(s) - i + 1 <= Len(s)
      /\ s # <<>> => Len(s) - i + 1 >= 1
  BY <1>1
<1> HIDE DEF i
<1>4. /\ SubSeq(s, i, Len(s)) \in Seq(S)
      /\ Len(SubSeq(s, i, Len(s))) = Len(s) - i + 1
  BY <1>2, EndOf
<1> QED BY <1>2, <1>3, <1>4
-----------------------------------------------------------------------------
(* The event bus, one step at a time.                                       *)

LEMMA EventTypes ==
    ASSUME EventTypeOK
    PROVE  /\ history \in Seq(Numbers) /\ batch \in Seq(Numbers) /\ sent \in Seq(Numbers)
           /\ nextSequence \in Nat \ {0} /\ lastSequence \in Nat /\ lost \subseteq Numbers
           /\ Numbers \subseteq Nat \ {0}
           /\ ToSet(history) \subseteq Numbers /\ ToSet(batch) \subseteq Numbers
           /\ ToSet(sent) \subseteq Numbers
<1>1. history \in Seq(Numbers) /\ batch \in Seq(Numbers) /\ sent \in Seq(Numbers)
  BY DEF EventTypeOK
<1>2. Numbers \subseteq Nat \ {0}
  BY EventAssumption DEF Numbers
<1>3. nextSequence \in Nat \ {0} /\ lastSequence \in Nat /\ lost \subseteq Numbers
  BY EventAssumption DEF EventTypeOK
<1> QED BY <1>1, <1>2, <1>3, ToSetIsRange

LEMMA EventInvInit == EventInit => EventInv
<1> SUFFICES ASSUME EventInit PROVE EventInv
  OBVIOUS
<1>1. /\ <<>> \in Seq(Numbers) /\ Len(<<>>) = 0 /\ DOMAIN <<>> = {} /\ ToSet(<<>>) = {}
  BY EmptySeq, ToSetEmpty
<1>2. EventTypeOK
  BY <1>1, EventAssumption DEF EventInit, EventTypeOK
<1>3. Numbered(history, nextSequence)
  BY <1>1 DEF EventInit, Numbered
<1>4. PageInOrder
  BY <1>1 DEF EventInit, PageInOrder, Ascending
<1>5. NothingUnaccounted
  BY <1>1 DEF EventInit, NothingUnaccounted, Shown
<1> QED BY <1>2, <1>3, <1>4, <1>5 DEF EventInv

LEMMA EventInvPublish == ASSUME EventInv, Publish PROVE EventInv'
<1> DEFINE s == Append(history, nextSequence)
<1>1. /\ nextSequence \in Numbers /\ nextSequence' = nextSequence + 1
      /\ history' = LastOf(HistoryLimit, s)
      /\ lost' = lost \cup (ToSet(history) \ (ToSet(history') \cup ToSet(sent) \cup ToSet(batch)))
      /\ UNCHANGED <<watch, batch, lastSequence, sent>>
  BY DEF Publish, EventInv, EventTypeOK, Numbers
<1>2. /\ s \in Seq(Numbers) /\ Numbered(s, nextSequence + 1)
      /\ ToSet(s) = ToSet(history) \cup {nextSequence} /\ s # <<>>
  <2>1. history \in Seq(Numbers) /\ Numbered(history, nextSequence)
    BY DEF EventInv, EventTypeOK
  <2>2. s \in Seq(Numbers) /\ Numbered(s, nextSequence + 1)
    BY <1>1, <2>1, NumberedAppend
  <2>3. ToSet(s) = ToSet(history) \cup {nextSequence} /\ s # <<>>
    BY <1>1, <2>1, ToSetAppend, AppendProperties
  <2> QED BY <2>2, <2>3
<1> HIDE DEF s
<1>3. /\ \E i \in 1..(Len(s) + 1) : history' = SubSeq(s, i, Len(s))
      /\ history' \in Seq(Numbers) /\ Len(history') <= HistoryLimit /\ Len(history') >= 1
  BY <1>1, <1>2, LastOfIs, EventAssumption
<1>4. Numbered(history', nextSequence')
  BY <1>1, <1>2, <1>3, NumberedEnd, EventTypes DEF EventInv
<1>5. /\ ToSet(history') = (nextSequence + 1 - Len(history'))..nextSequence
      /\ ToSet(history) = (nextSequence - Len(history))..(nextSequence - 1)
      /\ Len(history') \in Nat /\ Len(history) \in Nat /\ nextSequence \in Nat \ {0}
  <2>1. nextSequence \in Nat \ {0} /\ nextSequence' = nextSequence + 1
    BY <1>1, EventTypes DEF EventInv
  <2>2. Len(history') \in Nat /\ Len(history) \in Nat
    BY <1>3, EventTypes, LenProperties DEF EventInv
  <2>3. ToSet(history') = (nextSequence' - Len(history'))..(nextSequence' - 1)
    <3>1. nextSequence' \in Nat /\ history' \in Seq(Numbers)
      BY <1>3, <2>1
    <3> QED BY <1>4, <3>1, NumberedIs, Zenon
  <2>4. ToSet(history) = (nextSequence - Len(history))..(nextSequence - 1)
    BY <2>1, NumberedIs, EventTypes DEF EventInv
  <2> QED BY <2>1, <2>2, <2>3, <2>4
<1>6. ToSet(history') \subseteq ToSet(history) \cup {nextSequence} /\ nextSequence \in ToSet(history')
  <2>1. nextSequence \in ToSet(history')
    BY <1>3, <1>5
  <2>2. PICK i \in 1..(Len(s) + 1) : history' = SubSeq(s, i, Len(s))
    BY <1>3
  <2>3. \A e \in ToSet(history') : \E k \in i..Len(s) : e = s[k]
    BY <1>2, <2>2, EndOf
  <2>4. \A k \in i..Len(s) : k \in 1..Len(s)
    BY <1>2, LenProperties
  <2>5. \A e \in ToSet(history') : e \in ToSet(s)
    BY <2>3, <2>4, <1>2, ToSetIsRange
  <2> QED BY <2>1, <2>5, <1>2
<1>7. EventTypeOK'
  <2>1. nextSequence' \in 1..(MaxEvents + 1)
    BY <1>1, EventAssumption DEF Numbers
  <2>2. lost' \subseteq Numbers
    BY <1>1, EventTypes DEF EventInv
  <2> QED BY <1>1, <1>3, <2>1, <2>2 DEF EventInv, EventTypeOK
<1>8. PageInOrder'
  BY <1>1, EventTypes DEF EventInv, PageInOrder, Ascending
<1>9. NothingUnaccounted'
  <2>1. Shown' = Shown /\ Shown \cap lost' = {}
    BY <1>1 DEF EventInv, NothingUnaccounted, Shown
  <2>2. ASSUME NEW e \in lost'
        PROVE  e < nextSequence' /\ (e \in ToSet(history') => Passed(e)')
    <3>1. e < nextSequence /\ e \in Nat
      <4>1. e \in lost \/ e \in ToSet(history)
        BY <1>1
      <4>2. e \in lost => e < nextSequence /\ e \in Nat
        BY EventTypes DEF EventInv, NothingUnaccounted
      <4>3. e \in ToSet(history) => e < nextSequence /\ e \in Nat
        BY <1>5, EventTypes DEF EventInv
      <4> QED BY <4>1, <4>2, <4>3
    <3>2. e \in ToSet(history') => e \in lost /\ e \in ToSet(history)
      BY <1>1, <1>6, <3>1, EventTypes DEF EventInv
    <3>3. e \in ToSet(history') => Passed(e)
      BY <3>2 DEF EventInv, NothingUnaccounted
    <3>4. Passed(e)' = Passed(e)
      BY <1>1 DEF Passed
    <3>5. e < nextSequence'
      BY <1>1, <1>5, <3>1
    <3> QED BY <3>3, <3>4, <3>5
  <2>3. ASSUME watch # "gone", NEW e \in 1..(nextSequence' - 1), e \notin Shown \cup lost'
        PROVE  Pending(e)'
    <3>1. CASE e = nextSequence
      BY <1>1, <1>6, <3>1, EventTypes DEF EventInv, PageInOrder, Pending
    <3>2. CASE e # nextSequence
      <4>1. e \in 1..(nextSequence - 1) /\ e \notin Shown \cup lost
        BY <1>1, <1>5, <2>3, <3>2
      <4>2. Pending(e)
        BY <2>3, <4>1 DEF EventInv, NothingUnaccounted
      <4>3. e \in ToSet(history')
        BY <1>1, <2>3, <4>2 DEF Pending, Shown
      <4> QED BY <1>1, <4>2, <4>3 DEF Pending
    <3> QED BY <3>1, <3>2
  <2> QED BY <1>1, <2>1, <2>2, <2>3 DEF NothingUnaccounted
<1> QED BY <1>4, <1>7, <1>8, <1>9 DEF EventInv

\* What a reader takes from the end of the history.
LEMMA EndOfHistory ==
    ASSUME EventInv, NEW i \in 1..(Len(history) + 1), NEW t, t = SubSeq(history, i, Len(history))
    PROVE  /\ t \in Seq(Numbers) /\ Ascending(t)
           /\ \A e : e \in ToSet(t) =>
                 e \in Nat \ {0} /\ e \in ToSet(history) /\ e < nextSequence
           /\ \A e \in ToSet(history) : e \in ToSet(t) \/ (t # <<>> => e < Head(t))
<1>1. history \in Seq(Numbers) /\ nextSequence \in Nat \ {0} /\ Len(history) \in Nat
  BY EventTypes, LenProperties DEF EventInv
<1>2. t \in Seq(Numbers) /\ Len(t) = Len(history) - i + 1 /\ Len(t) \in Nat
  BY <1>1, EndOf
<1>3. Numbered(t, nextSequence)
  BY <1>1, NumberedEnd DEF EventInv
<1>4. /\ ToSet(t) = (nextSequence - Len(t))..(nextSequence - 1) /\ Ascending(t)
      /\ t # <<>> => Head(t) = nextSequence - Len(t)
  BY <1>1, <1>2, <1>3, NumberedIs
<1>5. /\ ToSet(history) = (nextSequence - Len(history))..(nextSequence - 1)
      /\ Len(history) <= nextSequence - 1
  BY <1>1, NumberedIs DEF EventInv, Numbered
<1>6. ASSUME NEW e \in ToSet(t)
      PROVE  e \in Nat \ {0} /\ e \in ToSet(history) /\ e < nextSequence
  BY <1>1, <1>2, <1>4, <1>5
<1>7. ASSUME NEW e \in ToSet(history), e \notin ToSet(t), t # <<>> PROVE e < Head(t)
  BY <1>1, <1>2, <1>4, <1>5, <1>7
<1> QED BY <1>2, <1>4, <1>6, <1>7

LEMMA EventInvJoin == ASSUME EventInv, Join PROVE EventInv'
<1>1. /\ batch' = LastOf(RecentLimit, history) /\ lastSequence' = 0 /\ sent' = <<>>
      /\ lost' = (1..(nextSequence - 1)) \ ToSet(batch') /\ watch' = "joining"
      /\ UNCHANGED <<history, nextSequence>>
  BY DEF Join
<1>2. history \in Seq(Numbers) /\ nextSequence \in Nat \ {0} /\ ToSet(sent') = {}
  BY <1>1, EventTypes, ToSetEmpty DEF EventInv
<1>3. PICK i \in 1..(Len(history) + 1) : batch' = SubSeq(history, i, Len(history))
  BY <1>1, <1>2, LastOfIs, EventAssumption
<1>4. /\ batch' \in Seq(Numbers) /\ Ascending(batch')
      /\ \A e : e \in ToSet(batch') =>
            e \in Nat \ {0} /\ e \in ToSet(history) /\ e < nextSequence
      /\ \A e \in ToSet(history) : e \in ToSet(batch') \/ (batch' # <<>> => e < Head(batch'))
  BY <1>3, EndOfHistory
<1>5. batch' = <<>> => ToSet(history) = {}
  <2>1. history # <<>> => Len(batch') >= 1
    BY <1>1, <1>2, LastOfIs, EventAssumption
  <2> QED BY <2>1, ToSetEmpty
<1>6. EventTypeOK'
  <2>1. 1..(nextSequence - 1) \subseteq Numbers
    BY EventAssumption DEF EventInv, EventTypeOK, Numbers
  <2>2. sent' \in Seq(Numbers) /\ lastSequence' \in 0..MaxEvents
    BY <1>1, EmptySeq, EventAssumption
  <2> QED BY <1>1, <1>4, <2>1, <2>2 DEF EventInv, EventTypeOK
<1>7. PageInOrder'
  <2>1. Ascending(sent')
    BY <1>1 DEF Ascending
  <2>2. Ascending(batch)' /\ Ascending(sent)'
    BY <1>4, <2>1 DEF Ascending
  <2>3. \A e \in ToSet(batch') : lastSequence' < e /\ e < nextSequence'
    BY <1>1, <1>4
  <2> QED BY <1>1, <1>2, <2>2, <2>3 DEF PageInOrder
<1>8. NothingUnaccounted'
  <2>1. Shown' = ToSet(batch')
    BY <1>2 DEF Shown
  <2>2. ASSUME NEW e \in lost'
        PROVE  e < nextSequence' /\ (e \in ToSet(history') => Passed(e)')
    <3>1. e \in 1..(nextSequence - 1) /\ e \notin ToSet(batch')
      BY <1>1
    <3>2. e \in ToSet(history) => batch' # <<>> /\ e < Head(batch')
      BY <1>4, <1>5, <3>1
    <3> QED BY <1>1, <1>2, <3>1, <3>2 DEF Passed
  <2>3. \A e \in 1..(nextSequence' - 1) : e \in Shown' \cup lost'
    BY <1>1, <2>1
  <2>4. Shown' \cap lost' = {}
    BY <1>1, <2>1
  <2> QED BY <2>2, <2>3, <2>4 DEF NothingUnaccounted
<1>9. Numbered(history, nextSequence)'
  BY <1>1 DEF EventInv, Numbered
<1> QED BY <1>6, <1>7, <1>8, <1>9 DEF EventInv

LEMMA EventInvSendNext == ASSUME EventInv, SendNext PROVE EventInv'
<1> DEFINE e1 == Head(batch)
<1>1. /\ watch # "gone" /\ batch # <<>>
      /\ lastSequence' = IF e1 > lastSequence THEN e1 ELSE lastSequence
      /\ sent' = Append(sent, e1) /\ batch' = Tail(batch)
      /\ UNCHANGED <<history, nextSequence, watch, lost>>
  BY DEF SendNext
<1>2. /\ batch \in Seq(Numbers) /\ sent \in Seq(Numbers) /\ Numbers \subseteq Nat \ {0}
      /\ nextSequence \in Nat \ {0} /\ lastSequence \in Nat
  BY EventTypes DEF EventInv
<1>3. /\ e1 = batch[1] /\ e1 \in Numbers /\ batch' \in Seq(Numbers)
      /\ Len(batch) \in Nat \ {0} /\ Len(batch') = Len(batch) - 1
      /\ \A i \in 1..(Len(batch) - 1) : batch'[i] = batch[i + 1]
      /\ ToSet(batch) = {e1} \cup ToSet(batch')
  BY <1>1, <1>2, HeadFirst
<1>4. /\ sent' \in Seq(Numbers) /\ ToSet(sent') = ToSet(sent) \cup {e1}
      /\ Len(sent) \in Nat /\ Len(sent') = Len(sent) + 1
      /\ sent'[Len(sent) + 1] = e1 /\ \A i \in 1..Len(sent) : sent'[i] = sent[i]
  BY <1>1, <1>2, <1>3, ToSetAppend, AppendProperties, LenProperties
<1>5. /\ lastSequence < e1 /\ e1 < nextSequence /\ lastSequence' = e1
  <2>1. lastSequence < e1 /\ e1 < nextSequence
    BY <1>3 DEF EventInv, PageInOrder
  <2> QED BY <1>1, <2>1
<1>6. \A e \in ToSet(batch') : e1 < e /\ e < nextSequence
  <2> SUFFICES ASSUME NEW e \in ToSet(batch') PROVE e1 < e
    BY <1>3 DEF EventInv, PageInOrder
  <2>1. PICK i \in 1..Len(batch') : e = batch'[i]
    BY <1>3, ToSetIsRange
  <2>2. i + 1 \in DOMAIN batch /\ 1 \in DOMAIN batch /\ 1 < i + 1 /\ e = batch[i + 1]
    BY <1>2, <1>3, <2>1, LenProperties
  <2> QED BY <1>3, <2>2 DEF EventInv, PageInOrder, Ascending
<1> HIDE DEF e1
<1>7. EventTypeOK'
  BY <1>1, <1>2, <1>3, <1>4, <1>5 DEF EventInv, EventTypeOK, Numbers
<1>8. PageInOrder'
  <2>1. Ascending(sent')
    <3>1. DOMAIN sent' = 1..(Len(sent) + 1) /\ DOMAIN sent = 1..Len(sent)
      BY <1>2, <1>4, LenProperties
    <3>2. \A i \in 1..Len(sent) : sent'[i] \in Nat /\ sent'[i] < e1
      <4>1. \A i \in 1..Len(sent) : sent[i] \in ToSet(sent) /\ sent[i] \in Nat
        BY <1>2, ToSetIsRange, ElementOfSeq
      <4>2. \A e \in ToSet(sent) : e <= lastSequence
        BY DEF EventInv, PageInOrder
      <4> QED BY <1>2, <1>3, <1>4, <1>5, <4>1, <4>2
    <3>3. ASSUME NEW i \in 1..(Len(sent) + 1), NEW j \in 1..(Len(sent) + 1), i < j
          PROVE  sent'[i] < sent'[j]
      <4>1. CASE j = Len(sent) + 1
        BY <1>4, <3>2, <3>3, <4>1
      <4>2. CASE j # Len(sent) + 1
        <5>1. i \in 1..Len(sent) /\ j \in 1..Len(sent)
          BY <1>4, <3>3, <4>2
        <5> QED BY <1>4, <3>1, <3>3, <5>1 DEF EventInv, PageInOrder, Ascending
      <4> QED BY <4>1, <4>2
    <3> QED BY <3>1, <3>3 DEF Ascending
  <2>2. Ascending(batch')
    <3>1. DOMAIN batch' = 1..Len(batch') /\ DOMAIN batch = 1..Len(batch)
      BY <1>2, <1>3, LenProperties
    <3>2. ASSUME NEW i \in 1..Len(batch'), NEW j \in 1..Len(batch'), i < j
          PROVE  batch'[i] < batch'[j]
      <4>1. i + 1 \in DOMAIN batch /\ j + 1 \in DOMAIN batch /\ i + 1 < j + 1
        BY <1>3, <3>1, <3>2
      <4> QED BY <1>3, <4>1 DEF EventInv, PageInOrder, Ascending
    <3> QED BY <3>1, <3>2 DEF Ascending
  <2>3. \A e \in ToSet(sent') : e <= lastSequence'
    <3>1. \A e \in ToSet(sent) : e \in Nat /\ e <= lastSequence
      BY EventTypes DEF EventInv, PageInOrder
    <3> QED BY <1>2, <1>3, <1>4, <1>5, <3>1
  <2>4. Ascending(sent)' /\ Ascending(batch)'
    BY <2>1, <2>2 DEF Ascending
  <2> QED BY <1>1, <1>2, <1>5, <1>6, <2>3, <2>4 DEF PageInOrder
<1>9. NothingUnaccounted'
  <2>1. Shown' = Shown
    BY <1>3, <1>4 DEF Shown
  <2>2. ASSUME NEW e \in lost, e \in ToSet(history) PROVE Passed(e)'
    <3>1. e \in Nat /\ Passed(e)
      BY <2>2, EventTypes DEF EventInv, NothingUnaccounted
    <3>2. e <= lastSequence'
      <4>1. e <= lastSequence \/ e < e1
        BY <3>1 DEF Passed, e1
      <4> QED BY <1>2, <1>3, <1>5, <3>1, <4>1
    <3> QED BY <3>2 DEF Passed
  <2>3. ASSUME NEW e, Pending(e) PROVE Pending(e)'
    <3>1. e > e1 /\ e \in ToSet(history)
      BY <1>3, <2>3 DEF Pending
    <3>2. \A f \in ToSet(batch') : e > f
      BY <1>3, <2>3 DEF Pending
    <3> QED BY <1>1, <1>5, <3>1, <3>2 DEF Pending
  <2>4. \A e \in lost : e < nextSequence
    BY DEF EventInv, NothingUnaccounted
  <2> QED BY <1>1, <2>1, <2>2, <2>3, <2>4 DEF EventInv, NothingUnaccounted
<1>10. Numbered(history, nextSequence)'
  BY <1>1 DEF EventInv, Numbered
<1> QED BY <1>7, <1>8, <1>9, <1>10 DEF EventInv

\* The selection of read_since() exists: what is newer is the end of the history.
LEMMA NewerIsAnEnd ==
    ASSUME EventInv
    PROVE  \E i \in 1..(Len(history) + 1) :
              ToSet(SubSeq(history, i, Len(history))) = {e \in ToSet(history) : e > lastSequence}
<1> DEFINE oldest == nextSequence - Len(history)
           i == IF lastSequence < oldest THEN 1 ELSE lastSequence - oldest + 2
           t == SubSeq(history, i, Len(history))
<1>1. /\ history \in Seq(Numbers) /\ nextSequence \in Nat \ {0} /\ Len(history) \in Nat
      /\ lastSequence \in Nat /\ lastSequence < nextSequence
  BY EventTypes, LenProperties DEF EventInv, PageInOrder
<1>2. i \in 1..(Len(history) + 1)
  BY <1>1
<1>3. ToSet(history) = oldest..(nextSequence - 1)
  BY <1>1, NumberedIs DEF EventInv
<1>4. Len(history) - i + 1 = IF lastSequence < oldest THEN Len(history)
                             ELSE nextSequence - 1 - lastSequence
  BY <1>1
<1> HIDE DEF i
<1>5. t \in Seq(Numbers) /\ Len(t) = Len(history) - i + 1
  BY <1>1, <1>2, EndOf
<1>6. Numbered(t, nextSequence)
  BY <1>1, <1>2, NumberedEnd DEF EventInv
<1> HIDE DEF t
<1>7. ToSet(t) = (nextSequence - Len(t))..(nextSequence - 1)
  BY <1>1, <1>5, <1>6, NumberedIs
<1>8. ToSet(t) = {e \in ToSet(history) : e > lastSequence}
  <2>1. CASE lastSequence < oldest
    <3>1. Len(t) = Len(history)
      BY <1>4, <1>5, <2>1
    <3>2. \A e \in oldest..(nextSequence - 1) : e > lastSequence
      BY <1>1, <2>1
    <3> QED BY <1>1, <1>3, <1>7, <3>1, <3>2
  <2>2. CASE ~(lastSequence < oldest)
    <3>1. Len(t) = nextSequence - 1 - lastSequence
      BY <1>4, <1>5, <2>2
    <3>2. nextSequence - Len(t) = lastSequence + 1
      BY <1>1, <3>1
    <3>3. ToSet(t) = (lastSequence + 1)..(nextSequence - 1)
      BY <1>7, <3>2
    <3>4. oldest <= lastSequence /\ oldest \in Int
      BY <1>1, <2>2
    <3>5. \A e : e \in (lastSequence + 1)..(nextSequence - 1)
                  <=> e \in oldest..(nextSequence - 1) /\ e > lastSequence
      BY <1>1, <3>4
    <3> QED BY <1>3, <3>3, <3>5
  <2> QED BY <2>1, <2>2
<1> QED BY <1>2, <1>8 DEF t

LEMMA EventInvReadSince == ASSUME EventInv, ReadSince PROVE EventInv'
<1>1. /\ watch # "gone" /\ batch = <<>> /\ watch' = "reading"
      /\ ToSet(batch') = {e \in ToSet(history) : e > lastSequence}
      /\ UNCHANGED <<history, nextSequence, lastSequence, sent, lost>>
  BY DEF ReadSince
<1>2. PICK i \in 1..(Len(history) + 1) : batch' = SubSeq(history, i, Len(history))
  BY DEF ReadSince
<1>3. /\ batch' \in Seq(Numbers) /\ Ascending(batch')
      /\ \A e : e \in ToSet(batch') =>
            e \in Nat \ {0} /\ e \in ToSet(history) /\ e < nextSequence
      /\ \A e \in ToSet(history) : e \in ToSet(batch') \/ (batch' # <<>> => e < Head(batch'))
  BY <1>2, EndOfHistory
<1>4. ToSet(batch) = {}
  BY <1>1, ToSetEmpty
<1>5. EventTypeOK'
  BY <1>1, <1>3 DEF EventInv, EventTypeOK
<1>6. PageInOrder'
  <2>1. Ascending(sent)' /\ Ascending(batch)'
    BY <1>1, <1>3 DEF EventInv, PageInOrder, Ascending
  <2> QED BY <1>1, <1>3, <2>1 DEF EventInv, PageInOrder
<1>7. NothingUnaccounted'
  <2>1. ASSUME NEW e \in lost PROVE e < nextSequence /\ (e \in ToSet(history) => e <= lastSequence)
    BY <1>1, <2>1 DEF EventInv, NothingUnaccounted, Passed
  <2>2. ToSet(batch') \cap lost = {}
    <3> SUFFICES ASSUME NEW e \in ToSet(batch'), e \in lost PROVE FALSE
      OBVIOUS
    <3>1. e \in ToSet(history) /\ e > lastSequence /\ e <= lastSequence
      BY <1>1, <2>1
    <3> QED BY <1>3, <3>1, EventTypes DEF EventInv
  <2>3. Shown' = ToSet(sent) \cup ToSet(batch') /\ Shown = ToSet(sent)
    BY <1>1, <1>4 DEF Shown
  <2>4. Shown' \cap lost' = {}
    BY <1>1, <2>2, <2>3 DEF EventInv, NothingUnaccounted
  <2>5. ASSUME NEW e \in 1..(nextSequence - 1) PROVE e \in Shown' \cup lost
    <3>1. e \in Shown \cup lost \/ Pending(e)
      BY <1>1 DEF EventInv, NothingUnaccounted
    <3> QED BY <1>1, <2>3, <3>1 DEF Pending
  <2> QED BY <1>1, <2>1, <2>4, <2>5 DEF NothingUnaccounted, Passed
<1>8. Numbered(history, nextSequence)'
  BY <1>1 DEF EventInv, Numbered
<1> QED BY <1>5, <1>6, <1>7, <1>8 DEF EventInv

LEMMA EventInvDisconnect == ASSUME EventInv, Disconnect PROVE EventInv'
<1>1. /\ watch' = "gone" /\ batch' = <<>> /\ sent' = <<>> /\ lastSequence' = 0 /\ lost' = {}
      /\ UNCHANGED <<history, nextSequence>>
  BY DEF Disconnect
<1>2. ToSet(sent') = {} /\ ToSet(batch') = {} /\ <<>> \in Seq(Numbers) /\ DOMAIN <<>> = {}
  BY <1>1, ToSetEmpty, EmptySeq
<1>3. EventTypeOK'
  BY <1>1, <1>2, EventAssumption DEF EventInv, EventTypeOK
<1>4. PageInOrder'
  <2>1. Ascending(sent)' /\ Ascending(batch)'
    BY <1>1, <1>2 DEF Ascending
  <2>2. lastSequence' < nextSequence'
    BY <1>1, EventTypes DEF EventInv
  <2> QED BY <1>1, <1>2, <2>1, <2>2 DEF PageInOrder
<1>5. NothingUnaccounted'
  BY <1>1 DEF NothingUnaccounted
<1>6. Numbered(history, nextSequence)'
  BY <1>1 DEF EventInv, Numbered
<1> QED BY <1>3, <1>4, <1>5, <1>6 DEF EventInv

LEMMA EventInvStep == ASSUME EventInv, [EventNext]_eventVars PROVE EventInv'
<1>1. ASSUME UNCHANGED eventVars PROVE EventInv'
  BY <1>1 DEF EventInv, eventVars, EventTypeOK, Numbered, PageInOrder, Ascending,
              NothingUnaccounted, Shown, Pending, Passed
<1> QED BY <1>1, EventInvPublish, EventInvJoin, EventInvSendNext, EventInvReadSince,
           EventInvDisconnect DEF EventNext

LEMMA EventInvCorrect == EventSpec => []EventInv
BY EventInvInit, EventInvStep, PTL DEF EventSpec

\* A page is sent each event once and in order; one it is not sent had left the
\* bounded history, or was older than the recent ones, before it read
\* (publish, recent, read_since and the handler of /ws/events).
THEOREM EveryEventOnceOrLostCorrect == EventSpec => []EveryEventOnceOrLost
<1>1. ASSUME EventInv PROVE EveryEventOnceOrLost
  <2>1. \A i, j \in DOMAIN sent : i < j => sent[i] < sent[j]
    BY <1>1 DEF EventInv, PageInOrder, Ascending
  <2>2. ASSUME NEW e \in 1..lastSequence PROVE e \in ToSet(sent) <=> e \notin lost
    <3>1. /\ lastSequence \in Nat /\ nextSequence \in Nat /\ lastSequence < nextSequence
          /\ watch # "gone" /\ e \in 1..(nextSequence - 1)
      BY <1>1, EventTypes DEF EventInv, PageInOrder
    <3>2. e \notin ToSet(batch)
      <4>1. \A f \in ToSet(batch) : lastSequence < f
        BY <1>1 DEF EventInv, PageInOrder
      <4> QED BY <3>1, <4>1
    <3>3. ~Pending(e)
      BY <3>1 DEF Pending
    <3> QED BY <1>1, <3>1, <3>2, <3>3 DEF EventInv, NothingUnaccounted, Shown
  <2> QED BY <2>1, <2>2 DEF EveryEventOnceOrLost
<1> QED BY <1>1, EventInvCorrect, PTL
-----------------------------------------------------------------------------
(* CoordinateMissionStore: a route on its way to the file holds what the    *)
(* file held when it was loaded.                                            *)

Edits == [at: {"idle", "save", "write"}, kind: {"put", "add"}, waypoints: SUBSET Waypoints]

\* Who writes holds the lock, and the file is not whole until it is done.
OneWriter ==
    /\ writer = {} \/ \E u \in Users : writer = {u}
    /\ \A u \in Users : edit[u].at = "write" => writer = {u} /\ file.is = "torn"

\* What an addition does not carry over was saved after it had loaded.
AddKnows ==
    \A u \in Users : edit[u].at # "idle" /\ edit[u].kind = "add" =>
        file.waypoints \ edit[u].waypoints \subseteq unseen[u]

StoreInv ==
    /\ StoreTypeOK /\ OneWriter /\ AddKnows
    /\ file.is = "missing" => file.waypoints = {}

LEMMA StoreInvInit == StoreInit => StoreInv
<1> SUFFICES ASSUME StoreInit PROVE StoreInv
  OBVIOUS
<1>1. Cardinality(writer) <= 1
  BY FS_EmptySet DEF StoreInit
<1>2. StoreTypeOK
  BY <1>1 DEF StoreInit, StoreTypeOK, NoEdit
<1> QED BY <1>2 DEF StoreInit, StoreInv, OneWriter, AddKnows, NoEdit

\* A request that changes its own edit only.
LEMMA EditTypes ==
    ASSUME StoreTypeOK, NEW u \in Users, NEW e \in Edits, edit' = [edit EXCEPT ![u] = e]
    PROVE  /\ edit' \in [Users -> Edits] /\ edit'[u] = e
           /\ \A v \in Users \ {u} : edit'[v] = edit[v]
BY DEF StoreTypeOK, Edits

LEMMA StoreTypes ==
    ASSUME StoreTypeOK
    PROVE  /\ edit \in [Users -> Edits] /\ \A u \in Users : edit[u] \in Edits
           /\ file.waypoints \subseteq Waypoints /\ file.is \in {"missing", "torn", "whole"}
           /\ unseen \in [Users -> SUBSET Waypoints]
           /\ \A u \in Users : edit[u].waypoints \subseteq Waypoints
           /\ \A u \in Users : edit[u].at \in {"idle", "save", "write"}
BY DEF StoreTypeOK, Edits

LEMMA StoreInvEdits ==
    ASSUME StoreInv, NEW u \in Users,
           (\E route \in SUBSET Waypoints : Put(u, route)) \/ (\E w \in Waypoints : AddLoad(u, w))
    PROVE  StoreInv'
<1>1. CASE \E route \in SUBSET Waypoints : Put(u, route)
  <2>1. PICK route \in SUBSET Waypoints : Put(u, route)
    BY <1>1
  <2> DEFINE e == [at |-> "save", kind |-> "put", waypoints |-> route]
  <2>2. e \in Edits /\ e.at = "save" /\ e.kind = "put"
    BY DEF Edits
  <2>3. edit' = [edit EXCEPT ![u] = e] /\ UNCHANGED <<file, writer, unseen>>
    BY <2>1 DEF Put
  <2> HIDE DEF e
  <2>4. edit' \in [Users -> Edits] /\ edit'[u] = e /\ \A v \in Users \ {u} : edit'[v] = edit[v]
    BY <2>2, <2>3, EditTypes DEF StoreInv
  <2>5. StoreTypeOK'
    BY <2>3, <2>4 DEF StoreInv, StoreTypeOK, Edits
  <2>6. OneWriter' /\ AddKnows'
    BY <2>2, <2>3, <2>4 DEF StoreInv, OneWriter, AddKnows
  <2> QED BY <2>3, <2>5, <2>6 DEF StoreInv
<1>2. CASE \E w \in Waypoints : AddLoad(u, w)
  <2>1. PICK w \in Waypoints, route \in SUBSET Waypoints :
           /\ file.is # "torn" /\ route = (IF file.is = "whole" THEN file.waypoints ELSE {})
           /\ edit' = [edit EXCEPT ![u] = [at |-> "save", kind |-> "add", waypoints |-> route \cup {w}]]
           /\ unseen' = [unseen EXCEPT ![u] = {}]
           /\ UNCHANGED <<file, writer>>
    BY <1>2 DEF AddLoad, Loaded
  <2> DEFINE e == [at |-> "save", kind |-> "add", waypoints |-> route \cup {w}]
  <2>2. e \in Edits /\ e.at = "save" /\ e.waypoints = route \cup {w}
    BY DEF Edits
  <2>3. edit' = [edit EXCEPT ![u] = e]
    BY <2>1
  <2> HIDE DEF e
  <2>4. edit' \in [Users -> Edits] /\ edit'[u] = e /\ \A v \in Users \ {u} : edit'[v] = edit[v]
    BY <2>2, <2>3, EditTypes DEF StoreInv
  <2>5. /\ unseen' \in [Users -> SUBSET Waypoints]
        /\ \A v \in Users \ {u} : unseen'[v] = unseen[v]
    BY <2>1, StoreTypes DEF StoreInv
  <2>6. StoreTypeOK'
    BY <2>1, <2>4, <2>5 DEF StoreInv, StoreTypeOK, Edits
  <2>7. OneWriter'
    BY <2>1, <2>2, <2>4 DEF StoreInv, OneWriter
  <2>8. file.waypoints \ e.waypoints = {}
    BY <2>1, <2>2, StoreTypes DEF StoreInv
  <2>9. AddKnows'
    BY <2>1, <2>4, <2>5, <2>8 DEF StoreInv, AddKnows
  <2> QED BY <2>1, <2>6, <2>7, <2>9 DEF StoreInv
<1> QED BY <1>1, <1>2

LEMMA StoreInvSave ==
    ASSUME StoreInv, NEW u \in Users, SaveBegin(u) \/ SaveEnd(u) \/ SaveFails(u)
    PROVE  StoreInv'
<1>1. CASE SaveBegin(u)
  <2> DEFINE e == [edit[u] EXCEPT !.at = "write"]
  <2>1. /\ edit[u].at = "save" /\ writer = {} /\ writer' = {u}
        /\ edit' = [edit EXCEPT ![u] = e]
        /\ file' = [file EXCEPT !.is = "torn"] /\ UNCHANGED unseen
    BY <1>1 DEF SaveBegin
  <2>2. /\ e \in Edits /\ e.at = "write" /\ e.kind = edit[u].kind
        /\ e.waypoints = edit[u].waypoints
    <3>1. edit[u] \in Edits
      BY StoreTypes DEF StoreInv
    <3> QED BY <3>1 DEF Edits
  <2> HIDE DEF e
  <2>3. edit' \in [Users -> Edits] /\ edit'[u] = e /\ \A v \in Users \ {u} : edit'[v] = edit[v]
    BY <2>1, <2>2, EditTypes DEF StoreInv
  <2>4. /\ file' \in [is: {"missing", "torn", "whole"}, waypoints: SUBSET Waypoints]
        /\ file'.is = "torn" /\ file'.waypoints = file.waypoints
    BY <2>1 DEF StoreInv, StoreTypeOK
  <2>5. writer' \in SUBSET Users /\ Cardinality(writer') <= 1
    BY <2>1, FS_Singleton
  <2>6. StoreTypeOK'
    BY <2>1, <2>3, <2>4, <2>5 DEF StoreInv, StoreTypeOK, Edits
  <2>7. OneWriter'
    <3>1. \A v \in Users : edit[v].at # "write"
      BY <2>1 DEF StoreInv, OneWriter
    <3> QED BY <2>1, <2>3, <2>4, <3>1 DEF OneWriter
  <2>8. AddKnows'
    BY <2>1, <2>2, <2>3, <2>4 DEF StoreInv, AddKnows
  <2> QED BY <2>4, <2>6, <2>7, <2>8 DEF StoreInv
<1>2. CASE SaveEnd(u) \/ SaveFails(u)
  <2>1. /\ edit[u].at = "write" /\ edit' = [edit EXCEPT ![u] = NoEdit] /\ writer' = {}
        /\ writer = {u} /\ NoEdit \in Edits /\ NoEdit.at = "idle"
    BY <1>2 DEF SaveEnd, SaveFails, StoreInv, OneWriter, NoEdit, Edits
  <2>2. edit' \in [Users -> Edits] /\ edit'[u] = NoEdit /\ \A v \in Users \ {u} : edit'[v] = edit[v]
    BY <2>1, EditTypes DEF StoreInv
  <2>3. writer' \in SUBSET Users /\ Cardinality(writer') <= 1
    BY <2>1, FS_EmptySet
  <2>4. OneWriter'
    <3>1. \A v \in Users \ {u} : edit[v].at # "write"
      BY <2>1 DEF StoreInv, OneWriter
    <3> QED BY <2>1, <2>2, <3>1 DEF OneWriter
  <2>5. CASE SaveEnd(u)
    <3>1. /\ file' = [is |-> "whole", waypoints |-> edit[u].waypoints]
          /\ unseen' = [v \in Users |-> unseen[v] \cup edit[u].waypoints]
      BY <2>5 DEF SaveEnd
    <3>2. /\ file' \in [is: {"missing", "torn", "whole"}, waypoints: SUBSET Waypoints]
          /\ file'.is = "whole" /\ file'.waypoints = edit[u].waypoints
      BY <3>1, StoreTypes DEF StoreInv
    <3>3. unseen' \in [Users -> SUBSET Waypoints]
      BY <3>1, StoreTypes DEF StoreInv
    <3>4. StoreTypeOK'
      BY <2>2, <2>3, <3>2, <3>3 DEF StoreTypeOK, Edits
    <3>5. AddKnows'
      BY <2>1, <2>2, <3>1, <3>2 DEF AddKnows
    <3> QED BY <2>4, <3>2, <3>4, <3>5 DEF StoreInv
  <2>6. CASE SaveFails(u)
    <3>1. UNCHANGED <<file, unseen>>
      BY <2>6 DEF SaveFails
    <3>2. StoreTypeOK'
      BY <2>2, <2>3, <3>1 DEF StoreInv, StoreTypeOK, Edits
    <3>3. AddKnows'
      BY <2>1, <2>2, <3>1 DEF StoreInv, AddKnows
    <3> QED BY <2>4, <3>1, <3>2, <3>3 DEF StoreInv
  <2> QED BY <1>2, <2>5, <2>6
<1> QED BY <1>1, <1>2

LEMMA StoreInvDelete ==
    ASSUME StoreInv, NEW u \in Users, DeleteRoute(u) PROVE StoreInv'
<1>1. /\ writer = {} /\ file' = [is |-> "missing", waypoints |-> {}]
      /\ UNCHANGED <<edit, writer, unseen>>
  BY DEF DeleteRoute
<1>2. StoreTypeOK'
  BY <1>1 DEF StoreInv, StoreTypeOK
<1>3. OneWriter'
  <2>1. \A v \in Users : edit[v].at # "write"
    BY <1>1 DEF StoreInv, OneWriter
  <2> QED BY <1>1, <2>1 DEF OneWriter
<1>4. AddKnows'
  BY <1>1 DEF AddKnows
<1> QED BY <1>1, <1>2, <1>3, <1>4 DEF StoreInv

LEMMA StoreInvStep == ASSUME StoreInv, [StoreNext]_storeVars PROVE StoreInv'
<1>1. ASSUME UNCHANGED storeVars PROVE StoreInv'
  BY <1>1 DEF StoreInv, storeVars, StoreTypeOK, OneWriter, AddKnows
<1>2. ASSUME NEW u \in Users,
             \/ \E route \in SUBSET Waypoints : Put(u, route)
             \/ \E w \in Waypoints : AddLoad(u, w)
             \/ SaveBegin(u) \/ SaveEnd(u) \/ SaveFails(u) \/ DeleteRoute(u)
      PROVE  StoreInv'
  BY <1>2, StoreInvEdits, StoreInvSave, StoreInvDelete
<1> QED BY <1>1, <1>2 DEF StoreNext

LEMMA StoreInvCorrect == StoreSpec => []StoreInv
BY StoreInvInit, StoreInvStep, PTL DEF StoreSpec

\* Only the writer makes the file whole again.
LEMMA WriterCompletes ==
    ASSUME StoreInv, [StoreNext]_storeVars, NEW u \in Users,
           edit[u].at = "write", file'.is = "whole"
    PROVE  file' = [is |-> "whole", waypoints |-> edit[u].waypoints]
<1>1. writer = {u} /\ file.is = "torn" /\ \A v \in Users : edit[v].at = "write" => v = u
  BY DEF StoreInv, OneWriter
<1>2. CASE UNCHANGED file
  BY <1>1, <1>2
<1>3. CASE ~UNCHANGED file
  <2>1. PICK v \in Users : SaveBegin(v) \/ SaveEnd(v) \/ DeleteRoute(v)
    BY <1>3 DEF StoreNext, storeVars, Put, AddLoad, SaveFails
  <2>2. SaveEnd(v) /\ v = u
    BY <1>1, <2>1 DEF SaveBegin, SaveEnd, DeleteRoute
  <2> QED BY <2>2 DEF SaveEnd
<1> QED BY <1>2, <1>3

\* Adding a waypoint drops no other, except those that other requests saved
\* after it had loaded the route (waypoint_from_pose, save and load of
\* CoordinateMissionStore).
THEOREM AddsForgetOnlyUnseenCorrect == StoreSpec => AddsForgetOnlyUnseen
<1>1. ASSUME StoreInv, [StoreNext]_storeVars
      PROVE  [\A u \in Users :
                 edit[u].at = "write" /\ edit[u].kind = "add" /\ file'.is = "whole"
                    => file.waypoints \ file'.waypoints \subseteq unseen[u]]_storeVars
  <2> SUFFICES ASSUME NEW u \in Users,
                      edit[u].at = "write", edit[u].kind = "add", file'.is = "whole"
               PROVE  file.waypoints \ file'.waypoints \subseteq unseen[u]
    OBVIOUS
  <2>1. file'.waypoints = edit[u].waypoints
    BY <1>1, WriterCompletes
  <2> QED BY <1>1, <2>1 DEF StoreInv, AddKnows
<1> QED BY <1>1, StoreInvCorrect, PTL DEF StoreSpec, AddsForgetOnlyUnseen
-----------------------------------------------------------------------------
(* RealsenseCameraService: what each phase of start() and stop() holds.     *)

\* A service that streams has a thread, so that its stop comes to the device.
CameraInv == CameraReleased /\ (service = "serving" => poll # "none")

LEMMA CameraInvStep == ASSUME CameraInv, [RealsenseNext]_realsenseVars PROVE CameraInv'
<1> USE DEF CameraInv, CameraReleased
<1>1. ASSUME StartRefused \/ StartOpen \/ StartPublish \/ StartStreams PROVE CameraInv'
  BY <1>1 DEF StartRefused, StartOpen, StartPublish, StartStreams, Report
<1>2. ASSUME StartFails PROVE CameraInv'
  BY <1>2 DEF StartFails, ReleaseDevice
<1>3. ASSUME StopForget PROVE CameraInv'
  BY <1>3 DEF StopForget
<1>4. ASSUME StopJoin \/ StopClose PROVE CameraInv'
  BY <1>4 DEF StopJoin, StopClose, ReleaseDevice
<1>5. ASSUME PollWakes \/ PollFrame \/ FrameArrives PROVE CameraInv'
  BY <1>5 DEF PollWakes, PollFrame, FrameArrives
<1>6. ASSUME UNCHANGED realsenseVars PROVE CameraInv'
  BY <1>6 DEF realsenseVars
<1> QED BY <1>1, <1>2, <1>3, <1>4, <1>5, <1>6 DEF RealsenseNext

LEMMA CameraInvInit == RealsenseInit => CameraInv
BY DEF RealsenseInit, CameraInv, CameraReleased

\* Whoever leaves the camera open is on the way to close it, or the library
\* could not (start and stop of RealsenseCameraService).
THEOREM CameraReleasedCorrect == RealsenseSpec => []CameraReleased
<1>1. CameraInv => CameraReleased
  BY DEF CameraInv
<1> QED BY <1>1, CameraInvInit, CameraInvStep, PTL DEF RealsenseSpec

LEMMA RealsenseTypes == RealsenseInit => RealsenseTypeOK
BY DEF RealsenseInit, RealsenseTypeOK

LEMMA RealsenseTypesStep ==
    ASSUME RealsenseTypeOK, [RealsenseNext]_realsenseVars PROVE RealsenseTypeOK'
<1> USE DEF RealsenseTypeOK
<1>1. ASSUME StartRefused \/ StartOpen \/ StartPublish \/ StartStreams PROVE RealsenseTypeOK'
  BY <1>1 DEF StartRefused, StartOpen, StartPublish, StartStreams, Report
<1>2. ASSUME StartFails PROVE RealsenseTypeOK'
  BY <1>2 DEF StartFails, ReleaseDevice, Report
<1>3. ASSUME StopForget PROVE RealsenseTypeOK'
  BY <1>3 DEF StopForget, Report
<1>4. ASSUME StopJoin \/ StopClose PROVE RealsenseTypeOK'
  BY <1>4 DEF StopJoin, StopClose, ReleaseDevice
<1>5. ASSUME PollWakes \/ PollFrame \/ FrameArrives PROVE RealsenseTypeOK'
  BY <1>5 DEF PollWakes, PollFrame, FrameArrives, Report
<1>6. ASSUME UNCHANGED realsenseVars PROVE RealsenseTypeOK'
  BY <1>6 DEF realsenseVars
<1> QED BY <1>1, <1>2, <1>3, <1>4, <1>5, <1>6 DEF RealsenseNext

-----------------------------------------------------------------------------
(* TelemetryService and RobotStateMachine.                                  *)

LEMMA TelemetryTypes == TelemetryInit => TelemetryTypeOK
<1> SUFFICES ASSUME TelemetryInit PROVE TelemetryTypeOK
  OBVIOUS
<1>1. seen \in Seen
  BY DEF TelemetryInit, Seen, Nothing
<1>2. effective \in Effective
  BY DEF TelemetryInit, Effective
<1> QED BY <1>1, <1>2 DEF TelemetryInit, TelemetryTypeOK

LEMMA DerivedState == \A s : DeriveState(s) \in Effective
BY DEF DeriveState, Effective

LEMMA TelemetryTypesStep ==
    ASSUME TelemetryTypeOK, [TelemetryNext]_telemetryVars PROVE TelemetryTypeOK'
<1> USE DEF TelemetryTypeOK
<1>1. ASSUME ConnectAdapter PROVE TelemetryTypeOK'
  BY <1>1 DEF ConnectAdapter
<1>2. ASSUME Prime PROVE TelemetryTypeOK'
  BY <1>2, DerivedState DEF Prime
<1>3. ASSUME StartTelemetry \/ ControlChanges \/ ConnectionChanges PROVE TelemetryTypeOK'
  BY <1>3 DEF StartTelemetry, ControlChanges, ConnectionChanges
<1>4. ASSUME PollCapture \/ PollStored \/ PollFails PROVE TelemetryTypeOK'
  BY <1>4 DEF PollCapture, PollStored, PollFails, PollAt, PollUnchanged
<1>5. ASSUME PollCurrent \/ PollConnected PROVE TelemetryTypeOK'
  BY <1>5 DEF PollCurrent, PollConnected, PollAt, PollUnchanged, Seen
<1>6. ASSUME PollUpdate PROVE TelemetryTypeOK'
  BY <1>6, DerivedState DEF PollUpdate, PollAt, PollUnchanged
<1>7. ASSUME UNCHANGED telemetryVars PROVE TelemetryTypeOK'
  BY <1>7 DEF telemetryVars
<1> QED BY <1>1, <1>2, <1>3, <1>4, <1>5, <1>6, <1>7 DEF TelemetryNext, Poll
-----------------------------------------------------------------------------
(* The services together.                                                   *)

\* A step of the whole is a step, or none, of each service.
LEMMA OneServiceSteps ==
    ASSUME [MCNext]_mcVars
    PROVE  /\ [ProcessNext]_processVars /\ [StoreNext]_storeVars /\ [EventNext]_eventVars
           /\ [TelemetryNext]_telemetryVars /\ [RealsenseNext]_realsenseVars
BY DEF MCNext, mcVars

\* Every behaviour of the whole is one of each service: what is proved of the
\* services holds of what the run checks.
THEOREM ServicesCompose ==
    MCSpec => ProcessSpec /\ StoreSpec /\ EventSpec /\ TelemetrySpec /\ RealsenseSpec
<1>1. MCInit => ProcessInit /\ StoreInit /\ EventInit /\ TelemetryInit /\ RealsenseInit
  BY DEF MCInit
<1>2. [MCNext]_mcVars =>
        /\ [ProcessNext]_processVars /\ [StoreNext]_storeVars /\ [EventNext]_eventVars
        /\ [TelemetryNext]_telemetryVars /\ [RealsenseNext]_realsenseVars
  BY OneServiceSteps
<1> QED BY <1>1, <1>2, PTL
       DEF MCSpec, ProcessSpec, StoreSpec, EventSpec, TelemetrySpec, RealsenseSpec

ServicesInv == Inv /\ StoreInv /\ EventInv /\ TelemetryTypeOK /\ RealsenseTypeOK /\ CameraInv

LEMMA ServicesInvCorrect == MCSpec => []ServicesInv
<1>1. MCInit => ServicesInv
  BY InvInit, StoreInvInit, EventInvInit, TelemetryTypes, RealsenseTypes, CameraInvInit
     DEF MCInit, ServicesInv
<1>2. ServicesInv /\ [MCNext]_mcVars => ServicesInv'
  BY OneServiceSteps, InvNext, StoreInvStep, EventInvStep, TelemetryTypesStep,
     RealsenseTypesStep, CameraInvStep DEF ServicesInv
<1> QED BY <1>1, <1>2, PTL DEF MCSpec

\* Every service keeps its state within what its type says.
THEOREM ServicesTypeCorrect == MCSpec => []ServicesTypeOK
<1>1. ServicesInv => ServicesTypeOK
  BY DEF ServicesInv, ServicesTypeOK, Inv, StoreInv, EventInv
<1> QED BY <1>1, ServicesInvCorrect, PTL
=============================================================================
