--------------------------- MODULE RosMissionProofs ---------------------------
(***************************************************************************)
(* What the ROS mission executor guarantees for every number of waypoints  *)
(* and of runs, with or without failing writes: its reports are true, it   *)
(* knows the goals that drive the robot, and it closes its runs.           *)
(***************************************************************************)
EXTENDS RosMission, TLAPS

-----------------------------------------------------------------------------
(* The inductive invariant.  None of the properties is inductive alone: a   *)
(* report says COMPLETED because of what the loop had done by then.         *)

InMission == {"begin", "top", "dispatch", "acceptance", "result", "capture",
              "complete", "abort", "fail"}
Live == {"sent"} \cup Driving

\* The start of a mission excludes a second one, and opens a run for it.
Starting ==
    /\ Len(reports) <= MaxRuns
    /\ api = "servers" => Len(reports) < MaxRuns
    /\ api # "idle" => thread = "none"
    /\ api = "launch" => active_run # 0

\* Where the executor is tells which run, goal and waypoint it is about.
Place ==
    /\ thread \in InMission => active_run # 0
    /\ thread \in {"dispatch", "acceptance", "result", "capture"} => waypoint <= NumWaypoints
    /\ thread = "complete" => waypoint = NumWaypoints + 1
    /\ thread \in {"acceptance", "result", "capture"} =>
          /\ Len(goals) # 0
          /\ goals[Len(goals)].run = active_run /\ goals[Len(goals)].waypoint = waypoint
    /\ thread = "capture" => goals[Len(goals)].is = "succeeded"
    /\ handle # 0 => thread \in {"result", "fail", "finally"} \cup Terminal
    /\ thread = "result" => handle = Len(goals)

Reached(r, w) ==
    /\ w \in reports[r].checkpoints
    /\ \E g \in DOMAIN goals :
          goals[g].run = r /\ goals[g].waypoint = w /\ goals[g].is = "succeeded"

\* The waypoints before the one in progress are reached.
Progress ==
    thread \in InMission => \A w \in 1..NumWaypoints : w < waypoint => Reached(active_run, w)

Reports ==
    \A r \in DOMAIN reports :
        reports[r].status = "COMPLETED" => \A w \in 1..NumWaypoints : Reached(r, w)

\* An open run is executed, about to be, or has a file that could not be written.
RunOpen ==
    active_run # 0 /\ api # "launch" /\ thread \notin InMission => reports[active_run].torn = TRUE

\* A goal that may drive, now or once it is answered, is waited for or given up.
Supervised ==
    proc = "up" => \A g \in DOMAIN goals : goals[g].is \in Live =>
        goals[g].late = TRUE \/ (g = Len(goals) /\ thread \in {"acceptance", "result"})

Inv == RosTypeOK /\ Starting /\ Place /\ Progress /\ Reports /\ RunOpen /\ Supervised

LEMMA InvInit == Init => Inv
<1> SUFFICES ASSUME Init PROVE Inv
  OBVIOUS
<1>1. reports \in Seq(Report) /\ Len(reports) = 0 /\ DOMAIN reports = {}
  BY DEF Init
<1>2. goals \in Seq(Goal) /\ Len(goals) = 0 /\ DOMAIN goals = {}
  BY DEF Init
<1>3. waypoint \in 1..NumWaypoints + 1 /\ completed \in 0..NumWaypoints
  BY RosMissionAssumption DEF Init
<1>4. RosTypeOK
  BY <1>1, <1>2, <1>3 DEF Init, RosTypeOK
<1> QED BY <1>1, <1>2, <1>4, RosMissionAssumption
       DEF Init, Inv, Starting, Place, Progress, Reports, RunOpen, Supervised, InMission

-----------------------------------------------------------------------------
(* What the steps do to the goals and to the reports.                       *)

\* No goal is lost, and a goal that was reached stays reached.
GoalsGrow ==
    /\ goals' \in Seq(Goal) /\ Len(goals) <= Len(goals')
    /\ \A g \in DOMAIN goals :
          /\ goals'[g].run = goals[g].run /\ goals'[g].waypoint = goals[g].waypoint
          /\ goals[g].is = "succeeded" => goals'[g].is = "succeeded"

\* No goal comes to life again or is expected again.
GoalsKept ==
    /\ GoalsGrow /\ Len(goals') = Len(goals)
    /\ \A g \in DOMAIN goals :
          /\ goals'[g].is \in Live => goals[g].is \in Live
          /\ goals[g].late = TRUE => goals'[g].late = TRUE

\* No report is lost, and a checkpoint of it stays saved.
ReportsGrow ==
    /\ reports' \in Seq(Report) /\ Len(reports) <= Len(reports')
    /\ \A r \in DOMAIN reports :
          /\ reports[r].checkpoints \subseteq reports'[r].checkpoints
          /\ reports[r].torn = TRUE => reports'[r].torn = TRUE

ReportsKept ==
    /\ ReportsGrow /\ Len(reports') = Len(reports)
    /\ \A r \in DOMAIN reports : reports'[r].status = reports[r].status

LEMMA ReachedGrows ==
    ASSUME GoalsGrow, ReportsGrow, RosTypeOK,
           NEW r \in DOMAIN reports, NEW w, Reached(r, w)
    PROVE  Reached(r, w)'
<1>1. PICK g \in DOMAIN goals :
          goals[g].run = r /\ goals[g].waypoint = w /\ goals[g].is = "succeeded"
  BY DEF Reached
<1>2. g \in DOMAIN goals'
  BY <1>1 DEF GoalsGrow, RosTypeOK
<1>3. goals'[g].run = r /\ goals'[g].waypoint = w /\ goals'[g].is = "succeeded"
  BY <1>1 DEF GoalsGrow
<1> QED BY <1>2, <1>3 DEF Reached, ReportsGrow

LEMMA ChangedGoal ==
    ASSUME goals \in Seq(Goal), NEW g \in DOMAIN goals, NEW to \in {"sent"} \cup Driving \cup Ended,
           goals' = [goals EXCEPT ![g].is = to],
           goals[g].is # "succeeded", to \in Live => goals[g].is \in Live
    PROVE  GoalsKept
<1>1. [goals[g] EXCEPT !.is = to] \in Goal
  <2>1. goals[g] \in Goal
    OBVIOUS
  <2> QED BY <2>1 DEF Goal
<1>2. goals' = [goals EXCEPT ![g] = [goals[g] EXCEPT !.is = to]]
  OBVIOUS
<1>3. goals' \in Seq(Goal) /\ Len(goals') = Len(goals)
  BY <1>1, <1>2
<1>4. ASSUME NEW h \in DOMAIN goals
      PROVE  /\ goals'[h].run = goals[h].run /\ goals'[h].waypoint = goals[h].waypoint
             /\ goals[h].is = "succeeded" => goals'[h].is = "succeeded"
             /\ goals'[h].is \in Live => goals[h].is \in Live
             /\ goals[h].late = TRUE => goals'[h].late = TRUE
  <2>1. CASE h = g
    <3>1. goals'[h] = [goals[g] EXCEPT !.is = to] /\ goals[g] \in Goal
      BY <1>2, <2>1
    <3> QED BY <2>1, <3>1 DEF Goal
  <2>2. CASE h # g
    BY <1>2, <2>2
  <2> QED BY <2>1, <2>2
<1> QED BY <1>3, <1>4 DEF GoalsGrow, GoalsKept

LEMMA SameGoals == ASSUME goals \in Seq(Goal), UNCHANGED goals PROVE GoalsKept
BY DEF GoalsGrow, GoalsKept

LEMMA SameReports == ASSUME reports \in Seq(Report), UNCHANGED reports PROVE ReportsKept
BY DEF ReportsGrow, ReportsKept

LEMMA CancelledGoals == ASSUME RosTypeOK, goals' = Cancelled(handle) PROVE GoalsKept
<1>1. CASE handle # 0 /\ goals[handle].is = "active"
  <2>1. handle \in DOMAIN goals /\ goals' = [goals EXCEPT ![handle].is = "canceling"]
    BY <1>1 DEF RosTypeOK, Cancelled
  <2> QED BY <1>1, <2>1, ChangedGoal DEF RosTypeOK, Driving, Live
<1>2. CASE ~(handle # 0 /\ goals[handle].is = "active")
  BY <1>2, SameGoals DEF RosTypeOK, Cancelled
<1> QED BY <1>1, <1>2

\* A write that raises leaves its mark on the report, and nothing else.
LEMMA TornReports ==
    ASSUME RosTypeOK, active_run # 0, NEW raised \in BOOLEAN, Torn(raised)
    PROVE  ReportsKept /\ (raised => reports'[active_run].torn = TRUE)
<1> DEFINE torn == reports[active_run].torn \/ raised
           new == [reports[active_run] EXCEPT !.torn = torn]
<1>1. active_run \in DOMAIN reports /\ reports[active_run] \in Report
  BY DEF RosTypeOK
<1>2. reports' = [reports EXCEPT ![active_run] = new]
  BY DEF Torn
<1>3. torn \in BOOLEAN
  BY Zenon
<1>4. (reports[active_run].torn = TRUE => torn = TRUE) /\ (raised => torn = TRUE)
  BY Zenon
<1> HIDE DEF torn
<1>5. /\ new \in Report /\ new.status = reports[active_run].status
      /\ new.checkpoints = reports[active_run].checkpoints /\ new.torn = torn
  BY <1>1, <1>3 DEF Report
<1> HIDE DEF new
<1>6. reports' \in Seq(Report) /\ Len(reports') = Len(reports)
  BY <1>1, <1>2, <1>5 DEF RosTypeOK
<1>7. ASSUME NEW r \in DOMAIN reports
      PROVE  /\ reports'[r].status = reports[r].status
             /\ reports[r].checkpoints \subseteq reports'[r].checkpoints
             /\ reports[r].torn = TRUE => reports'[r].torn = TRUE
  <2>1. CASE r = active_run
    <3>1. reports'[r] = new
      BY <1>2, <2>1 DEF RosTypeOK
    <3> QED BY <1>4, <1>5, <2>1, <3>1
  <2>2. CASE r # active_run
    BY <1>2, <2>2 DEF RosTypeOK
  <2> QED BY <2>1, <2>2
<1>8. raised => reports'[active_run].torn = TRUE
  <2>1. reports'[active_run] = new
    BY <1>1, <1>2 DEF RosTypeOK
  <2> QED BY <1>4, <1>5, <2>1
<1>9. Len(reports) <= Len(reports')
  BY <1>6 DEF RosTypeOK
<1>10. ReportsKept
  BY <1>6, <1>7, <1>9 DEF ReportsGrow, ReportsKept
<1> QED BY <1>8, <1>10

-----------------------------------------------------------------------------
(* One step at a time.  Most steps keep the run, the waypoint, the goals    *)
(* and the reports; for those, what is left to show is the bookkeeping.     *)

\* A goal that could still drive is not left unsupervised.
HandedOver ==
    /\ proc' = "up" => proc = "up"
    /\ proc' = "up" /\ thread \in {"acceptance", "result"} =>
          \/ thread' \in {"acceptance", "result"}
          \/ goals'[Len(goals)].is \notin Live
          \/ goals'[Len(goals)].late = TRUE

LEMMA SupervisedKept == ASSUME Inv, GoalsKept, HandedOver PROVE Supervised'
<1> SUFFICES ASSUME proc' = "up", NEW g \in DOMAIN goals', goals'[g].is \in Live
             PROVE  \/ goals'[g].late = TRUE
                    \/ g = Len(goals') /\ thread' \in {"acceptance", "result"}
  BY DEF Supervised
<1>1. g \in DOMAIN goals /\ goals[g].is \in Live
  BY DEF GoalsKept, GoalsGrow, Inv, RosTypeOK
<1>2. CASE goals[g].late = TRUE
  BY <1>1, <1>2 DEF GoalsKept
<1>3. CASE g = Len(goals) /\ thread \in {"acceptance", "result"}
  BY <1>3 DEF HandedOver, GoalsKept
<1> QED BY <1>1, <1>2, <1>3 DEF Inv, Supervised, HandedOver

LEMMA ReportsStayTrue == ASSUME Inv, GoalsGrow, ReportsKept PROVE Reports'
<1> SUFFICES ASSUME NEW r \in DOMAIN reports', reports'[r].status = "COMPLETED",
                    NEW w \in 1..NumWaypoints
             PROVE  Reached(r, w)'
  BY DEF Reports
<1>1. r \in DOMAIN reports /\ reports[r].status = "COMPLETED"
  BY DEF ReportsKept, ReportsGrow, Inv, RosTypeOK
<1>2. Reached(r, w)
  BY <1>1 DEF Inv, Reports
<1> QED BY <1>1, <1>2, ReachedGrows DEF Inv, ReportsKept

LEMMA ProgressKept ==
    ASSUME Inv, GoalsGrow, ReportsGrow, UNCHANGED <<active_run, waypoint>>,
           thread' \in InMission => thread \in InMission
    PROVE  Progress'
<1> SUFFICES ASSUME thread' \in InMission, NEW w \in 1..NumWaypoints, w < waypoint
             PROVE  Reached(active_run, w)'
  BY DEF Progress
<1>1. Reached(active_run, w) /\ active_run \in DOMAIN reports
  BY DEF Inv, Progress, Place, RosTypeOK
<1> QED BY <1>1, ReachedGrows DEF Inv

LEMMA StepKeepsInv ==
    ASSUME Inv, RosTypeOK', Starting', Place', RunOpen', HandedOver,
           GoalsKept, ReportsKept, UNCHANGED <<active_run, waypoint>>,
           thread' \in InMission => thread \in InMission
    PROVE  Inv'
BY SupervisedKept, ReportsStayTrue, ProgressKept DEF Inv, GoalsKept, ReportsKept

\* Steps next to the executor.
LEMMA AsideKeepsInv ==
    ASSUME Inv, GoalsKept,
           UNCHANGED <<api, thread, active_run, reports, handle, waypoint, status, completed>>,
           stop_event' \in BOOLEAN,
           proc' \in {"up", "interrupted", "gone"}, proc' = "up" => proc = "up"
    PROVE  Inv'
<1>1. RosTypeOK'
  BY DEF Inv, RosTypeOK, GoalsKept, GoalsGrow
<1>2. Starting' /\ RunOpen'
  BY DEF Inv, Starting, RunOpen
<1>3. Place'
  <2>1. Len(goals) # 0 => Len(goals) \in DOMAIN goals
    BY DEF Inv, RosTypeOK
  <2> QED BY <2>1 DEF Inv, Place, GoalsKept, GoalsGrow
<1>4. ReportsKept
  BY SameReports DEF Inv, RosTypeOK
<1>5. HandedOver
  BY DEF HandedOver
<1> QED BY <1>1, <1>2, <1>3, <1>4, <1>5, StepKeepsInv

LEMMA InvStartCheck == ASSUME Inv, StartCheck PROVE Inv'
<1> USE DEF StartCheck, threadOnly
<1>1. RosTypeOK'
  BY DEF Inv, RosTypeOK
<1>2. Starting' /\ Place' /\ RunOpen' /\ HandedOver
  BY DEF Inv, Starting, Place, RunOpen, HandedOver, InMission, Live, Driving
<1>3. GoalsKept /\ ReportsKept
  BY SameGoals, SameReports DEF Inv, RosTypeOK
<1> QED BY <1>1, <1>2, <1>3, StepKeepsInv

LEMMA InvAside ==
    ASSUME Inv, CancelMission \/ Interrupt \/ Exit \/ CancelWhileWaiting \/ Nav2 \/ UNCHANGED vars
    PROVE  Inv'
<1> USE DEF server
<1>1. CASE UNCHANGED vars
  BY <1>1, SameGoals, AsideKeepsInv DEF vars, Inv, RosTypeOK
<1>2. CASE CancelMission
  BY <1>2, CancelledGoals, AsideKeepsInv DEF CancelMission, Inv, RosTypeOK
<1>3. CASE Interrupt
  <2>1. GoalsKept
    BY <1>3, CancelledGoals, SameGoals DEF Interrupt, Inv, RosTypeOK
  <2>2. stop_event' \in BOOLEAN
    BY <1>3, Zenon DEF Interrupt
  <2> QED BY <1>3, <2>1, <2>2, AsideKeepsInv DEF Interrupt
<1>4. CASE Exit
  BY <1>4, SameGoals, AsideKeepsInv DEF Exit, threadOnly, Inv, RosTypeOK
<1>5. CASE CancelWhileWaiting
  BY <1>5, CancelledGoals, AsideKeepsInv DEF CancelWhileWaiting, unmoved, Inv, RosTypeOK
<1>6. CASE Nav2
  <2>1. PICK g \in GoalIds : NavAnswer(g) \/ NavEnds(g) \/ NavCancels(g)
    BY <1>6 DEF Nav2
  <2>2. PICK from \in {{"sent"}, Driving, {"canceling"}},
             to \in {"active", "rejected", "succeeded", "missed", "aborted", "canceled"} :
             NavStep(g, from, to) /\ (to = "active" => from = {"sent"})
    BY <2>1 DEF NavAnswer, NavEnds, NavCancels
  <2>3. GoalsKept
    BY <2>2, ChangedGoal DEF NavStep, Inv, RosTypeOK, Live, Driving, Ended
  <2> QED BY <2>2, <2>3, AsideKeepsInv DEF NavStep, Inv, RosTypeOK
<1> QED BY <1>1, <1>2, <1>3, <1>4, <1>5, <1>6

\* The executor goes on to its next point.
LEMMA InvGoesOn == ASSUME Inv, Begin \/ NextWaypoint \/ UpdateStatus \/ Finally PROVE Inv'
<1> USE DEF Begin, NextWaypoint, UpdateStatus, Finally, At, unmoved
<1>1. GoalsKept /\ ReportsKept
  BY SameGoals, SameReports DEF Inv, RosTypeOK
<1>2. RosTypeOK'
  BY DEF Inv, RosTypeOK, Terminal
<1>3. Starting' /\ HandedOver
  BY DEF Inv, Starting, HandedOver, Terminal
<1>4. Place'
  BY RosMissionAssumption DEF Inv, RosTypeOK, Place, InMission, Terminal
<1>5. RunOpen' /\ (thread' \in InMission => thread \in InMission)
  BY DEF Inv, RunOpen, InMission, Terminal
<1> QED BY <1>1, <1>2, <1>3, <1>4, <1>5, StepKeepsInv

LEMMA InvAnswer == ASSUME Inv, Accepted \/ ResultInterrupted PROVE Inv'
<1> USE DEF Accepted, ResultInterrupted, At, unmoved
<1>1. GoalsKept /\ ReportsKept
  BY SameGoals, SameReports DEF Inv, RosTypeOK
<1>2. RosTypeOK'
  BY DEF Inv, RosTypeOK, current
<1>3. Starting'
  BY DEF Inv, Starting
<1>4. HandedOver
  BY DEF HandedOver, Live, Driving, current
<1>5. Place'
  BY DEF Inv, Place, InMission, Terminal, current
<1>6. RunOpen' /\ (thread' \in InMission => thread \in InMission)
  BY DEF Inv, RunOpen, InMission
<1> QED BY <1>1, <1>2, <1>3, <1>4, <1>5, <1>6, StepKeepsInv

\* Nobody waits for the goal any more, and it is marked as given up.
LEMMA InvAcceptanceTimeout == ASSUME Inv, AcceptanceTimeout PROVE Inv'
<1> USE DEF AcceptanceTimeout, At, unmoved
<1> DEFINE last == Len(goals)
           new == [goals[last] EXCEPT !.late = TRUE]
<1>1. last \in DOMAIN goals /\ goals[last] \in Goal
  BY DEF Inv, RosTypeOK, Place
<1>2. goals' = [goals EXCEPT ![last] = new]
  BY DEF current
<1>3. /\ new \in Goal /\ new.late = TRUE
      /\ \A f \in {"run", "waypoint", "is"} : new[f] = goals[last][f]
  BY <1>1 DEF Goal
<1> HIDE DEF new, AcceptanceTimeout
<1>4. /\ goals \in Seq(Goal) /\ Len(goals) \in Nat
      /\ goals' \in Seq(Goal) /\ Len(goals') = Len(goals)
  BY <1>1, <1>2, <1>3 DEF Inv, RosTypeOK
<1>5. GoalsKept /\ goals'[Len(goals)].late = TRUE
  <2>1. ASSUME NEW g \in DOMAIN goals
        PROVE  /\ goals'[g].run = goals[g].run /\ goals'[g].waypoint = goals[g].waypoint
               /\ goals'[g].is = goals[g].is
               /\ goals[g].late = TRUE => goals'[g].late = TRUE
    BY <1>1, <1>2, <1>3
  <2>2. goals'[last].late = TRUE
    BY <1>1, <1>2, <1>3
  <2>3. Len(goals) <= Len(goals')
    BY <1>4
  <2>4. GoalsGrow
    BY <1>4, <2>1, <2>3, Zenon DEF GoalsGrow
  <2>5. GoalsKept
    BY <1>4, <2>1, <2>4 DEF GoalsKept
  <2> QED BY <2>2, <2>5
<1> USE DEF AcceptanceTimeout
<1>6. ReportsKept
  BY SameReports DEF Inv, RosTypeOK
<1>7. RosTypeOK'
  BY <1>4 DEF Inv, RosTypeOK
<1>8. Starting' /\ Place' /\ HandedOver
  BY <1>5 DEF Inv, Starting, Place, HandedOver, InMission, Terminal
<1>9. RunOpen' /\ (thread' \in InMission => thread \in InMission)
  BY DEF Inv, RunOpen, InMission
<1> QED BY <1>5, <1>6, <1>7, <1>8, <1>9, StepKeepsInv

LEMMA RaisesBoolean == Raises \subseteq BOOLEAN
BY RosMissionAssumption DEF Raises

LEMMA InvNavResult == ASSUME Inv, NavResult PROVE Inv'
<1> USE DEF NavResult, At, unmoved, current
<1>1. PICK raised \in Raises :
         /\ Torn(raised)
         /\ thread' \in {"abort", "capture", "fail"}
         /\ thread' = "capture" => goals[Len(goals)].is = "succeeded"
  OBVIOUS
<1>2. active_run # 0
  BY DEF Inv, Place, InMission
<1>3. GoalsKept /\ ReportsKept
  BY <1>1, <1>2, SameGoals, TornReports, RaisesBoolean DEF Inv, RosTypeOK
<1>4. RosTypeOK'
  BY <1>1, <1>3 DEF Inv, RosTypeOK, ReportsKept, ReportsGrow
<1>5. Starting' /\ RunOpen' /\ (thread' \in InMission => thread \in InMission)
  BY <1>1, <1>3 DEF Inv, Starting, RunOpen, InMission, ReportsKept
<1>6. HandedOver
  BY DEF HandedOver, Live, Driving, Ended
<1>7. Place'
  BY <1>1, <1>2 DEF Inv, Place, InMission
<1> QED BY <1>3, <1>4, <1>5, <1>6, <1>7, StepKeepsInv

LEMMA InvDispatch == ASSUME Inv, Dispatch PROVE Inv'
<1> USE DEF Dispatch, At, unmoved
<1> DEFINE new == [run |-> active_run, waypoint |-> waypoint, is |-> "sent", late |-> FALSE]
<1>1. PICK raised \in Raises :
         /\ Torn(raised)
         /\ \/ thread' = "fail" /\ UNCHANGED goals
            \/ thread' = "acceptance" /\ goals' = Append(goals, new)
  OBVIOUS
<1>2. active_run # 0 /\ handle = 0 /\ thread \in InMission /\ waypoint <= NumWaypoints
  BY DEF Inv, Place, InMission, Terminal
<1>3. ReportsKept
  BY <1>1, <1>2, TornReports, RaisesBoolean DEF Inv
<1>4. Starting' /\ RunOpen'
  BY <1>1, <1>3 DEF Inv, Starting, RunOpen, InMission, ReportsKept
<1>5. CASE thread' = "fail" /\ UNCHANGED goals
  <2>1. GoalsKept
    BY <1>5, SameGoals DEF Inv, RosTypeOK
  <2>2. RosTypeOK'
    BY <1>3, <1>5 DEF Inv, RosTypeOK, ReportsKept, ReportsGrow
  <2>3. Place' /\ HandedOver
    BY <1>2, <1>5 DEF Place, HandedOver, InMission
  <2> QED BY <1>2, <1>3, <1>4, <2>1, <2>2, <2>3, StepKeepsInv
<1>6. CASE thread' = "acceptance" /\ goals' = Append(goals, new)
  <2>1. new \in Goal
    BY <1>2, RosMissionAssumption DEF Goal, Inv, RosTypeOK, Starting
  <2> HIDE DEF new
  <2>2. /\ goals' \in Seq(Goal) /\ Len(goals') = Len(goals) + 1 /\ goals'[Len(goals')] = new
        /\ \A g \in DOMAIN goals : g \in DOMAIN goals' /\ goals'[g] = goals[g]
        /\ \A g \in DOMAIN goals' : g \in DOMAIN goals \/ g = Len(goals')
        /\ Len(goals) \in Nat
    BY <1>6, <2>1 DEF Inv, RosTypeOK
  <2>3. GoalsGrow
    BY <2>2 DEF GoalsGrow
  <2>4. RosTypeOK'
    BY <1>2, <1>3, <1>6, <2>2 DEF Inv, RosTypeOK, ReportsKept, ReportsGrow
  <2>5. Place'
    BY <1>2, <1>6, <2>2 DEF new, Place, InMission
  <2>6. Supervised'
    BY <1>6, <2>2 DEF Inv, Supervised
  <2> QED BY <1>2, <1>3, <1>4, <2>3, <2>4, <2>5, <2>6, ReportsStayTrue, ProgressKept
         DEF Inv, ReportsKept
<1> QED BY <1>1, <1>5, <1>6

\* The report of the open run is replaced by another.
LEMMA ReportReplaced ==
    ASSUME reports \in Seq(Report), NEW r \in DOMAIN reports, NEW new \in Report,
           reports' = [reports EXCEPT ![r] = new]
    PROVE  /\ reports' \in Seq(Report) /\ Len(reports') = Len(reports) /\ Len(reports) \in Nat
           /\ reports'[r] = new /\ \A s \in DOMAIN reports \ {r} : reports'[s] = reports[s]
OBVIOUS

\* The checkpoint of the waypoint is what was missing to have reached it.
LEMMA InvCapture == ASSUME Inv, Capture PROVE Inv'
<1> USE DEF Capture, At, unmoved
<1>1. /\ active_run # 0 /\ active_run \in DOMAIN reports /\ reports[active_run] \in Report
      /\ thread \in InMission /\ waypoint \in 1..NumWaypoints /\ handle = 0
  BY RosMissionAssumption DEF Inv, Place, InMission, RosTypeOK, Terminal
<1>2. GoalsKept /\ HandedOver
  BY SameGoals DEF Inv, RosTypeOK, HandedOver
<1>3. CASE thread' = "fail" /\ UNCHANGED <<reports, waypoint, completed>>
  <2>1. ReportsKept
    BY <1>3, SameReports DEF Inv, RosTypeOK
  <2>2. RosTypeOK' /\ Starting' /\ Place' /\ RunOpen'
    BY <1>1, <1>3 DEF Inv, RosTypeOK, Starting, Place, RunOpen, InMission
  <2> QED BY <1>1, <1>2, <1>3, <2>1, <2>2, StepKeepsInv
<1>4. ASSUME NEW raised \in Raises,
             reports' = [reports EXCEPT ![active_run].checkpoints = @ \cup {waypoint},
                                        ![active_run].torn = @ \/ raised],
             IF raised
                THEN thread' = "fail" /\ UNCHANGED <<waypoint, completed>>
                ELSE thread' = "top" /\ completed' = waypoint /\ waypoint' = waypoint + 1
      PROVE  Inv'
  <2> DEFINE old == reports[active_run]
             torn == old.torn \/ raised
             new == [old EXCEPT !.checkpoints = @ \cup {waypoint}, !.torn = torn]
  <2>1. reports' = [reports EXCEPT ![active_run] = new]
    BY <1>4
  <2>2. torn \in BOOLEAN /\ (old.torn = TRUE => torn = TRUE)
    BY Zenon
  <2> HIDE DEF torn
  <2>3. /\ new \in Report /\ new.status = old.status /\ new.torn = torn
        /\ new.checkpoints = old.checkpoints \cup {waypoint}
    BY <1>1, <2>2 DEF Report
  <2> HIDE DEF new, Capture
  <2>4. /\ reports' \in Seq(Report) /\ Len(reports') = Len(reports) /\ Len(reports) \in Nat
        /\ reports'[active_run] = new
        /\ \A s \in DOMAIN reports \ {active_run} : reports'[s] = reports[s]
    BY <1>1, <2>1, <2>3, ReportReplaced DEF Inv, RosTypeOK
  <2>5. ReportsKept
    BY <2>2, <2>3, <2>4 DEF ReportsKept, ReportsGrow
  <2>6. CASE raised
    <3>1. thread' = "fail" /\ UNCHANGED <<waypoint, completed>>
      BY <1>4, <2>6
    <3>2. RosTypeOK' /\ Starting' /\ Place' /\ RunOpen'
      BY <1>1, <2>4, <3>1 DEF Capture, Inv, RosTypeOK, Starting, Place, RunOpen, InMission
    <3>3. UNCHANGED <<active_run, waypoint>>
      BY <3>1 DEF Capture
    <3> QED BY <1>1, <1>2, <2>5, <3>1, <3>2, <3>3, StepKeepsInv
  <2>7. CASE ~raised
    <3>1. thread' = "top" /\ completed' = waypoint /\ waypoint' = waypoint + 1
      BY <1>4, <2>7
    <3>2. RosTypeOK'
      <4>1. UNCHANGED <<proc, api, stop_event, active_run, handle, status, goals>>
        BY DEF Capture
      <4>2. waypoint' \in 1..NumWaypoints + 1 /\ completed' \in 0..NumWaypoints
        BY <1>1, <3>1, RosMissionAssumption
      <4> QED BY <2>4, <3>1, <4>1, <4>2 DEF Inv, RosTypeOK
    <3>3. Starting' /\ Place' /\ RunOpen'
      BY <1>1, <2>4, <3>1 DEF Capture, Inv, Starting, Place, RunOpen, InMission, Terminal
    <3>4. Progress'
      <4> SUFFICES ASSUME NEW w \in 1..NumWaypoints, w < waypoint + 1
                   PROVE  Reached(active_run, w)'
        BY <3>1 DEF Progress
      <4>1. CASE w = waypoint
        <5>1. Len(goals) \in DOMAIN goals /\ goals[Len(goals)].run = active_run
              /\ goals[Len(goals)].waypoint = w /\ goals[Len(goals)].is = "succeeded"
          BY <4>1 DEF Capture, Inv, RosTypeOK, Place
        <5>2. w \in reports'[active_run].checkpoints
          BY <2>3, <2>4, <4>1
        <5>3. goals' = goals /\ active_run' = active_run
          BY DEF Capture
        <5> QED BY <5>1, <5>2, <5>3 DEF Reached
      <4>2. CASE w < waypoint
        <5>1. Reached(active_run, w)
          BY <1>1, <4>2 DEF Inv, Progress
        <5>2. Reached(active_run, w)' /\ UNCHANGED active_run
          BY <1>1, <1>2, <2>5, <5>1, ReachedGrows DEF Inv, GoalsKept, ReportsKept, Capture
        <5> QED BY <5>2
      <4> QED BY <1>1, <4>1, <4>2
    <3> QED BY <1>2, <2>5, <3>2, <3>3, <3>4, SupervisedKept, ReportsStayTrue DEF Inv, GoalsKept
  <2> QED BY <2>6, <2>7
<1> QED BY <1>3, <1>4

\* A report that is closed says COMPLETED only where the loop had ended.
LEMMA InvFinish == ASSUME Inv, Finish PROVE Inv'
<1>1. PICK s \in Terminal, onRaise \in {"fail", "finally"} :
         /\ Finalize(s, onRaise)
         /\ s = "COMPLETED" => thread = "complete"
  <2>1. \/ thread = "complete" /\ Finalize("COMPLETED", "fail")
        \/ Finalize("ABORTED", "finally")
        \/ Finalize("FAILED", "finally")
    BY DEF Finish, Complete, Abort, Fail, At
  <2> QED BY <2>1 DEF Terminal
<1>2. PICK raised \in Raises :
         /\ reports' = [reports EXCEPT ![active_run].status = IF raised THEN @ ELSE s,
                                       ![active_run].torn = @ \/ raised]
         /\ active_run' = IF raised THEN active_run ELSE 0
         /\ thread' = IF raised THEN onRaise ELSE s
  BY <1>1 DEF Finalize
<1>3. /\ thread \in InMission \ {"acceptance", "result"}
      /\ UNCHANGED <<proc, api, stop_event, handle, waypoint, status, completed, goals>>
  BY DEF Finish, Complete, Abort, Fail, At, InMission, unmoved
<1>4. active_run # 0 /\ active_run \in DOMAIN reports /\ reports[active_run] \in Report
  BY <1>3 DEF Inv, Place, RosTypeOK
<1> DEFINE old == reports[active_run]
           torn == old.torn \/ raised
           closed == IF raised THEN old.status ELSE s
           new == [old EXCEPT !.status = closed, !.torn = torn]
<1>5. reports' = [reports EXCEPT ![active_run] = new]
  BY <1>2
<1>6. torn \in BOOLEAN /\ (old.torn = TRUE \/ raised => torn = TRUE)
  BY Zenon
<1> HIDE DEF torn
<1>7. /\ new \in Report /\ new.status = closed /\ new.torn = torn
      /\ new.checkpoints = old.checkpoints
  BY <1>4, <1>6 DEF Report
<1> HIDE DEF new
<1>8. /\ reports' \in Seq(Report) /\ Len(reports') = Len(reports) /\ Len(reports) \in Nat
      /\ reports'[active_run] = new
      /\ \A r \in DOMAIN reports \ {active_run} : reports'[r] = reports[r]
  BY <1>4, <1>5, <1>7, ReportReplaced DEF Inv, RosTypeOK
<1>9. ReportsGrow
  BY <1>6, <1>7, <1>8 DEF ReportsGrow
<1>10. GoalsKept /\ HandedOver
  BY <1>3, SameGoals DEF Inv, RosTypeOK, HandedOver
<1>11. Supervised'
  BY <1>10, SupervisedKept
<1>12. CASE raised
  <2>1. UNCHANGED active_run /\ thread' \in {"fail", "finally"}
    BY <1>2, <1>12
  <2>2. ReportsKept
    BY <1>7, <1>8, <1>9, <1>12 DEF ReportsKept
  <2>3. RosTypeOK'
    BY <1>3, <1>8, <2>1 DEF Inv, RosTypeOK
  <2>4. Starting' /\ Place' /\ RunOpen'
    BY <1>3, <1>4, <1>6, <1>7, <1>8, <1>12, <2>1
       DEF Inv, Starting, Place, RunOpen, InMission, Terminal
  <2> QED BY <1>3, <1>10, <2>1, <2>2, <2>3, <2>4, StepKeepsInv
<1>13. CASE ~raised
  <2>1. active_run' = 0 /\ thread' = s /\ s \notin InMission /\ s # "none" /\ closed = s
    BY <1>2, <1>13 DEF Terminal, InMission
  <2>2. RosTypeOK'
    BY <1>3, <1>8, <2>1 DEF Inv, RosTypeOK
  <2>3. Starting'
    BY <1>3, <1>8, <2>1 DEF Inv, Starting, InMission
  <2>4. Place'
    BY <1>3, <2>1 DEF Inv, Place, InMission, Terminal
  <2>5. RunOpen' /\ Progress'
    BY <2>1 DEF RunOpen, Progress
  <2>6. Reports'
    <3> SUFFICES ASSUME NEW r \in DOMAIN reports', reports'[r].status = "COMPLETED",
                        NEW w \in 1..NumWaypoints
                 PROVE  Reached(r, w)'
      BY DEF Reports
    <3>1. r \in DOMAIN reports
      BY <1>8 DEF Inv, RosTypeOK
    <3>2. CASE r = active_run
      <4>1. thread = "complete" /\ waypoint = NumWaypoints + 1
        BY <1>1, <1>7, <1>8, <2>1, <3>2 DEF Inv, Place
      <4>2. Reached(r, w)
        BY <1>3, <3>2, <4>1, RosMissionAssumption DEF Inv, Progress
      <4> QED BY <1>9, <1>10, <3>1, <4>2, ReachedGrows DEF Inv, GoalsKept
    <3>3. CASE r # active_run
      <4>1. Reached(r, w)
        BY <1>8, <3>1, <3>3 DEF Inv, Reports
      <4> QED BY <1>9, <1>10, <3>1, <4>1, ReachedGrows DEF Inv, GoalsKept
    <3> QED BY <3>2, <3>3
  <2> QED BY <1>11, <2>2, <2>3, <2>4, <2>5, <2>6 DEF Inv
<1> QED BY <1>12, <1>13

LEMMA InvStartRun == ASSUME Inv, StartRun PROVE Inv'
<1> USE DEF StartRun, threadOnly
<1>1. thread = "none" /\ thread \notin InMission
  BY DEF Inv, Starting, InMission
<1>2. GoalsKept /\ HandedOver
  BY SameGoals DEF Inv, RosTypeOK, HandedOver
<1>3. CASE api' = "idle" /\ UNCHANGED <<active_run, reports>>
  <2>1. ReportsKept
    BY <1>3, SameReports DEF Inv, RosTypeOK
  <2>2. RosTypeOK' /\ Starting' /\ Place' /\ RunOpen'
    BY <1>1, <1>3 DEF Inv, RosTypeOK, Starting, Place, RunOpen
  <2> QED BY <1>2, <1>3, <2>1, <2>2, StepKeepsInv
<1>4. ASSUME NEW raised \in Raises,
             active_run = 0, active_run' = Len(reports) + 1,
             reports' = Append(reports, [status |-> "STARTING", checkpoints |-> {}, torn |-> raised]),
             api' = IF raised THEN "idle" ELSE "launch"
      PROVE  Inv'
  <2> DEFINE new == [status |-> "STARTING", checkpoints |-> {}, torn |-> raised]
  <2>1. new \in Report /\ new.status = "STARTING" /\ new.torn = raised
    BY RaisesBoolean DEF Report
  <2>2. reports' = Append(reports, new)
    BY <1>4
  <2> HIDE DEF new, StartRun
  <2>3. /\ reports' \in Seq(Report) /\ Len(reports) \in Nat /\ Len(reports') = Len(reports) + 1
        /\ reports'[Len(reports')] = new
        /\ \A r \in DOMAIN reports : reports'[r] = reports[r]
        /\ \A r \in DOMAIN reports' : r \in DOMAIN reports \/ r = Len(reports')
    BY <2>1, <2>2 DEF Inv, RosTypeOK
  <2>4. ReportsGrow
    BY <2>3 DEF ReportsGrow
  <2>5. UNCHANGED <<proc, thread, stop_event, handle, waypoint, status, completed, goals>>
    BY DEF StartRun
  <2>6. RosTypeOK'
    BY <1>4, <2>3, <2>5 DEF Inv, RosTypeOK
  <2>7. api = "servers" /\ Starting'
    BY <1>1, <1>4, <2>3, <2>5, RosMissionAssumption DEF StartRun, Inv, Starting
  <2>8. Place' /\ Progress' /\ RunOpen'
    BY <1>1, <1>4, <2>1, <2>3, <2>5 DEF Inv, Place, Progress, RunOpen
  <2>9. Reports'
    <3> SUFFICES ASSUME NEW r \in DOMAIN reports', reports'[r].status = "COMPLETED",
                        NEW w \in 1..NumWaypoints
                 PROVE  Reached(r, w)'
      BY DEF Reports
    <3>1. r \in DOMAIN reports /\ reports[r].status = "COMPLETED"
      BY <2>1, <2>3
    <3> QED BY <1>2, <2>4, <3>1, ReachedGrows DEF Inv, Reports, GoalsKept
  <2> QED BY <1>2, <2>6, <2>7, <2>8, <2>9, SupervisedKept DEF Inv
<1> QED BY <1>3, <1>4

LEMMA InvStartLaunch == ASSUME Inv, StartLaunch PROVE Inv'
<1> USE DEF StartLaunch
<1>1. thread = "none" /\ active_run # 0
  BY DEF Inv, Starting
<1>2. GoalsKept /\ ReportsKept /\ HandedOver
  BY <1>1, SameGoals, SameReports DEF Inv, RosTypeOK, HandedOver
<1>3. RosTypeOK'
  <2>1. waypoint' \in 1..NumWaypoints + 1 /\ completed' \in 0..NumWaypoints
    BY RosMissionAssumption
  <2> QED BY <2>1 DEF Inv, RosTypeOK
<1>4. Starting' /\ Place' /\ Progress' /\ RunOpen'
  BY <1>1 DEF Inv, Starting, Place, Progress, RunOpen, InMission, Terminal
<1> QED BY <1>2, <1>3, <1>4, SupervisedKept, ReportsStayTrue DEF Inv, GoalsKept

LEMMA InvNext == ASSUME Inv, [Next]_vars PROVE Inv'
BY InvStartCheck, InvStartRun, InvStartLaunch, InvAside, InvGoesOn, InvAnswer,
   InvAcceptanceTimeout, InvNavResult, InvDispatch, InvCapture, InvFinish
   DEF Next, Service, Executor

LEMMA SpecInv == Spec => []Inv
BY InvInit, InvNext, PTL DEF Spec

-----------------------------------------------------------------------------
(* Theorems                                                                 *)

\* Every variable of the executor keeps its type; an open run is the last one,
\* and a handle is that of the last goal.
THEOREM RosTypeCorrect == Spec => []RosTypeOK
<1>1. Inv => RosTypeOK
  BY DEF Inv
<1> QED BY <1>1, SpecInv, PTL

\* A report that says COMPLETED is of a run in which Nav2 reached every waypoint
\* and a checkpoint of each was saved (_run_mission, finalize_run).
THEOREM CompletedReportIsTrueCorrect == Spec => []CompletedReportIsTrue
<1>1. ASSUME Inv PROVE CompletedReportIsTrue
  <2> SUFFICES ASSUME NEW r \in DOMAIN reports, reports[r].status = "COMPLETED"
               PROVE  /\ reports[r].checkpoints = 1..NumWaypoints
                      /\ \A w \in 1..NumWaypoints :
                            \E g \in DOMAIN goals :
                               goals[g].run = r /\ goals[g].waypoint = w /\ goals[g].is = "succeeded"
    BY DEF CompletedReportIsTrue
  <2>1. \A w \in 1..NumWaypoints : Reached(r, w)
    BY <1>1 DEF Inv, Reports
  <2>2. reports[r].checkpoints \subseteq 1..NumWaypoints
    <3>1. reports[r] \in Report
      BY <1>1 DEF Inv, RosTypeOK
    <3> QED BY <3>1 DEF Report
  <2> QED BY <2>1, <2>2 DEF Reached
<1> QED BY <1>1, SpecInv, PTL

\* While the process is up, only the goal that is waited for drives the robot,
\* and the executor holds the handle to cancel it by once it has the answer,
\* unless it was accepted after the wait for its acceptance had timed out.
THEOREM DrivingIsSupervisedCorrect == Spec => []DrivingIsSupervised
<1>1. Inv => DrivingIsSupervised
  BY DEF Inv, Place, Supervised, DrivingIsSupervised, Live, current
<1> QED BY <1>1, SpecInv, PTL

\* A run that nobody executes is open only when one of its writes failed, so
\* that without failing writes every mission lets the next one start.
THEOREM OpenRunHasExecutorCorrect == Spec => []OpenRunHasExecutor
<1>1. Inv => OpenRunHasExecutor
  BY DEF Inv, RunOpen, OpenRunHasExecutor, InMission
<1> QED BY <1>1, SpecInv, PTL
=============================================================================
