--------------------------- MODULE MotionRampProofs ---------------------------
(***************************************************************************)
(* The limits and the smoothness of the ramp, for every configuration of   *)
(* limits, minimum speed and accelerations.                                *)
(***************************************************************************)
EXTENDS MotionRamp, MotionProfileProofs

\* The command sent is never slower than the ramp it was computed from: this
\* is what bounds the next command by the last one.
RampInv == RampTypeOK /\ Abs(axis) <= Abs(sent)

LEMMA RampInvInit == RampInit => RampInv
BY ProfileAssumption DEF RampInit, RampInv, RampTypeOK, Speed, Abs

LEMMA RampInvStep == RampInv /\ [RampNext]_rampVars => RampInv'
<1> SUFFICES ASSUME RampInv, [RampNext]_rampVars
             PROVE  RampInv'
  OBVIOUS
<1>1. CASE Retarget
  <2>1. PICK request \in -(MaxV + 1) .. MaxV + 1 : want' = Clamp(request)
    BY <1>1 DEF Retarget
  <2>2. want' \in Speed
    BY <2>1, ClampInSpeed
  <2> QED BY <1>1, <2>2 DEF Retarget, RampInv, RampTypeOK
<1>2. CASE Tick
  <2>1. axis' \in Speed
    BY <1>2, StepTowardsInSpeed DEF Tick, RampInv, RampTypeOK
  <2>2. sent' \in Speed /\ Abs(axis') <= Abs(sent')
    BY <1>2, <2>1, EffectiveAxisInSpeed DEF Tick, RampInv, RampTypeOK
  <2> QED BY <1>2, <2>1, <2>2 DEF Tick, RampInv, RampTypeOK
<1>3. CASE UNCHANGED rampVars
  BY <1>3 DEF rampVars, RampInv, RampTypeOK
<1> QED BY <1>1, <1>2, <1>3 DEF RampNext

\* Every velocity of the loop stays within the configured limit.
THEOREM RampTypeCorrect == RampSpec => []RampTypeOK
<1>1. RampInv => RampTypeOK
  BY DEF RampInv
<1> QED BY RampInvInit, RampInvStep, <1>1, PTL DEF RampSpec

\* The speed of the command rises by at most one acceleration step per tick,
\* or to the minimum effective speed.
THEOREM SpeedRampsUpCorrect == RampSpec => SpeedRampsUp
<1>1. RampInv /\ [RampNext]_rampVars => [Abs(sent') <= Greatest(Abs(sent) + Accel, MinV)]_rampVars
  <2> SUFFICES ASSUME RampInv, RampNext
               PROVE  Abs(sent') <= Greatest(Abs(sent) + Accel, MinV)
    OBVIOUS
  <2>1. axis \in Int /\ want \in Int /\ sent \in Int /\ Abs(axis) <= Abs(sent)
    BY ProfileAssumption DEF RampInv, RampTypeOK, Speed
  <2>2. CASE Retarget
    BY <2>1, <2>2, ProfileAssumption DEF Retarget, Greatest, Abs
  <2>3. CASE Tick
    <3>1. axis' \in Speed /\ want \in Speed
      BY <2>3, StepTowardsInSpeed DEF Tick, RampInv, RampTypeOK
    <3>2. Abs(axis') <= Abs(axis) + Accel
      BY <2>1, <2>3, StepTowardsSpeedsUp DEF Tick
    <3>3. sent' \in Speed /\ Abs(sent') <= Greatest(Abs(axis'), MinV)
      BY <2>3, <3>1, EffectiveAxisInSpeed DEF Tick
    <3>4. axis' \in Int /\ sent' \in Int
      BY <3>1, <3>3, ProfileAssumption DEF Speed
    <3>5. ASSUME NEW a \in Int, NEW b \in Int, NEW s \in Int, NEW t \in Int,
                 Abs(a) <= Abs(s), Abs(b) <= Abs(a) + Accel, Abs(t) <= Greatest(Abs(b), MinV)
          PROVE  Abs(t) <= Greatest(Abs(s) + Accel, MinV)
      BY <3>5, ProfileAssumption DEF Greatest, Abs
    <3> QED BY <2>1, <3>2, <3>3, <3>4, <3>5
  <2> QED BY <2>2, <2>3 DEF RampNext
<1> QED BY RampInvInit, RampInvStep, <1>1, PTL DEF RampSpec, SpeedRampsUp

\* No tick sends a command against the direction that is asked for.
THEOREM NeverAgainstTargetCorrect == RampSpec => NeverAgainstTarget
<1>1. RampInv /\ [RampNext]_rampVars => [sent' # sent => sent' * want' >= 0]_rampVars
  <2> SUFFICES ASSUME RampInv, RampNext, sent' # sent
               PROVE  sent' * want' >= 0
    OBVIOUS
  <2>1. Tick
    BY DEF RampNext, Retarget
  <2>2. axis' \in Speed /\ want \in Speed /\ want' = want
    BY <2>1, StepTowardsInSpeed DEF Tick, RampInv, RampTypeOK
  <2>3. /\ sent' \in Speed
        /\ want >= 0 => sent' >= 0 \/ want = 0
        /\ want <= 0 => sent' <= 0 \/ want = 0
    BY <2>1, <2>2, EffectiveAxisInSpeed DEF Tick
  <2>4. ASSUME NEW s \in Int, NEW w \in Int, (s >= 0 /\ w >= 0) \/ (s <= 0 /\ w <= 0) \/ w = 0
        PROVE  s * w >= 0
    BY <2>4
  <2>5. sent' \in Int /\ want \in Int
    BY <2>2, <2>3, ProfileAssumption DEF Speed
  <2>6. (sent' >= 0 /\ want >= 0) \/ (sent' <= 0 /\ want <= 0) \/ want = 0
    BY <2>3, <2>5
  <2> QED BY <2>2, <2>4, <2>5, <2>6
<1> QED BY RampInvInit, RampInvStep, <1>1, PTL DEF RampSpec, NeverAgainstTarget

\* A tick comes nearer to a target the ramp has not reached, and settles on one it
\* has.
RampApproaches ==
    [][Tick => IF axis = want THEN Settled(want)'
               ELSE Abs(want - axis') < Abs(want - axis)]_rampVars

\* Why RampSettles is true for every configuration: the distance to a target that
\* stays put is a natural number that every tick decreases, and at zero the command
\* has the direction of the target.  Only the induction over it is left to TLC.
THEOREM RampApproachesCorrect == RampSpec => RampApproaches
<1>1. RampInv /\ [RampNext]_rampVars =>
          [Tick => IF axis = want THEN Settled(want)'
                   ELSE Abs(want - axis') < Abs(want - axis)]_rampVars
  <2> SUFFICES ASSUME RampInv, Tick
               PROVE  IF axis = want THEN Settled(want)'
                      ELSE Abs(want - axis') < Abs(want - axis)
    OBVIOUS
  <2>1. axis \in Int /\ want \in Int /\ want' = want /\ axis' = StepTowards(axis, want)
    BY ProfileAssumption DEF RampInv, RampTypeOK, Speed, Tick
  <2>2. CASE axis # want
    BY <2>1, <2>2, StepTowardsApproaches
  <2>3. CASE axis = want
    <3>1. axis' = want /\ want \in Speed
      BY <2>1, <2>3, StepTowardsApproaches DEF RampInv, RampTypeOK
    <3>2. /\ sent' \in Speed /\ Abs(want) <= Abs(sent')
          /\ want >= 0 => sent' >= 0 \/ want = 0
          /\ want <= 0 => sent' <= 0 \/ want = 0
      BY <3>1, EffectiveAxisInSpeed DEF Tick
    <3>3. sent' \in Int /\ (want = 0 => sent' = 0)
      BY <3>1, <3>2, ProfileAssumption DEF Speed, Tick, EffectiveAxis
    <3>4. (sent' = 0) = (want = 0)
      <4>1. sent' = 0 => want = 0
        BY <2>1, <3>2 DEF Abs
      <4> QED BY <3>3, <4>1
    <3>5. sent' * want >= 0
      <4>1. ASSUME NEW s \in Int, NEW w \in Int,
                   (s >= 0 /\ w >= 0) \/ (s <= 0 /\ w <= 0) \/ w = 0
            PROVE  s * w >= 0
        BY <4>1
      <4>2. (sent' >= 0 /\ want >= 0) \/ (sent' <= 0 /\ want <= 0) \/ want = 0
        BY <2>1, <3>2, <3>3
      <4> QED BY <2>1, <3>3, <4>1, <4>2
    <3> QED BY <2>1, <2>3, <3>1, <3>4, <3>5 DEF Settled
  <2> QED BY <2>2, <2>3
<1> QED BY RampInvInit, RampInvStep, <1>1, PTL DEF RampSpec, RampApproaches
=============================================================================
