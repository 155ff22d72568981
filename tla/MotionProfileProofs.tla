-------------------------- MODULE MotionProfileProofs --------------------------
(***************************************************************************)
(* Facts about the functions of MotionProfile that the proofs about the    *)
(* ramp and about ControlCore rest on.                                     *)
(***************************************************************************)
EXTENDS MotionProfile, TLAPS

USE ProfileAssumption

\* _clamp brings any request within the limit, and leaves one that is within it.
LEMMA ClampInSpeed ==
    ASSUME NEW x \in Int
    PROVE  Clamp(x) \in Speed /\ (x \in Speed => Clamp(x) = x)
BY DEF Clamp, Speed, Greatest, Least

\* _step_towards stays between the current velocity and the target.
LEMMA StepTowardsBetween ==
    ASSUME NEW current \in Int, NEW target \in Int
    PROVE  /\ StepTowards(current, target) \in Int
           /\ current <= target =>
                  current <= StepTowards(current, target) /\ StepTowards(current, target) <= target
           /\ target <= current =>
                  target <= StepTowards(current, target) /\ StepTowards(current, target) <= current
BY DEF StepTowards, Abs, Greatest, Least

\* It comes nearer to a target it has not reached, and holds one it has.
LEMMA StepTowardsApproaches ==
    ASSUME NEW current \in Int, NEW target \in Int
    PROVE  IF current = target THEN StepTowards(current, target) = target
           ELSE Abs(target - StepTowards(current, target)) < Abs(target - current)
BY DEF StepTowards, Abs, Greatest, Least

\* The ramp never leaves the limits that its target respects.
LEMMA StepTowardsInSpeed ==
    ASSUME NEW current \in Speed, NEW target \in Speed
    PROVE  StepTowards(current, target) \in Speed
<1>1. current \in Int /\ target \in Int
  BY DEF Speed
<1>2. /\ StepTowards(current, target) \in Int
      /\ current <= target =>
             current <= StepTowards(current, target) /\ StepTowards(current, target) <= target
      /\ target <= current =>
             target <= StepTowards(current, target) /\ StepTowards(current, target) <= current
  BY <1>1, StepTowardsBetween
<1> QED BY <1>1, <1>2 DEF Speed

\* A tick adds at most one acceleration step to the magnitude of the ramp.
LEMMA StepTowardsSpeedsUp ==
    ASSUME NEW current \in Int, NEW target \in Int
    PROVE  Abs(StepTowards(current, target)) <= Abs(current) + Accel
BY DEF StepTowards, Abs, Greatest, Least

\* _effective_axis keeps the limits, its magnitude is that of the ramp or more,
\* at most the minimum effective speed, and it never points away from the
\* target.
LEMMA EffectiveAxisInSpeed ==
    ASSUME NEW current \in Speed, NEW target \in Speed
    PROVE  /\ EffectiveAxis(current, target) \in Speed
           /\ Abs(EffectiveAxis(current, target)) <= Greatest(Abs(current), MinV)
           /\ Abs(current) <= Abs(EffectiveAxis(current, target))
           /\ target >= 0 => EffectiveAxis(current, target) >= 0 \/ target = 0
           /\ target <= 0 => EffectiveAxis(current, target) <= 0 \/ target = 0
<1>1. CASE current = 0 \/ target = 0
  BY <1>1 DEF EffectiveAxis, Clamp, Speed, Abs, Greatest, Least
<1>2. CASE current # 0 /\ target > 0
  <2>1. EffectiveAxis(current, target) = Clamp(1 * Greatest(Abs(current), MinV))
    BY <1>2 DEF EffectiveAxis, Speed
  <2> QED BY <1>2, <2>1 DEF Clamp, Speed, Abs, Greatest, Least
<1>3. CASE current # 0 /\ target < 0
  <2>1. EffectiveAxis(current, target) = Clamp((-1) * Greatest(Abs(current), MinV))
    BY <1>3 DEF EffectiveAxis, Speed
  <2> QED BY <1>3, <2>1 DEF Clamp, Speed, Abs, Greatest, Least
<1> QED BY <1>1, <1>2, <1>3 DEF Speed
=============================================================================
