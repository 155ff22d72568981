---------------------------- MODULE ScanProjection ----------------------------
(***************************************************************************)
(* project_points_to_scan of go2_bridge/pointcloud_utils.py: the points of *)
(* a cloud are sorted into the bins of a laser scan, and a bin keeps the   *)
(* nearest.  Angles, distances and heights are integers: hypot and arctan2 *)
(* have been applied.  What the rounding of floats does to a point at the  *)
(* very edge of a bin is left out.                                         *)
(***************************************************************************)
EXTENDS Integers, Sequences

CONSTANTS
    AngleMin, AngleMax, AngleStep,   \* angle_min, angle_max, angle_increment
    RangeMin, RangeMax,              \* range_min, range_max
    MinHeight, MaxHeight,            \* min_height, max_height
    Clouds                           \* the clouds: sequences of points

Point == [angle : Int, distance : Nat, height : Int]

\* what the function raises a ValueError about
ASSUME ScanAssumption ==
    /\ {AngleMin, AngleMax, RangeMin, RangeMax, MinHeight, MaxHeight} \subseteq Int
    /\ AngleStep \in Nat \ {0}
    /\ AngleMin < AngleMax
    /\ Clouds \subseteq Seq(Point)

VARIABLES
    cloud,    \* points
    index,    \* the loop is at this point
    ranges    \* the nearest distance of every bin so far

projectVars == <<cloud, index, ranges>>

SampleCount == (AngleMax - AngleMin) \div AngleStep + 1
Bins == 0 .. SampleCount - 1

\* np.inf: no distance that is kept is as large
Inf == RangeMax + 1

\* height_mask and valid_mask
ValidPoint(p) ==
    /\ MinHeight <= p.height /\ p.height <= MaxHeight
    /\ RangeMin <= p.distance /\ p.distance <= RangeMax
    /\ AngleMin <= p.angle /\ p.angle <= AngleMax

\* np.clip(index, 0, sample_count - 1)
Clipped(i) == IF i < 0 THEN 0 ELSE IF i > SampleCount - 1 THEN SampleCount - 1 ELSE i

\* Mutant of BinOf: the bins are rounded up
BinOfCeiling(p) == Clipped((p.angle - AngleMin + AngleStep - 1) \div AngleStep)

BinOf(p) == Clipped((p.angle - AngleMin) \div AngleStep)

ProjectInit ==
    /\ cloud \in Clouds
    /\ index = 1
    /\ ranges = [b \in Bins |-> Inf]

\* Mutant of ProjectPoint: the last point of a bin is kept
ProjectPointLast ==
    /\ index <= Len(cloud)
    /\ index' = index + 1
    /\ LET p == cloud[index] IN
       ranges' = IF ValidPoint(p) THEN [ranges EXCEPT ![BinOf(p)] = p.distance] ELSE ranges
    /\ UNCHANGED cloud

\* the loop over the valid points
ProjectPoint ==
    /\ index <= Len(cloud)
    /\ index' = index + 1
    /\ LET p == cloud[index] IN
       ranges' = IF ValidPoint(p) /\ p.distance < ranges[BinOf(p)]
                 THEN [ranges EXCEPT ![BinOf(p)] = p.distance] ELSE ranges
    /\ UNCHANGED cloud

ProjectSpec == ProjectInit /\ [][ProjectPoint]_projectVars
-----------------------------------------------------------------------------
\* The points among the first n that the sector of a bin should show: those in
\* reach whose angle is at least AngleMin + b * AngleStep, and less than that
\* of the next bin.
Sector(b, n) ==
    {i \in 1 .. n :
        /\ MinHeight <= cloud[i].height /\ cloud[i].height <= MaxHeight
        /\ RangeMin <= cloud[i].distance /\ cloud[i].distance <= RangeMax
        /\ cloud[i].angle <= AngleMax
        /\ AngleMin + b * AngleStep <= cloud[i].angle
        /\ cloud[i].angle < AngleMin + (b + 1) * AngleStep}

\* The nearest obstacle of every sector is in the scan, and nothing nearer is:
\* a costmap made of it neither misses a wall nor invents one
\* (project_points_to_scan).
NearestPerBin ==
    index > Len(cloud) =>
        \A b \in Bins :
            /\ \A i \in Sector(b, Len(cloud)) : ranges[b] <= cloud[i].distance
            /\ ranges[b] = Inf \/ \E i \in Sector(b, Len(cloud)) : ranges[b] = cloud[i].distance

\* No point in reach is left out of every sector: the bins cover the angles.
SectorsCover ==
    \A i \in 1 .. Len(cloud) : ValidPoint(cloud[i]) => \E b \in Bins : i \in Sector(b, Len(cloud))
=============================================================================
