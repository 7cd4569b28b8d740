----------------------------- MODULE PointTools ----------------------------
(* The two functions of nncommon.c that thin an array of points: one       *)
(* averages the points in each cell of a grid, the other those that follow *)
(* one another closely.  An average is here the set of the points that are *)
(* averaged, by their place in the array, and a point that has a NaN is    *)
(* NaN.  Distances are sums of two differences where the code has a root.  *)
EXTENDS Integers, SequencesExt

CONSTANTS Axis,       \* coordinates
          MaxPoints,  \* bound: no array has more points
          NaN,
          Tasks       \* what is asked for: nx and ny, or rmax

ASSUME ThinAssumption ==
  /\ Axis \subseteq Int
  /\ MaxPoints \in Nat
  /\ NaN \notin Axis \X Axis
  /\ Tasks \subseteq [rmax : Nat] \cup [nx : Nat, ny : Nat]

VARIABLES
  points,        \* the array
  task,
  read,          \* how many of its points were read
  averaged,      \* the new array
  cluster,       \* points_thinlin: the points that will be averaged next
  sum_r          \* and the length of the way along them

thinVars == <<points, task, read, averaged, cluster, sum_r>>

InitThin ==
  /\ \E n \in 0 .. MaxPoints : points \in [1 .. n -> (Axis \X Axis) \cup {NaN}]
  /\ task \in Tasks
  /\ "rmax" \notin DOMAIN task => NaN \notin ToSet(points)
  /\ read = 0
  /\ averaged = << >>
  /\ cluster = {}
  /\ sum_r = 0

N == Len(points)
Thins == "rmax" \in DOMAIN task
Distance(i, j) == LET abs(k) == IF k < 0 THEN -k ELSE k IN
  abs(points[i][1] - points[j][1]) + abs(points[i][2] - points[j][2])

----------------------------------------------------------------------------
(* points_thinlin, one point after the other: the point before is the last *)
(* of the cluster, which is empty when there is none (pprev is NULL).      *)
Reads == Thins /\ read < N /\ read' = read + 1 /\ UNCHANGED <<points, task>>

WriteCluster == averaged' = Append(averaged, cluster) /\ cluster' = {} /\ sum_r' = sum_r

SkipNaN ==
  /\ Reads /\ points[read + 1] = NaN
  /\ IF cluster = {} THEN UNCHANGED <<averaged, cluster, sum_r>> ELSE WriteCluster

InitCluster ==
  /\ Reads /\ points[read + 1] /= NaN /\ cluster = {}
  /\ cluster' = {read + 1} /\ sum_r' = 0
  /\ averaged' = averaged

\* Mutant: the length of one step is compared, not of the whole way.
TooFarOne == Distance(read, read + 1) > task.rmax

TooFar == sum_r + Distance(read, read + 1) > task.rmax

\* The point that is too far is in no cluster, not in the next one either.
EndCluster ==
  /\ Reads /\ points[read + 1] /= NaN /\ cluster /= {} /\ TooFar
  /\ WriteCluster

AddToCluster ==
  /\ Reads /\ points[read + 1] /= NaN /\ cluster /= {} /\ ~TooFar
  /\ cluster' = cluster \cup {read + 1}
  /\ sum_r' = sum_r + Distance(read, read + 1)
  /\ averaged' = averaged

----------------------------------------------------------------------------
Nodes(axis) == IF axis = 1 THEN task.nx ELSE task.ny
Low(axis) == Min({points[i][axis] : i \in 1 .. N})
High(axis) == Max({points[i][axis] : i \in 1 .. N})

\* The row or column of a point.  When all points are at one place
\* of the axis the step is 0, and nan is what the conversion makes of a NaN:
\* 0 on a telephone, the least integer in the simulator, here -1000.
Cell(i, axis, nan) ==
  LET m == Nodes(axis) IN
  IF m = 1 THEN 0
  ELSE IF Low(axis) = High(axis) THEN nan
  ELSE LET k == ((points[i][axis] - Low(axis)) * m) \div (High(axis) - Low(axis)) IN
       IF k = m THEN k - 1 ELSE k

Index(i, nan) == Cell(i, 1, nan) + Cell(i, 2, nan) * task.nx
InCell(k, nan) == {i \in 1 .. N : Index(i, nan) = k}

\* The cells that have points, in their order.
NewArray(nan) ==
  LET new[k \in 0 .. task.nx * task.ny] ==
        IF k = 0 THEN << >>
        ELSE IF InCell(k - 1, nan) = {} THEN new[k - 1]
        ELSE Append(new[k - 1], InCell(k - 1, nan))
  IN  new[task.nx * task.ny]

\* points_thingrid: the points in each cell are averaged.  What is added
\* outside of the arrays is lost, if nothing worse comes of it.
ThinGrid ==
  /\ ~Thins /\ read < N
  /\ read' = N
  /\ \E nan \in {0, -1000} : averaged' = NewArray(nan)
  /\ UNCHANGED <<points, task, cluster, sum_r>>

ThinNext == SkipNaN \/ InitCluster \/ EndCluster \/ AddToCluster \/ ThinGrid

ThinSpec == InitThin /\ [][ThinNext]_thinVars

----------------------------------------------------------------------------
Averaged == UNION ToSet(averaged)
OnceOnly == \A k, l \in DOMAIN averaged : k /= l => averaged[k] \cap averaged[l] = {}

\* The length of the way from one point to a later one.
Way(first, last) ==
  LET way[i \in first .. last] ==
        IF i = first THEN 0 ELSE way[i - 1] + Distance(i - 1, i)
  IN  way[last]

\* In a cluster are points that follow one another within rmax on the way: it
\* has no gap, and no more than the way allows (nncommon.c:263-292).
ClustersRight ==
  \A k \in DOMAIN averaged :
    LET first == Min(averaged[k]) IN LET last == Max(averaged[k]) IN
    /\ averaged[k] = first .. last
    /\ \A i \in first .. last - 1 : Distance(i, i + 1) <= task.rmax
    /\ Way(first, last) <= task.rmax

\* Unless all of them have the same x or y, every point is in the average of
\* one cell, with none that is farther away than a cell is wide
\* (nncommon.c:121-157).
CellsRight ==
  read = N /\ N > 0 /\ task.nx >= 1 /\ task.ny >= 1
    /\ (\A axis \in 1 .. 2 : Nodes(axis) = 1 \/ Low(axis) /= High(axis))
  => /\ Averaged = 1 .. N
     /\ \A k \in DOMAIN averaged : \A i, j \in averaged[k], axis \in 1 .. 2 :
          (points[i][axis] - points[j][axis]) * Nodes(axis) <= High(axis) - Low(axis)

\* What the new array averages: no point twice, and see above.
AveragesRight == OnceOnly /\ IF Thins THEN ClustersRight ELSE CellsRight

\* points_thinlin smoothes the input by averaging it: every point that is one is
\* averaged, and not left out (nncommon.c:203-205).
AllAveraged ==
  Thins /\ read = N => \A i \in 1 .. N : points[i] /= NaN => i \in Averaged
=============================================================================
