---------------------------- MODULE CirclesFind ----------------------------
(* delaunay_circles_find of delaunay.c: which circumcircles of a           *)
(* triangulation contain a point.  A search starts from what the last one  *)
(* left in the structure: its first triangle, its results, its flags.      *)
(* Small triangulations are searched one by one; otherwise a walk looks    *)
(* for the triangle around the point and the search spreads from there to  *)
(* the triangles that share a vertex.                                      *)
(*                                                                         *)
(* Triangles are counted from 0, as in C, and their corners run            *)
(* counterclockwise.  Coordinates are small integers, so that cross        *)
(* products are exact; whether the rounded circle contains a point that    *)
(* lies exactly on it is left open.                                        *)
EXTENDS Integers, Sequences, SequencesExt

CONSTANTS Triangulations,  \* what delaunay_build may have built: its points, a
                           \* sequence of <<x, y>>, and its triangles, a
                           \* sequence of triples of indices of the points
          QueryPoints,     \* what is searched for
          SearchTurnOn     \* N_SEARCH_TURNON

ASSUME TriangulationsAssumption ==
  \A s \in Triangulations : s.triangles \in Seq([1 .. 3 -> DOMAIN s.points])
ASSUME SearchTurnOnAssumption == SearchTurnOn \in Nat

VARIABLES
  d,          \* the triangulation that is searched
  place,      \* "created", "idle" after a search, or where the search is
  p,          \* the point searched for
  within,     \* the triangles whose circle_contains says yes to p
  first_id,   \* the first triangle of the last search, or -1
  walk,       \* the triangle the walk has come to
  contains,   \* the first triangle counts without a look at its circle
  t_in,       \* stack of triangles to look at
  t_out,      \* stack of triangles found; it survives until the next search
  flags,      \* triangles that have been put on t_in
  flagids     \* the flags to reset

search == <<d, p, within>>
stacks == <<t_in, t_out, flags, flagids>>
vars == <<place, search, first_id, walk, contains, stacks>>

----------------------------------------------------------------------------
ntriangles == Len(d.triangles)
Id == 0 .. ntriangles - 1
Vertices(t) == {d.triangles[t + 1][i] : i \in 1 .. 3}

\* Corner i of a triangle, and the triangle across from it (-1: none).
Corner(t, i) == d.triangles[t + 1][(i % 3) + 1]
Neighbour(t, i) ==
  LET across == {u \in Id \ {t} : Vertices(t) \ {Corner(t, i)} \subseteq Vertices(u)}
  IN IF across = {} THEN -1 ELSE CHOOSE u \in across : TRUE

\* Some triangles, in the order of their ids.
Ascending(ids) ==
  LET upto[n \in 0 .. ntriangles] ==
        IF n = 0 THEN << >>
        ELSE IF n - 1 \in ids THEN Append(upto[n - 1], n - 1) ELSE upto[n - 1]
  IN upto[ntriangles]

\* point_triangles: the triangles at a vertex, listed in the order of their ids.
PointTriangles(v) == {t \in Id : v \in Vertices(t)}

OnRightSide(q, a, b) ==
  (b[1] - q[1]) * (a[2] - q[2]) > (a[1] - q[1]) * (b[2] - q[2])

\* Positive inside the circle through the corners, zero on it.
InCircle(t, q) ==
  LET to(i) == <<d.points[Corner(t, i)][1] - q[1], d.points[Corner(t, i)][2] - q[2]>>
      square(i) == to(i)[1] * to(i)[1] + to(i)[2] * to(i)[2]
      cross(i, j) == to(i)[1] * to(j)[2] - to(j)[1] * to(i)[2]
  IN square(0) * cross(1, 2) + square(1) * cross(2, 0) + square(2) * cross(0, 1)

Inside(q) == {t \in Id : InCircle(t, q) > 0}
OnCircle(q) == {t \in Id : InCircle(t, q) = 0}

\* The closed triangles around a point.
Around(q) == {t \in Id : \A i \in 0 .. 2 :
               ~OnRightSide(q, d.points[Corner(t, i)], d.points[Corner(t, i + 1)])}

InBox(q) == \A c \in {1, 2} : /\ \E i \in DOMAIN d.points : d.points[i][c] <= q[c]
                              /\ \E i \in DOMAIN d.points : d.points[i][c] >= q[c]

----------------------------------------------------------------------------
Init ==
  /\ d \in Triangulations
  /\ place = "created" /\ p = <<0, 0>> /\ within = {}
  /\ first_id = -1 /\ walk = -1 /\ contains = FALSE
  /\ t_in = << >> /\ t_out = << >> /\ flags = {} /\ flagids = << >>

\* A call, and where it goes on.
Query(next) ==
  /\ place \in {"created", "idle"}
  /\ p' \in QueryPoints
  /\ \E rounded \in SUBSET OnCircle(p') : within' = Inside(p') \cup rounded
  /\ place' = next

\* A small triangulation is searched from the first triangle to the last.
SearchLinear ==
  /\ ntriangles <= SearchTurnOn
  /\ Query("idle")
  /\ t_out' = Ascending(within')
  /\ UNCHANGED <<d, first_id, walk, contains, t_in, flags, flagids>>

\* Mutant: the first triangle is kept whether its circle contains p or not.
KeepSeedAlways ==
  /\ ntriangles > SearchTurnOn
  /\ Query("start")
  /\ first_id >= 0
  /\ contains' = FALSE
  /\ UNCHANGED <<d, first_id, walk, stacks>>

\* The first triangle of the last search will do...
KeepSeed ==
  /\ ntriangles > SearchTurnOn
  /\ Query("start")
  /\ first_id >= 0 /\ first_id \in within'
  /\ contains' = FALSE
  /\ UNCHANGED <<d, first_id, walk, stacks>>

\* ...or a walk is started (delaunay_xytoi).
StartWalk ==
  /\ ntriangles > SearchTurnOn
  /\ Query(IF InBox(p') THEN "walk" ELSE "unfound")
  /\ ~(first_id >= 0 /\ first_id \in within')
  /\ walk' = IF first_id < 0 \/ first_id > ntriangles THEN 0 ELSE first_id
  /\ contains' = FALSE
  /\ UNCHANGED <<d, first_id, stacks>>

\* Edges of the walk's triangle that have p on their right, by first corner.
Right == {i \in 0 .. 2 : OnRightSide(p, d.points[Corner(walk, i)],
                                        d.points[Corner(walk, i + 1)])}

\* Mutant: the walk crosses another edge than the one that was tested.
WalkAstray ==
  /\ place = "walk" /\ Right # {}
  /\ LET i == Min(Right)
         next == Neighbour(walk, i)
     IN IF next < 0 THEN place' = "unfound" /\ UNCHANGED walk
        ELSE walk' = next /\ UNCHANGED place
  /\ UNCHANGED <<search, first_id, contains, stacks>>

\* The walk crosses the first edge that has p on its right.
Walk ==
  /\ place = "walk" /\ Right # {}
  /\ LET i == Min(Right)
         next == Neighbour(walk, i + 2)
     IN IF next < 0 THEN place' = "unfound" /\ UNCHANGED walk
        ELSE walk' = next /\ UNCHANGED place
  /\ UNCHANGED <<search, first_id, contains, stacks>>

WalkEnds ==
  /\ place = "walk" /\ Right = {}
  /\ first_id' = walk
  /\ contains' = TRUE
  /\ place' = "start"
  /\ UNCHANGED <<search, walk, stacks>>

\* Mutant: the end of the loop over all triangles is not told from success.
TrySeedUnchecked ==
  /\ place = "unfound"
  /\ first_id' = LET again == {k \in DOMAIN t_out : t_out[k] \in within}
                 IN IF again # {} THEN t_out[Min(again)]
                    ELSE Min(within \cup {ntriangles})
  /\ place' = "start"
  /\ UNCHANGED <<search, walk, contains, stacks>>

\* No triangle was found: the last results are tried, then all triangles.
TrySeed ==
  /\ place = "unfound" /\ within # {}
  /\ first_id' = LET again == {k \in DOMAIN t_out : t_out[k] \in within}
                 IN IF again # {} THEN t_out[Min(again)] ELSE Min(within)
  /\ place' = "start"
  /\ UNCHANGED <<search, walk, contains, stacks>>

Fail ==
  /\ place = "unfound" /\ within = {}
  /\ first_id' = -1
  /\ t_out' = << >>
  /\ place' = "idle"
  /\ UNCHANGED <<search, walk, contains, t_in, flags, flagids>>

\* Mutant: the results of the last search are not reset.
StartSpreadKeeps ==
  /\ place = "start"
  /\ t_in' = << first_id >>
  /\ flags' = flags \cup {first_id}
  /\ flagids' = Append(flagids, first_id)
  /\ place' = "spread"
  /\ UNCHANGED <<search, first_id, walk, contains, t_out>>

StartSpread ==
  /\ place = "start"
  /\ t_in' = << first_id >> /\ t_out' = << >>
  /\ flags' = flags \cup {first_id}
  /\ flagids' = Append(flagids, first_id)
  /\ place' = "spread"
  /\ UNCHANGED <<search, first_id, walk, contains>>

\* The triangles at the corners of t that have no flag yet, each once, in the
\* order in which the code comes across them.
Unflagged(t) ==
  LET fresh(i) == Ascending({u \in PointTriangles(Corner(t, i)) \ flags :
                               \A j \in 0 .. i - 1 : Corner(t, j) \notin Vertices(u)})
  IN fresh(0) \o fresh(1) \o fresh(2)

SpreadOn ==
  /\ place = "spread" /\ t_in # << >>
  /\ contains \/ Last(t_in) \in within
  /\ LET new == Unflagged(Last(t_in)) IN
     /\ t_out' = Append(t_out, Last(t_in))
     /\ t_in' = Front(t_in) \o new
     /\ flags' = flags \cup ToSet(new)
     /\ flagids' = flagids \o new
  /\ contains' = FALSE
  /\ UNCHANGED <<place, search, first_id, walk>>

SpreadNot ==
  /\ place = "spread" /\ t_in # << >>
  /\ ~contains /\ Last(t_in) \notin within
  /\ t_in' = Front(t_in)
  /\ UNCHANGED <<place, search, first_id, walk, contains, t_out, flags, flagids>>

Finish ==
  /\ place = "spread" /\ t_in = << >>
  /\ flags' = flags \ ToSet(flagids)
  /\ flagids' = << >>
  /\ place' = "idle"
  /\ UNCHANGED <<search, first_id, walk, contains, t_in, t_out>>

Call == SearchLinear \/ KeepSeed \/ StartWalk

Search == \/ Walk \/ WalkEnds \/ TrySeed \/ Fail
          \/ StartSpread \/ SpreadOn \/ SpreadNot \/ Finish

Next == Call \/ Search

Spec == Init /\ [][Next]_vars

\* A search that has been called runs on.
LiveSpec == Spec /\ WF_vars(Search)

----------------------------------------------------------------------------
TypeOK ==
  /\ d \in Triangulations
  /\ place \in {"created", "idle", "walk", "unfound", "start", "spread"}
  /\ within \in SUBSET Id
  /\ first_id \in Id \cup {-1} /\ walk \in Id \cup {-1}
  /\ place = "start" => first_id \in Id
  /\ contains \in BOOLEAN
  /\ t_in \in Seq(Id) /\ t_out \in Seq(Id)
  /\ flags \in SUBSET Id /\ flagids \in Seq(Id)

Answered == place = "idle"

(* No triangle is returned twice, and none whose circle does not contain the
   point; only the triangle around the point is taken without the test.  And
   no flag stays behind that a later search would take for its own and pass
   over the triangle (delaunay.c:401-418, 441-448, 545, 566).              *)
OnlyContaining ==
  Answered => /\ IsInjective(t_out)
              /\ ToSet(t_out) \subseteq within \cup Around(p)
              /\ flags = {}

(* For a point in the triangulation the search finds every circle that the
   point is strictly inside of, from whatever an earlier search left behind;
   in a large one it gets an answer also when it coincides with a corner and
   rounding puts it outside of all circles (delaunay.c:420, 441-448).      *)
AllFoundInside ==
  Answered /\ Around(p) # {} =>
    /\ Inside(p) \subseteq ToSet(t_out)
    /\ ntriangles > SearchTurnOn => t_out # << >>

(* "Finds all tricircles specified point belongs to." (delaunay.c:420)     *)
AllFound == Answered => Inside(p) \subseteq ToSet(t_out)

(* Every search comes to an end: the walk does not go round in circles
   (delaunay.c:384-396).                                                   *)
SearchEnds == place \in {"walk", "unfound", "start", "spread"} ~> Answered
=============================================================================
