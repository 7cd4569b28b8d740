------------------------------- MODULE DivConq -----------------------------
(* divconqdelaunay of triangle.c, which triangulates the feature points of *)
(* every frame: the vertices are sorted and halved again and again, two or *)
(* three of them make an edge or a triangle with "ghost" triangles around  *)
(* it, and neighbouring hulls are knitted together from below, turning the *)
(* edges that are no longer Delaunay.  In the end the ghosts are removed   *)
(* and the mesh is written to the arrays that tio2delaunay reads.          *)
(*                                                                         *)
(* The program is sequential; one step is one pass through a loop.  Left   *)
(* and right hull are each other's mirror image: side 1 is the left one,   *)
(* and Turn(o, 1) on it is what Turn(o, 2) is on side 2.                   *)
EXTENDS Triangulation

VARIABLES
  sortarray,  \* the distinct vertices, in the order in which they are halved
  todo,       \* the calls of divconqrecurse and mergehulls to come, in order
  hulls,      \* <<farleft, farright>> of the triangulations to be merged
  seam,       \* the local variables of mergehulls
  ghost       \* those of removeghosts

divConqVars == <<sortarray, todo, hulls, seam, ghost>>

InitDivConq == sortarray = <<>> /\ todo = <<>> /\ hulls = <<>> /\ seam = <<>> /\ ghost = <<>>

Conquer(first, n, axis) == [op |-> "conquer", first |-> first, n |-> n, axis |-> axis]
Merge(axis) == [op |-> "merge", axis |-> axis]

----------------------------------------------------------------------------
(* The order of the vertices. *)

Sorted(S, axis) ==
  [k \in 1 .. Cardinality(S) |->
     CHOOSE v \in S : Cardinality({w \in S : Before(w, v, axis)}) = k - 1]

\* Halves by x, quarters by y, and so on; two or three always by x.
AlternateAxes[S \in SUBSET Vertices, axis \in {0, 1}] ==
  LET n == Cardinality(S)
      s == Sorted(S, axis)
      half(from, to) == AlternateAxes[{s[k] : k \in from .. to}, 1 - axis]
  IN  IF n <= 3 THEN Sorted(S, 0)
                ELSE half(1, n \div 2) \o half(n \div 2 + 1, n)

\* Of vertices in the same place the sort may leave any one first; the others
\* are dropped.
Sort ==
  /\ pc = "delaunay" /\ ~input.incremental /\ input.sweepline = <<>>
  /\ \E kept \in SUBSET Vertices :
       /\ \A v \in Vertices : Cardinality({w \in kept : SamePlace(v, w)}) = 1
       /\ sortarray' = AlternateAxes[kept, 0]
       /\ undead' = Vertices \ kept
       /\ todo' = <<Conquer(1, Cardinality(kept), 0)>>
  /\ pc' = "divide"
  /\ UNCHANGED <<input, mesh, hulls, seam, ghost, added, marked, hullsize, out>>

----------------------------------------------------------------------------
(* divconqrecurse *)

Subproblem(op) == pc = "divide" /\ todo /= <<>> /\ Head(todo).op = op

\* The vertices of the subproblem at hand.
V(k) == sortarray[Head(todo).first + k]

Divide ==
  /\ Subproblem("conquer")
  /\ LET n == Head(todo).n
         first == Head(todo).first
         axis == Head(todo).axis
         divider == n \div 2
     IN  /\ n \notin {2, 3}
         /\ todo' = <<Conquer(first, divider, 1 - axis),
                      Conquer(first + divider, n - divider, 1 - axis),
                      Merge(axis)>> \o Tail(todo)
  /\ UNCHANGED <<input, pc, sortarray, mesh, hulls, seam, ghost, result>>

\* A base case makes triangles with these corners (org, dest, apex), joins
\* their edges as bonds <<triangle, orientation, triangle, orientation>> say,
\* and returns the hull.
Make(corners, bonds, farleft, farright) ==
  LET t == NextTri(mesh) - 1
  IN  /\ mesh' = BondAll(MakeTriangles(mesh, corners),
                         {<< <<t + b[1], b[2]>>, <<t + b[3], b[4]>> >> : b \in bonds})
      /\ hulls' = Append(hulls, << <<t + farleft[1], farleft[2]>>,
                                   <<t + farright[1], farright[2]>> >>)
      /\ todo' = Tail(todo)
      /\ UNCHANGED <<input, pc, sortarray, seam, ghost, result>>

\* Two vertices: an edge between two ghosts.
Edge ==
  /\ Subproblem("conquer") /\ Head(todo).n = 2
  /\ Make(<< <<V(0), V(1), NoVertex>>, <<V(1), V(0), NoVertex>> >>,
          {<<1, 0, 2, 0>>, <<1, 2, 2, 1>>, <<1, 1, 2, 2>>}, <<2, 1>>, <<2, 2>>)

\* Three vertices on a line: two edges between four ghosts.
TwoEdges ==
  /\ Subproblem("conquer") /\ Head(todo).n = 3
  /\ Counterclockwise(V(0), V(1), V(2)) = 0
  /\ Make(<< <<V(0), V(1), NoVertex>>, <<V(1), V(0), NoVertex>>,
             <<V(2), V(1), NoVertex>>, <<V(1), V(2), NoVertex>> >>,
          {<<1, 0, 2, 0>>, <<3, 0, 4, 0>>, <<1, 1, 4, 2>>,
           <<2, 2, 3, 1>>, <<1, 2, 2, 1>>, <<3, 2, 4, 1>>}, <<2, 1>>, <<3, 2>>)

\* A triangle with three ghosts, its corners counterclockwise.
OneTriangle ==
  /\ Subproblem("conquer") /\ Head(todo).n = 3
  /\ LET area == Counterclockwise(V(0), V(1), V(2))
         b == IF area > 0 THEN V(1) ELSE V(2)
         c == IF area > 0 THEN V(2) ELSE V(1)
     IN  /\ area /= 0
         /\ Make(<< <<V(0), b, c>>, <<b, V(0), NoVertex>>,
                    <<c, b, NoVertex>>, <<V(0), c, NoVertex>> >>,
                 {<<1, 0, 2, 0>>, <<1, 1, 3, 0>>, <<1, 2, 4, 0>>,
                  <<2, 2, 3, 1>>, <<2, 1, 4, 2>>, <<3, 2, 4, 1>>},
                 <<2, 1>>, IF area > 0 THEN <<3, 2>> ELSE <<2, 2>>)

----------------------------------------------------------------------------
(* mergehulls *)

\* A horizontal cut: the ends of the hulls move from the leftmost and
\* rightmost vertices to the bottommost and topmost ones ...
Lowest(o) ==
  LET low[h \in Handles(mesh)] ==
        IF Apex(mesh, h)[2] < Org(mesh, h)[2] THEN low[Dprev(mesh, h)] ELSE h
  IN  low[o]
Highest(o) ==
  LET high[h \in Handles(mesh)] ==
        IF Apex(mesh, Sym(mesh, h))[2] > Dest(mesh, h)[2] THEN high[Oprev(mesh, h)] ELSE h
  IN  high[o]

\* ... and back when it is knitted, in mesh m.
Leftmost(m, o) ==
  LET left[h \in Handles(m)] ==
        IF Apex(m, Sym(m, h))[1] < Org(m, h)[1] THEN left[Dnext(m, h)] ELSE h
  IN  left[o]
Rightmost(m, o) ==
  LET right[h \in Handles(m)] ==
        IF Apex(m, h)[1] > Dest(m, h)[1] THEN right[Onext(m, h)] ELSE h
  IN  right[o]

StartMerge ==
  /\ Subproblem("merge")
  /\ LET left == hulls[Len(hulls) - 1]
         right == hulls[Len(hulls)]
         cut == Head(todo).axis = 1
     IN  seam' = [farleft |-> IF cut THEN Lowest(left[1]) ELSE left[1],
                  inner |-> <<IF cut THEN Highest(left[2]) ELSE left[2],
                              IF cut THEN Lowest(right[1]) ELSE right[1]>>,
                  farright |-> IF cut THEN Highest(right[2]) ELSE right[2]]
  /\ pc' = "tangent"
  /\ UNCHANGED <<input, sortarray, mesh, todo, hulls, ghost, result>>

\* One pass of the search for the line below both hulls.
LowerLeft ==
  LET l == seam.inner[1] IN
  IF Counterclockwise(Dest(mesh, l), Apex(mesh, l), Org(mesh, seam.inner[2])) > 0
  THEN Onext(mesh, l) ELSE l
LowerRight ==
  LET r == seam.inner[2] IN
  IF Counterclockwise(Apex(mesh, r), Org(mesh, r), Dest(mesh, LowerLeft)) > 0
  THEN Dprev(mesh, r) ELSE r

Tangent ==
  /\ pc = "tangent"
  /\ <<LowerLeft, LowerRight>> /= seam.inner
  /\ seam' = [seam EXCEPT !.inner = <<LowerLeft, LowerRight>>]
  /\ UNCHANGED <<input, pc, sortarray, mesh, todo, hulls, ghost, result>>

\* The ghost at the bottom of the seam, and the first candidates above it.
BottomGhost ==
  /\ pc = "tangent"
  /\ <<LowerLeft, LowerRight>> = seam.inner
  /\ LET l == seam.inner[1]
         r == seam.inner[2]
         h(o) == <<NextTri(mesh), o>>
     IN  /\ mesh' = BondAll(MakeTriangle(mesh, Dest(mesh, l), NoVertex, Org(mesh, r)),
                            {<<h(0), l>>, <<h(1), r>>})
         /\ seam' = [farleft |-> IF Dest(mesh, l) = Org(mesh, seam.farleft)
                                 THEN h(0) ELSE seam.farleft,
                     farright |-> IF Org(mesh, r) = Dest(mesh, seam.farright)
                                  THEN h(1) ELSE seam.farright,
                     base |-> h(2), cand |-> <<Sym(mesh, l), Sym(mesh, r)>>]
  /\ pc' = "knit"
  /\ UNCHANGED <<input, sortarray, todo, hulls, ghost, result>>

\* The ends of the knitting edge: lowerleft is Lower(1), lowerright Lower(2);
\* and the vertices above it, upperleft and upperright.
Lower(s) == mesh.vert[Turn(seam.base, 3 - s)]
Upper(s) == Apex(mesh, seam.cand[s])

\* One round up the seam begins: which hulls have nothing more above the edge?
Finished(s) == Counterclockwise(Upper(s), Lower(1), Lower(2)) <= 0

Look ==
  /\ pc = "knit"
  /\ ~(Finished(1) /\ Finished(2))
  /\ seam' = [farleft |-> seam.farleft, farright |-> seam.farright, base |-> seam.base,
              cand |-> seam.cand, finished |-> <<Finished(1), Finished(2)>>, side |-> 1]
  /\ pc' = "turn"
  /\ UNCHANGED <<input, sortarray, mesh, todo, hulls, ghost, result>>

\* Mutant: takes every edge of a hull for a good one.
BadEdgeNever(s) == FALSE

\* Would another vertex of that hull be inside of the next triangle's circle?
BadEdge(s) ==
  LET next == Apex(mesh, Sym(mesh, Turn(seam.cand[s], 3 - s))) IN
  /\ ~seam.finished[s]
  /\ next /= NoVertex
  /\ InCircle(Lower(1), Lower(2), Upper(s), next) > 0

\* Then its edge goes: the candidate becomes a ghost on the other side of it,
\* and the triangle behind one more ghost.
TurnEdge(s) ==
  LET cand == seam.cand[s]
      next == Sym(mesh, Turn(cand, 3 - s))
      nextapex == Apex(mesh, next)
      edge == Turn(next, s)
      top == Sym(mesh, edge)
      side == Sym(mesh, Turn(edge, s))
      bonded == Bond(Bond(mesh, Turn(edge, s), top), cand, side)
      turned == Turn(cand, s)
      ghosts == Bond(bonded, edge, Sym(bonded, turned))
  IN  /\ mesh' = IF s = 1
                 THEN SetCorners(SetCorners(ghosts, turned, Lower(1), NoVertex, nextapex),
                                 edge, NoVertex, Upper(1), nextapex)
                 ELSE SetCorners(SetCorners(ghosts, turned, NoVertex, Lower(2), nextapex),
                                 edge, Upper(2), NoVertex, nextapex)
      /\ seam' = [seam EXCEPT !.cand[s] = turned, !.side = s]
      /\ UNCHANGED <<input, pc, sortarray, todo, hulls, ghost, result>>

TurnLeft == pc = "turn" /\ seam.side = 1 /\ BadEdge(1) /\ TurnEdge(1)
LeftTurned == pc = "turn" /\ (seam.side = 1 => ~BadEdge(1))
TurnRight == LeftTurned /\ BadEdge(2) /\ TurnEdge(2)

\* Mutant: prefers the left one wherever there is one.
KnitSideLeft == IF seam.finished[1] THEN 2 ELSE 1

\* The left candidate's triangle comes next, or the right one's?
KnitSide ==
  IF \/ seam.finished[1]
     \/ ~seam.finished[2] /\ InCircle(Upper(1), Lower(1), Lower(2), Upper(2)) > 0
  THEN 2 ELSE 1

\* The candidate becomes a triangle, its upper edge the knitting edge.
Knit ==
  /\ LeftTurned /\ ~BadEdge(2)
  /\ LET s == KnitSide
         cand == seam.cand[s]
         base == Turn(cand, s)
     IN  /\ mesh' = [Bond(mesh, seam.base, cand) EXCEPT !.vert[Turn(base, s)] = Lower(3 - s)]
         /\ seam' = [farleft |-> seam.farleft, farright |-> seam.farright, base |-> base,
                     cand |-> [seam.cand EXCEPT ![s] = Sym(mesh, base)]]
  /\ pc' = "knit"
  /\ UNCHANGED <<input, sortarray, todo, hulls, ghost, result>>

\* The ghost at the top of the seam; two hulls have become one.
TopGhost ==
  /\ pc = "knit"
  /\ Finished(1) /\ Finished(2)
  /\ LET h(o) == <<NextTri(mesh), o>>
         knitted == BondAll(MakeTriangle(mesh, Lower(1), Lower(2), NoVertex),
                            {<<h(0), seam.base>>, <<h(1), seam.cand[2]>>, <<h(2), seam.cand[1]>>})
         cut == Head(todo).axis = 1
     IN  /\ mesh' = knitted
         /\ hulls' = Append(SubSeq(hulls, 1, Len(hulls) - 2),
                            <<IF cut THEN Leftmost(knitted, seam.farleft) ELSE seam.farleft,
                              IF cut THEN Rightmost(knitted, seam.farright)
                                     ELSE seam.farright>>)
  /\ todo' = Tail(todo)
  /\ pc' = "divide"
  /\ seam' = <<>>
  /\ UNCHANGED <<input, sortarray, ghost, result>>

----------------------------------------------------------------------------
(* removeghosts *)

\* Mutant: the search for points would start from a ghost.
RemoveGhostsHere(start) ==
  /\ mesh' = [mesh EXCEPT !.adj[Outer] = start]
  /\ ghost' = [start |-> start, dissolve |-> start]
  /\ pc' = "ghosts"

RemoveGhosts(start) ==
  /\ mesh' = [mesh EXCEPT !.adj[Outer] = Onext(mesh, start)]
  /\ ghost' = [start |-> start, dissolve |-> start]
  /\ pc' = "ghosts"

EndDivConq ==
  /\ pc = "divide" /\ todo = <<>>
  /\ RemoveGhosts(hulls[1][1])
  /\ hulls' = <<>>
  /\ UNCHANGED <<input, sortarray, todo, seam, result>>

\* One ghost: its triangle of the hull gets outer space for a neighbour.
RemoveGhost ==
  /\ pc = "ghosts"
  /\ LET dead == Lnext(ghost.dissolve)
         hull == Onext(mesh, ghost.dissolve)
         dissolved == Dissolve(mesh, hull)
         next == Sym(dissolved, dead)
     IN  /\ marked' = IF Poly \/ hull[1] = DummyTri THEN marked ELSE marked \cup {Org(mesh, hull)[3]}
         /\ mesh' = TriangleDealloc(dissolved, dead[1])
         /\ ghost' = [ghost EXCEPT !.dissolve = next]
         /\ pc' = IF next = ghost.start THEN AfterDelaunay ELSE "ghosts"
  /\ hullsize' = hullsize + 1
  /\ UNCHANGED <<input, sortarray, todo, hulls, seam, added, undead, out>>

----------------------------------------------------------------------------
DivConqNext ==
  \/ Sort \/ Divide \/ Edge \/ TwoEdges \/ OneTriangle
  \/ StartMerge \/ Tangent \/ BottomGhost
  \/ Look \/ TurnLeft \/ TurnRight \/ Knit \/ TopGhost
  \/ EndDivConq \/ RemoveGhost

\* Handles whose neighbour does not point back: those on the seam while two
\* hulls are knitted.
OnSeam == IF pc \in {"knit", "turn"} THEN {seam.base, seam.cand[1], seam.cand[2]} ELSE {}
=============================================================================
