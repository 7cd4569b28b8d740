------------------------------ MODULE Segments -----------------------------
(* formskeleton of triangle.c, with insertsegment and what it calls: each  *)
(* segment is looked for from its first end and, if that is not enough,    *)
(* from its second; where a vertex is on it or another segment crosses it, *)
(* the part up to there is made; and the last part is forced in by turning *)
(* the edges that cross it, which may leave triangles inverted for a       *)
(* while.  Where segments cross a new vertex is made, and the coordinates  *)
(* of the inputs are such that it has integer coordinates.  No two points  *)
(* are in the same place when there are segments.  The markers of          *)
(* subsegments and the switch for conforming segments are left out, which  *)
(* delaunay_build does not use.  Where the program would stop with an      *)
(* internal error, as it finds no way or no crossing, there is no step.    *)
EXTENDS Incremental

VARIABLES
  vertexmap,  \* vertex2tri: a handle whose origin was the vertex, before the
              \* first segment
  job,        \* the segment that is being inserted, and how far it is
  fixups      \* the calls of delaunayfixup to come, the next one first

segmentVars == <<vertexmap, job, fixups>>

InitSegments == vertexmap = <<>> /\ job = <<>> /\ fixups = <<>>

----------------------------------------------------------------------------
(* formskeleton *)

\* The map has the last triangle of every vertex.
FormSkeleton ==
  /\ pc = "skeleton"
  /\ IF Triangles(mesh) = {}
     THEN pc' = "write" /\ UNCHANGED segmentVars
     ELSE LET around(v) == {o \in Handles(mesh) : Org(mesh, o) = v} IN
          /\ vertexmap' = [v \in Vertices |->
               CHOOSE o \in around(v) : \A p \in around(v) : p[1] <= o[1]]
          /\ job' = [no |-> 1]
          /\ pc' = "segment"
          /\ UNCHANGED fixups
  /\ UNCHANGED <<input, mesh, incrementalVars, result>>

FirstEnd == Vertex(input.segments[job.no][1])
SecondEnd == Vertex(input.segments[job.no][2])

\* A segment needs two ends among the points, in different places.
IsSegment ==
  /\ Range(input.segments[job.no]) \subseteq DOMAIN input.points
  /\ ~SamePlace(FirstEnd, SecondEnd)

NextSegment == job' = [no |-> job.no + 1] /\ pc' = "segment"

SkipSegment ==
  /\ pc = "segment" /\ job.no <= Len(input.segments) /\ ~IsSegment
  /\ NextSegment
  /\ UNCHANGED <<input, mesh, vertexmap, fixups, incrementalVars, result>>

\* Mutant: does not look whether the map is still right.
TrustTheMap(v) == {vertexmap[v]}

\* Handles to start from at a vertex: that of the map if it still has this
\* origin, or one that locate finds.
HandlesAt(v) ==
  IF Org(mesh, vertexmap[v]) = v
  THEN {vertexmap[v]}
  ELSE {o \in Handles(mesh) : o[1] /= DummyTri /\ Org(mesh, o) = v}

StartSegment ==
  /\ pc = "segment" /\ job.no <= Len(input.segments) /\ IsSegment
  /\ \E o \in HandlesAt(FirstEnd) :
       /\ job' = [no |-> job.no, stage |-> "first", tri |-> o, goal |-> SecondEnd]
       /\ recenttri' = o
  /\ pc' = "scout"
  /\ UNCHANGED <<input, mesh, nextvertex, at, vertexmap, fixups, result>>

EndSkeleton ==
  /\ pc = "segment" /\ job.no > Len(input.segments)
  /\ pc' = "carve"
  /\ job' = <<>> /\ vertexmap' = <<>>
  /\ UNCHANGED <<input, mesh, fixups, incrementalVars, result>>

----------------------------------------------------------------------------
(* finddirection: the triangle at the origin of o through which the line to *)
(* p goes; outer space if there is none.                                   *)

IsLeft(o, p) == Counterclockwise(p, Org(mesh, o), Apex(mesh, o)) > 0
IsRight(o, p) == Counterclockwise(Org(mesh, o), p, Dest(mesh, o)) > 0

FindDirection(o, p) ==
  LET left[h \in Handles(mesh)] ==
        IF h[1] /= DummyTri /\ IsLeft(h, p) THEN left[Onext(mesh, h)] ELSE h
      right[h \in Handles(mesh)] ==
        IF h[1] /= DummyTri /\ IsRight(h, p) THEN right[Oprev(mesh, h)] ELSE h
  IN  IF IsLeft(o, p) /\ (IsRight(o, p) => Onext(mesh, o)[1] /= DummyTri)
      THEN left[o] ELSE right[o]

----------------------------------------------------------------------------
(* scoutsegment *)

\* A subsegment on the edge o, seen from both sides.
InsertSubseg(m, o) == [m EXCEPT !.seg = @ \cup ({o, Sym(m, o)} \ {Outer})]

Ahead == FindDirection(job.tri, job.goal)
Scouts(kind) ==
  /\ pc = "scout"
  /\ Ahead[1] /= DummyTri
  /\ kind = IF SamePlace(Apex(mesh, Ahead), job.goal) THEN "goal at left"
            ELSE IF SamePlace(Dest(mesh, Ahead), job.goal) THEN "goal at right"
            ELSE IF Counterclockwise(job.goal, Org(mesh, Ahead), Apex(mesh, Ahead)) = 0
            THEN "vertex at left"
            ELSE IF Counterclockwise(Org(mesh, Ahead), job.goal, Dest(mesh, Ahead)) = 0
            THEN "vertex at right"
            ELSE IF Lnext(Ahead) \in mesh.seg THEN "segment" ELSE "edge"

\* The goal is the other end of an edge.
Arrive ==
  /\ \/ Scouts("goal at left") /\ mesh' = InsertSubseg(mesh, Lprev(Ahead))
     \/ Scouts("goal at right") /\ mesh' = InsertSubseg(mesh, Ahead)
  /\ NextSegment
  /\ UNCHANGED <<input, vertexmap, fixups, incrementalVars, result>>

\* The other end of an edge is on the way.
PassVertex ==
  /\ \/ /\ Scouts("vertex at left")
        /\ mesh' = InsertSubseg(mesh, Lprev(Ahead))
        /\ job' = [job EXCEPT !.tri = Lprev(Ahead)]
     \/ /\ Scouts("vertex at right")
        /\ mesh' = InsertSubseg(mesh, Ahead)
        /\ job' = [job EXCEPT !.tri = Lnext(Ahead)]
  /\ UNCHANGED <<input, pc, vertexmap, fixups, incrementalVars, result>>

\* An edge is in the way: the segment is scouted from its second end, then it
\* is forced in.
SecondScout ==
  /\ Scouts("edge") /\ job.stage = "first"
  /\ \E o \in HandlesAt(SecondEnd) :
       /\ job' = [no |-> job.no, stage |-> "second", tri |-> o, goal |-> Org(mesh, Ahead),
                  tri1 |-> Ahead]
       /\ recenttri' = o
  /\ UNCHANGED <<input, pc, mesh, nextvertex, at, vertexmap, fixups, result>>

StartForce ==
  /\ Scouts("edge") /\ job.stage /= "first"
  /\ LET second == job.stage = "second"
         start == IF second THEN job.tri1 ELSE Ahead
     IN  /\ mesh' = Flip(mesh, Lnext(start))
         /\ job' = [no |-> job.no, tri |-> Lnext(start), end1 |-> Org(mesh, start),
                    goal |-> IF second THEN Org(mesh, Ahead) ELSE job.goal]
  /\ pc' = "dig"
  /\ UNCHANGED <<input, vertexmap, fixups, incrementalVars, result>>

----------------------------------------------------------------------------
(* segmentintersection *)

\* Where the line from the apex of o to p crosses the edge o.
Intersection(o, p) ==
  LET torg == Org(mesh, o)
      tdest == Dest(mesh, o)
      e(k) == p[k] - Apex(mesh, o)[k]
      t(k) == tdest[k] - torg[k]
      num == e(2) * (torg[1] - p[1]) - e(1) * (torg[2] - p[2])
      denom == t(2) * e(1) - t(1) * e(2)
      on(k) == torg[k] + IF denom > 0 THEN (num * t(k)) \div denom
                                      ELSE (-num * t(k)) \div (-denom)
  IN  <<on(1), on(2), Cardinality(Vertices) + 1>>

\* The subsegment at o is split where the way to the goal crosses it, and the
\* new vertex is inserted there.
SplitSegment(o, stage) ==
  LET new == Intersection(o, job.goal)
      split == SplitAt(o, new)
  IN  /\ mesh' = split
      /\ added' = Append(added, new)
      /\ at' = Circle(split, Lnext(o))
      /\ job' = [no |-> job.no, stage |-> stage, end1 |-> Apex(mesh, o), goal |-> job.goal,
                 tri1 |-> IF stage = "second" THEN job.tri1 ELSE Outer]
      /\ pc' = "split"
      /\ UNCHANGED <<input, nextvertex, recenttri, vertexmap, fixups,
                     undead, marked, hullsize, out>>

CrossSegment == Scouts("segment") /\ SplitSegment(Lnext(Ahead), job.stage)

\* When all edges around the new vertex are turned, the one that leads back
\* becomes a subsegment, and the way goes on.
EndSplit ==
  /\ pc = "split" /\ ~MustFlip(at.horiz) /\ Inserted
  /\ LET found == FindDirection(Lprev(at.horiz), job.end1)
         back == IF SamePlace(Apex(mesh, found), job.end1) THEN Onext(mesh, found) ELSE found
     IN  /\ found[1] /= DummyTri /\ SamePlace(Dest(mesh, back), job.end1)
         /\ mesh' = InsertSubseg(mesh, back)
         /\ job' = [no |-> job.no, stage |-> job.stage, tri |-> back, goal |-> job.goal,
                    tri1 |-> job.tri1]
  /\ recenttri' = Lprev(at.horiz)
  /\ at' = <<>>
  /\ pc' = "scout"
  /\ UNCHANGED <<input, nextvertex, vertexmap, fixups, result>>

----------------------------------------------------------------------------
(* constrainededge and delaunayfixup *)

\* The end of the dug polygon is looked at, and one of its sides, or both at
\* the end of the way, is made Delaunay.  "main" is the call with fixuptri
\* itself.
Fixup(o, left, main) == [o |-> o, left |-> left, main |-> main]

Dig ==
  /\ pc = "dig"
  /\ LET far == Org(mesh, job.tri)
         area == Counterclockwise(job.end1, job.goal, far)
         rightside == Fixup(job.tri, FALSE, TRUE)
         leftside == Fixup(Oprev(mesh, job.tri), TRUE, FALSE)
         next == IF SamePlace(far, job.goal) THEN "goal"
                 ELSE IF area = 0 THEN "vertex"
                 ELSE IF area > 0 THEN "left" ELSE "right"
     IN  /\ fixups' = CASE next \in {"goal", "vertex"} -> <<rightside, leftside>>
                        [] next = "left" -> <<leftside>>
                        [] next = "right" -> <<rightside>>
         /\ job' = [no |-> job.no, tri |-> job.tri, end1 |-> job.end1, goal |-> job.goal,
                    next |-> next]
  /\ pc' = "fixup"
  /\ UNCHANGED <<input, mesh, vertexmap, incrementalVars, result>>

\* The edge across from the origin of f.o is turned when the vertex before
\* is no reflex one and the triangle behind is inverted or the edge is not
\* Delaunay.
FixupFlips(f) ==
  LET near == Lnext(f.o)
      far == Sym(mesh, near)
      a == Apex(mesh, near)
      l == Org(mesh, near)
      r == Dest(mesh, near)
      d == Apex(mesh, far)
  IN  /\ far[1] /= DummyTri /\ near \notin mesh.seg
      /\ IF f.left THEN Counterclockwise(a, l, d) > 0 ELSE Counterclockwise(d, r, a) > 0
      /\ Counterclockwise(r, l, d) > 0 => InCircle(l, d, r, a) > 0

FixupFlip ==
  /\ pc = "fixup" /\ fixups /= <<>> /\ FixupFlips(Head(fixups))
  /\ LET f == Head(fixups)
         here == Lprev(f.o)
     IN  /\ fixups' = <<Fixup(here, f.left, f.main),
                        Fixup(Sym(mesh, Lnext(f.o)), f.left, FALSE)>> \o Tail(fixups)
         /\ mesh' = Flip(mesh, Lnext(f.o))
         /\ job' = IF f.main THEN [job EXCEPT !.tri = here] ELSE job
  /\ UNCHANGED <<input, pc, vertexmap, incrementalVars, result>>

FixupReturn ==
  /\ pc = "fixup" /\ fixups /= <<>> /\ ~FixupFlips(Head(fixups))
  /\ fixups' = Tail(fixups)
  /\ UNCHANGED <<input, pc, mesh, vertexmap, job, incrementalVars, result>>

FixedUp(next) == pc = "fixup" /\ fixups = <<>> /\ job.next = next

\* The edge that has been dug becomes a subsegment; if it ends at a vertex on
\* the way, the rest is scouted.
ForceEnds ==
  /\ \/ FixedUp("goal") /\ NextSegment
     \/ /\ FixedUp("vertex")
        /\ job' = [no |-> job.no, stage |-> "again", tri |-> job.tri, goal |-> job.goal]
        /\ pc' = "scout"
  /\ mesh' = InsertSubseg(mesh, job.tri)
  /\ UNCHANGED <<input, vertexmap, fixups, incrementalVars, result>>

\* The next edge that the way crosses is turned, or, if it is a subsegment,
\* split.
Cross(o) ==
  \/ /\ o \notin mesh.seg
     /\ mesh' = Flip(mesh, o)
     /\ job' = [job EXCEPT !.tri = o]
     /\ pc' = "dig"
     /\ UNCHANGED <<input, vertexmap, fixups, incrementalVars, result>>
  \/ /\ o \in mesh.seg
     /\ SplitSegment(o, "again")

DigOn ==
  \/ FixedUp("left") /\ Cross(Lprev(job.tri))
  \/ FixedUp("right") /\ Cross(Oprev(mesh, job.tri))

----------------------------------------------------------------------------
SegmentsNext ==
  \/ FormSkeleton \/ SkipSegment \/ StartSegment \/ EndSkeleton
  \/ Arrive \/ PassVertex \/ SecondScout \/ StartForce \/ CrossSegment \/ EndSplit
  \/ Dig \/ FixupFlip \/ FixupReturn \/ ForceEnds \/ DigOn
=============================================================================
