----------------------------- MODULE Triangulate ----------------------------
(* triangulate of triangle.c: delaunay() chooses an algorithm by the       *)
(* switches, the segments are inserted into the mesh that it makes, holes  *)
(* and what is outside of the segments is carved out, and the mesh is      *)
(* written.                                                                *)
(* The program is sequential; one step is one pass through a loop.         *)
EXTENDS Sweep, Segments, Holes

vars == <<input, pc, mesh, result, divConqVars, sweepVars, incrementalVars, segmentVars, holeVars>>

Init == InitCommon /\ InitDivConq /\ InitSweep /\ InitIncremental /\ InitSegments /\ InitHoles

Done == pc = "done" /\ UNCHANGED vars

Next ==
  \/ DivConqNext /\ UNCHANGED <<sweepVars, incrementalVars, segmentVars, holeVars>>
  \/ SweepNext /\ UNCHANGED <<incrementalVars, segmentVars, holeVars>>
  \/ IncrementalNext /\ UNCHANGED <<divConqVars, sweepVars, segmentVars, holeVars>>
  \/ SegmentsNext /\ UNCHANGED <<divConqVars, sweepVars, holeVars>>
  \/ HolesNext /\ UNCHANGED <<divConqVars, sweepVars, segmentVars>>
  \/ Write /\ UNCHANGED <<divConqVars, sweepVars, incrementalVars, segmentVars, holeVars>>
  \/ Done

Spec == Init /\ [][Next]_vars

\* Nothing stops a sequential program.
LiveSpec == Spec /\ WF_vars(Next)

----------------------------------------------------------------------------
\* While ghosts or infected triangles are removed, what is left of them does
\* not point back.  Of the incremental insertion InsertionRight says it.
Open ==
  CASE pc \in {"knit", "turn"} -> OnSeam
    [] pc = "ghosts" -> {o \in Handles(mesh) : ~IsReal(mesh, o[1])}
    [] pc \in {"insert", "located", "flip", "unbox"} -> Handles(mesh)
    [] pc = "kill" -> {o \in Handles(mesh) : infected(o[1]) \/ infected(Sym(mesh, o)[1])}
    [] OTHER -> {}

\* Every bond is mutual and its two triangles agree on their common edge and
\* on whether it is a segment, ghosts too, everywhere but on the seam:
\* knitting, splitting and turning edges never leaves a triangle pointing at
\* one that has gone elsewhere, nor a segment at an edge that has turned
\* (triangle.c:9404-9681, 7871-7957, 8280-8432, 8434-8490, 8604-8651).  The
\* ghosts of the front and the circles they wait for point to each other, and
\* 3n/2 events are enough (10484-10511, 10387, 10832-10953).  An edge with
\* the destination that the splay tree remembers has not left the front, so
\* that a search ends where a walk along all of it would, from wherever the
\* tree lets it begin (10710-10745, 596-600).
BondsMutual ==
  /\ \A o \in Handles(mesh) \ ({Outer} \cup Open) :
       /\ Reciprocal(mesh, o)
       /\ o \in mesh.seg /\ Sym(mesh, o)[1] /= DummyTri => Sym(mesh, o) \in mesh.seg
  /\ pc = "sweep" => EventsRight /\ TreeOnFront
  /\ pc = "front" => front.search = WalkFront(front.bottommost, Point(front.last))

\* What is triangulated is Delaunay, of the parts, after each vertex and each
\* segment: no triangle is flat or inverted, those that a segment has
\* inverted are right again, and no edge between two of one hull would better
\* be turned, but for segments (9566-9658, 8573-8600, 11969-12031).
LocallyBest ==
  pc \in {"divide", "sweep", "ghosts", "insert", "unbox", "segment", "infect", "write"} =>
    /\ \A t \in RealTriangles(mesh) : NotInverted(mesh, t)
    /\ \A o \in Handles(mesh) : o \in mesh.seg \/ LocallyDelaunay(mesh, o)

\* Removing ghosts never follows a pointer into a triangle that was given
\* back; removing them or the box marks the vertices of the hull and no other,
\* and leaves locate() a hull edge or outer space to start from.  What carving
\* marks are the vertices of the boundary, of the outer one and of holes, and
\* no other of those that it leaves to any triangle (9890-9919, 10120-10160,
\* 12556-12561, 12685-12694).
BoundaryRight ==
  /\ pc = "ghosts" => ghost.dissolve \in Handles(mesh) /\ ghost.dissolve[1] /= DummyTri
  /\ pc \in {"skeleton", "done"} /\ ~(pc = "done" /\ Poly) =>
       /\ Sym(mesh, Outer) \in Handles(mesh)
       /\ Sym(mesh, Outer)[1] /= DummyTri => Sym(mesh, Sym(mesh, Outer))[1] = DummyTri
  /\ pc = "done" /\ ~Poly /\ ~OnALine => marked = {v[3] : v \in {w \in Kept : OnHull(w)}}
  /\ pc = "done" /\ Poly =>
       LET boundary == {o \in Triangles(mesh) \X (0 .. 2) : Sym(mesh, o)[1] = DummyTri}
           numbers(vs) == {v[3] : v \in vs}
       IN  marked \cap numbers(Kept) = numbers({Org(mesh, o) : o \in boundary})

----------------------------------------------------------------------------
\* The segments of the input, as pairs of vertices.
GivenSegments ==
  {<<Vertex(s[1]), Vertex(s[2])>> : s \in
     {r \in ToSet(input.segments) : /\ ToSet(r) \subseteq DOMAIN input.points
                                    /\ ~SamePlace(Vertex(r[1]), Vertex(r[2]))}}

\* Is v on the segment s?  Is it between v and w?
On(v, s) ==
  /\ Counterclockwise(s[1], s[2], v) = 0
  /\ (v[1] - s[1][1]) * (v[1] - s[2][1]) + (v[2] - s[1][2]) * (v[2] - s[2][2]) <= 0

\* The subsegments are just the segments that were asked for, each cut where a
\* vertex is on it or another crosses it; a vertex is made at each crossing
\* but no two in one place; the triangles cover the hull once.  The side of a
\* segment from which the search has come, what it met on the way and where
\* it was forced makes no difference (12188-12287, 11752-11815, 12086-12180).
SegmentsRight ==
  /\ pc = "infect" =>
       LET covers(s) ==
             LET on == {v \in Kept : On(v, s)}
                 next == {p \in on \X on : /\ p[1] /= p[2]
                                           /\ \A v \in on \ {p[1], p[2]} : ~On(v, p)}
             IN  \A p \in next :
                   \E o \in mesh.seg : {Org(mesh, o), Dest(mesh, o)} = {p[1], p[2]}
       IN  /\ \A s \in GivenSegments : covers(s)
           /\ \A o \in mesh.seg : \E s \in GivenSegments :
                On(Org(mesh, o), s) /\ On(Dest(mesh, o), s)
           /\ \A v \in ToSet(added) :
                Cardinality({s \in GivenSegments : On(v, s)}) > 1
           /\ \A v, w \in Kept : SamePlace(v, w) => v = w
           /\ Cardinality(Triangles(mesh)) =
                2 * Cardinality(Kept) - 2 - Cardinality({v \in Kept : OnHull(v)})
  /\ pc = "dig" => Dest(mesh, job.tri) = job.end1

\* Just those triangles are carved out from which a way leads, across no
\* segment, out of the hull or to a point of a hole, whatever the order in
\* which they were found; and the vertices that are left are those of the
\* triangles that are left (12544-12575, 12645-12780).  The search for the
\* point of a hole ends where it lies: in the triangle, on the edge or at the
\* corner that it returns, from whatever triangle it has begun (7449-7463,
\* 7722-7745).
CarvedRight ==
  /\ pc = "seek" => FoundAt(Hole)
  /\ pc = "kill" /\ walk.no = 1 =>
       LET all == Triangles(mesh)
           closed(o) == \E s \in GivenSegments : On(Org(mesh, o), s) /\ On(Dest(mesh, o), s)
           next(t) == {Sym(mesh, o)[1] : o \in {e \in Edges(t) : ~closed(e)}}
           inside(p, t) == \A o \in Edges(t) : Counterclockwise(Org(mesh, o), Dest(mesh, o), p) >= 0
           point(k) == <<2 * input.holes[k][1], 2 * input.holes[k][2]>>
           first == {t \in all : \/ DummyTri \in next(t)
                                 \/ \E k \in DOMAIN input.holes : inside(point(k), t)}
           reached[n \in 0 .. Cardinality(all)] ==
             IF n = 0 THEN first
             ELSE LET nearer == reached[n - 1]
                  IN  nearer \cup UNION {next(t) : t \in nearer \ {DummyTri}}
       IN  ToSet(viri) = reached[Cardinality(all)] \ {DummyTri}
  /\ pc = "done" /\ Poly /\ ~OnALine =>
       {mesh.vert[<<t, o>>] : t \in Triangles(mesh), o \in 0 .. 2} = Kept

\* The search for the tangent, the turning of edges, the way up the seam, the
\* walk to the vertex and around it, the removal of ghosts and box, the way
\* along a segment, the repair of both its sides and the plague all end
\* (9459-9479, 9577-9658, 9518-9681, 7505-7580, 8538-8747, 9897-9919,
\* 12112-12170, 11969-12031, 12634-12700).
Ends == <>(pc = "done")

\* locate: "Returns OUTSIDE if the point lies outside the mesh. [...] It
\* also occurs when seeking a hole or region point that a foolish user has
\* placed outside the mesh" (triangle.c:7607-7613).
HolesAreSought == pc /= "crash"

\* The recursion's "base cases (problems of two or three vertices)" (9695):
\* no part of the problem has fewer.
PartsHaveTwo == \A k \in DOMAIN todo : todo[k].op = "conquer" => todo[k].n >= 2

\* tio2delaunay: "I assume that all input points appear in tio_out in the same
\* order as they were written to tio_in. [...] let us make a couple of checks",
\* the first of which is that there are as many (delaunay.c:147-152).
PointsAsGiven == pc = "done" => out.numberofpoints = Len(input.points)
=============================================================================
