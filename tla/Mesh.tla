-------------------------------- MODULE Mesh -------------------------------
(* The mesh of triangle.c and its primitives.  A mesh has two functions on *)
(* the handles <<t, o>> of its triangles t, o \in 0..2 the orientation:    *)
(* adj, the handle that the pointer of that edge encodes, and vert, the    *)
(* vertex across from that edge; the set seg of handles whose edge has a   *)
(* pointer to a subsegment; and the number of triangles made so far.       *)
(* A vertex is <<x, y, number>> or NoVertex, for NULL, and the corners of  *)
(* incrementaldelaunay's box have negative numbers; triangle 0 is          *)
(* dummytri, the outer space.                                              *)
(* Coordinates are integers, so that the signs of the determinants are     *)
(* exact, as triangle.c's adaptive arithmetic makes them.                  *)
EXTENDS Integers, FiniteSets, Functions, SequencesExt

NoVertex == <<>>
DummyTri == 0
Outer == <<DummyTri, 0>>

Handles(m) == DOMAIN m.adj
Triangles(m) == {o[1] : o \in Handles(m)} \ {DummyTri}

----------------------------------------------------------------------------
(* Handles.  Turn(o, 1) is lnext, counterclockwise, and Turn(o, 2) lprev.  *)

Turn(o, d) == <<o[1], (o[2] + d) % 3>>
Lnext(o) == Turn(o, 1)
Lprev(o) == Turn(o, 2)

Sym(m, o) == m.adj[o]
Onext(m, o) == Sym(m, Lprev(o))
Oprev(m, o) == Lnext(Sym(m, o))
Dnext(m, o) == Lprev(Sym(m, o))
Dprev(m, o) == Sym(m, Lnext(o))

Org(m, o) == m.vert[Lnext(o)]
Dest(m, o) == m.vert[Lprev(o)]
Apex(m, o) == m.vert[o]

----------------------------------------------------------------------------
(* Changes of a mesh. *)

SetCorners(m, o, org, dest, apex) ==
  [m EXCEPT !.vert[Lnext(o)] = org, !.vert[Lprev(o)] = dest, !.vert[o] = apex]

Bond(m, a, b) == [m EXCEPT !.adj[a] = b, !.adj[b] = a]
Dissolve(m, o) == [m EXCEPT !.adj[o] = Outer]

\* Several bonds, one after the other ...
BondEach(m, bonds) ==
  LET bonded[k \in 0 .. Len(bonds)] ==
        IF k = 0 THEN m ELSE Bond(bonded[k - 1], bonds[k][1], bonds[k][2])
  IN  bonded[Len(bonds)]

\* ... and at once, where no two of them meet.
BondAll(m, bonds) ==
  LET both == bonds \cup {<<b[2], b[1]>> : b \in bonds}
      partner(o) == CHOOSE p \in Handles(m) : <<o, p>> \in both
  IN  [m EXCEPT !.adj = [o \in Handles(m) |->
         IF \E b \in both : b[1] = o THEN partner(o) ELSE m.adj[o]]]

\* The mesh with nothing but outer space.
EmptyMesh == [adj |-> [o \in {DummyTri} \X (0 .. 2) |-> Outer],
              vert |-> [o \in {DummyTri} \X (0 .. 2) |-> NoVertex],
              seg |-> {}, made |-> 0]

\* Triangles get numbers as they are made, also those for which the pool takes
\* the memory of another: no bond points to it any more.
NextTri(m) == m.made + 1

\* New triangles with these corners <<org, dest, apex>>; every neighbour is
\* outer space at first.
MakeTriangles(m, corners) ==
  LET new == (m.made + 1 .. m.made + Len(corners)) \X (0 .. 2)
      corner(o) == corners[o[1] - m.made][((o[2] + 2) % 3) + 1]
      all == Handles(m) \cup new
  IN  [adj |-> [o \in all |-> IF o \in new THEN Outer ELSE m.adj[o]],
       vert |-> [o \in all |-> IF o \in new THEN corner(o) ELSE m.vert[o]],
       seg |-> m.seg, made |-> m.made + Len(corners)]

MakeTriangle(m, org, dest, apex) == MakeTriangles(m, << <<org, dest, apex>> >>)

\* Mutant: the left neighbour above stays where it was.
FlipForgets(m, e) ==
  LET top == Sym(m, e) IN
  SetCorners(SetCorners(BondEach(m,
        << <<Lprev(top), Sym(m, Lnext(e))>>, <<Lnext(e), Sym(m, Lprev(e))>>,
           <<Lprev(e), Sym(m, Lnext(top))>> >>),
        e, Apex(m, top), Apex(m, e), Org(m, e)),
        top, Apex(m, e), Apex(m, top), Dest(m, e))

\* Subsegments stay at their places when the edges of the two triangles at e
\* turn.
TurnSegments(m, e) ==
  LET top == Sym(m, e)
      after == << <<Lnext(top), Lprev(top)>>, <<Lprev(top), Lnext(e)>>,
                  <<Lnext(e), Lprev(e)>>, <<Lprev(e), Lnext(top)>> >>
      moved == {k \in 1 .. 4 : after[k][2] \in m.seg}
  IN  (m.seg \ {after[k][1] : k \in 1 .. 4}) \cup {after[k][1] : k \in moved}

\* The edge e between two triangles turns counterclockwise: the two triangles
\* become those on both sides of the line between their apexes.
Flip(m, e) ==
  LET top == Sym(m, e)
      bonded == BondEach(m, << <<Lprev(top), Sym(m, Lnext(e))>>,
                               <<Lnext(e), Sym(m, Lprev(e))>>,
                               <<Lprev(e), Sym(m, Lnext(top))>>,
                               <<Lnext(top), Sym(m, Lprev(top))>> >>)
  IN  SetCorners(SetCorners([bonded EXCEPT !.seg = TurnSegments(m, e)],
                            e, Apex(m, top), Apex(m, e), Org(m, e)),
                 top, Apex(m, e), Apex(m, top), Dest(m, e))

TriangleDealloc(m, t) ==
  LET h == {o \in Handles(m) : o[1] /= t} IN
  [m EXCEPT !.adj = Restrict(@, h), !.vert = Restrict(@, h), !.seg = @ \cap h]

----------------------------------------------------------------------------
(* Geometry. *)

\* Before orders vertices by their coordinate on the axis, 0 for x, and by
\* the other where they agree.
Before(a, b, axis) ==
  LET k == axis + 1 IN
  \/ a[k] < b[k]
  \/ a[k] = b[k] /\ a[3 - k] < b[3 - k]

\* Positive when a, b, c run counterclockwise, zero when they are on a line.
Counterclockwise(a, b, c) ==
  (a[1] - c[1]) * (b[2] - c[2]) - (a[2] - c[2]) * (b[1] - c[1])

\* Positive when d is inside of the circle through a, b, c, if these run
\* counterclockwise.
InCircle(a, b, c, d) ==
  LET dx(p) == p[1] - d[1]
      dy(p) == p[2] - d[2]
      lift(p) == dx(p) * dx(p) + dy(p) * dy(p)
      minor(p, q) == dx(p) * dy(q) - dx(q) * dy(p)
  IN  lift(a) * minor(b, c) + lift(b) * minor(c, a) + lift(c) * minor(a, b)

----------------------------------------------------------------------------
(* What checkmesh and checkdelaunay ask of a mesh. *)

IsInput(v) == Len(v) = 3 /\ v[3] > 0
IsReal(m, t) == \A o \in {t} \X (0 .. 2) : IsInput(m.vert[o])
RealTriangles(m) == {t \in Triangles(m) : IsReal(m, t)}

\* In the place of a missing vertex the sweep line keeps its events.
SameVertex(v, w) == v = w \/ (Len(v) < 3 /\ Len(w) < 3)

\* A neighbour knows its neighbour, and both agree on their common edge.
Reciprocal(m, o) ==
  Sym(m, o)[1] /= DummyTri =>
    /\ Sym(m, Sym(m, o)) = o
    /\ SameVertex(Org(m, Sym(m, o)), Dest(m, o))
    /\ SameVertex(Dest(m, Sym(m, o)), Org(m, o))

NotInverted(m, t) ==
  Counterclockwise(m.vert[<<t, 1>>], m.vert[<<t, 2>>], m.vert[<<t, 0>>]) > 0

\* No edge between two triangles would be better turned.
LocallyDelaunay(m, o) ==
  LET opposite == Sym(m, o) IN
  IsReal(m, o[1]) /\ opposite[1] \in RealTriangles(m) =>
    InCircle(Org(m, o), Dest(m, o), Apex(m, o), Apex(m, opposite)) <= 0
=============================================================================
