---------------------------- MODULE Triangulation ---------------------------
(* What triangulate's algorithms have in common: the vertices that they    *)
(* get, the mesh that they make, and the arrays that are written from it,  *)
(* which tio2delaunay reads.                                               *)
EXTENDS Mesh

CONSTANT
  Inputs  \* what triangulate gets: the points <<x, y>>, the segments <<j, k>>
          \* between the j-th and the k-th of them, points in the holes, and
          \* whether it shall be incremental, or what the sweep line draws

ASSUME InputsAssumption ==
  \A i \in Inputs :
    /\ i.points \in Seq(Int \X Int) /\ Len(i.points) >= 3
    /\ i.incremental \in BOOLEAN
    /\ ToSet(i.sweepline) \subseteq {"left", "right", "none"}

VARIABLES
  input,     \* what is given to triangulate
  pc,        \* where the program is
  mesh,
  added,     \* the vertices that were added to those given
  undead,    \* the vertices that are left out, as others are in their places,
             \* or no triangle is around them
  marked,    \* the numbers of the vertices whose boundary mark is 1
  hullsize,  \* the edges of the hull that were counted
  out        \* the arrays that triangulate has written

result == <<added, undead, marked, hullsize, out>>

InitCommon ==
  /\ input \in Inputs
  /\ pc = "delaunay"
  /\ mesh = EmptyMesh
  /\ added = <<>> /\ undead = {} /\ marked = {} /\ hullsize = 0 /\ out = <<>>

\* Coordinates are doubled, so that the middle between two is an integer.
Vertex(i) == <<2 * input.points[i][1], 2 * input.points[i][2], i>>
Vertices == {Vertex(i) : i \in DOMAIN input.points} \cup ToSet(added)
SamePlace(v, w) == v[1] = w[1] /\ v[2] = w[2]

\* delaunay_build gives the switch p when there are segments.
Poly == input.segments /= <<>>

\* What comes after the triangulation of the vertices.
AfterDelaunay == IF Poly THEN "skeleton" ELSE "write"

----------------------------------------------------------------------------
\* Triangles are numbered from 0 as the pool has them; outer space is -1.
Number(t) == IF t = DummyTri THEN -1 ELSE Cardinality({u \in Triangles(mesh) : u < t})

\* Mutant: outer space is not a neighbour of higher number.
WritesInner(o) == o[1] /= DummyTri /\ o[1] < Sym(mesh, o)[1]

\* An edge is written by the first of its triangles.
Writes(o) ==
  o[1] /= DummyTri /\ (o[1] < Sym(mesh, o)[1] \/ Sym(mesh, o)[1] = DummyTri)

\* With all vertices on a line there are no triangles, nor edges.
HullEdges == IF Triangles(mesh) = {} THEN 0 ELSE hullsize

Write ==
  /\ pc = "write"
  /\ LET of(n) == CHOOSE t \in Triangles(mesh) : Number(t) = n
         all == 0 .. Cardinality(Triangles(mesh)) - 1
         corner(n, o) == mesh.vert[<<of(n), o>>][3]
         neighbor(n, o) == Number(Sym(mesh, <<of(n), o>>)[1])
     IN  out' = [triangles |-> [n \in all |-> <<corner(n, 1), corner(n, 2), corner(n, 0)>>],
                 neighbors |-> [n \in all |-> <<neighbor(n, 1), neighbor(n, 2), neighbor(n, 0)>>],
                 edges |-> [o \in {h \in Handles(mesh) : Writes(h)} |->
                              <<Org(mesh, o)[3], Dest(mesh, o)[3]>>],
                 numberofpoints |-> Cardinality(Vertices),
                 numberofedges |-> (3 * Cardinality(all) + HullEdges) \div 2]
  /\ pc' = "done"
  /\ UNCHANGED <<input, mesh, added, undead, marked, hullsize>>

----------------------------------------------------------------------------
(* Properties of every algorithm. *)

Kept == Vertices \ undead
OnALine == \A u, v, w \in Kept : Counterclockwise(u, v, w) = 0

\* A vertex on the hull: all others are on one side of a line through it.
OnHull(v) == \E w \in Kept \ {v} : \A u \in Kept : Counterclockwise(v, w, u) >= 0

\* In the end no vertex is inside of a triangle's circle, there are as many
\* triangles and hull edges as the vertices demand, and every vertex is in
\* one, but those in the place of another: nothing inside of the hull is left
\* out (triangle.c:9934-9997, 10186-10220).
DelaunayTriangulation ==
  pc = "done" /\ ~Poly =>
    LET onhull == Cardinality({v \in Kept : OnHull(v)})
        corners == {mesh.vert[<<t, o>>] : t \in Triangles(mesh), o \in 0 .. 2}
    IN  /\ \A v \in Vertices : Cardinality({w \in Kept : SamePlace(v, w)}) = 1
        /\ \A t \in Triangles(mesh) :
             /\ NotInverted(mesh, t)
             /\ \A v \in Kept :
                  InCircle(mesh.vert[<<t, 1>>], mesh.vert[<<t, 2>>], mesh.vert[<<t, 0>>], v) <= 0
        /\ ~OnALine => /\ Cardinality(Triangles(mesh)) = 2 * Cardinality(Kept) - 2 - onhull
                       /\ corners = Kept
                       /\ hullsize = onhull
        /\ OnALine => Triangles(mesh) = {}

\* What tio2delaunay and the search rely on: the k-th neighbour is across
\* from the k-th corner and shares the two others, and every side of a
\* triangle is written as an edge once, as many as were announced
\* (15776, 14797-14850, 15136-15165).
OutputRight ==
  pc = "done" =>
    LET sides(n) == {{out.triangles[n][i], out.triangles[n][j]} : i, j \in 1 .. 3} IN
    /\ \A n \in DOMAIN out.triangles, k \in 1 .. 3 :
         LET across == out.neighbors[n][k]
             side == {out.triangles[n][j] : j \in (1 .. 3) \ {k}}
             sharing == {u \in DOMAIN out.triangles \ {n} : side \in sides(u)}
         IN  sharing = IF across = -1 THEN {} ELSE {across}
    /\ {{e[1], e[2]} : e \in Range(out.edges)} =
         {s \in UNION {sides(n) : n \in DOMAIN out.triangles} : Cardinality(s) = 2}
    /\ Cardinality(DOMAIN out.edges) = out.numberofedges
=============================================================================
