----------------------------- MODULE Incremental ----------------------------
(* incrementaldelaunay of triangle.c: the vertices are put one by one into *)
(* a triangle around them all.  Each is located by walking through the     *)
(* mesh, splits the edge or triangle where it lies, and then the edges     *)
(* around it are turned until all are Delaunay again.  The corners of the  *)
(* box, infvertex1 to 3, have coordinates for the walk and count as        *)
(* infinitely far for the turning.  No vertex inside of the box meets an   *)
(* edge of the boundary, nor, as there are none yet, a segment; what       *)
(* insertvertex does there when it splits a segment is in Segments.        *)
EXTENDS Triangulation, FiniteSetsExt

VARIABLES
  nextvertex,  \* the number of the vertex to be inserted
  recenttri,   \* the handle that locate may start from, or Outer for none
  at           \* horiz of insertvertex, and how the search ended; the edges
               \* of removebox

incrementalVars == <<nextvertex, recenttri, at>>

InitIncremental == nextvertex = 1 /\ recenttri = Outer /\ at = <<>>

newvertex == Vertex(nextvertex)

IsInfinite(v) == v[3] < 0

\* The lowest and highest coordinates, and by how much they differ at most.
MinCoordinate(k) == Min({v[k] : v \in Vertices})
MaxCoordinate(k) == Max({v[k] : v \in Vertices})
Width ==
  LET size == Max({MaxCoordinate(k) - MinCoordinate(k) : k \in 1 .. 2})
  IN  IF size = 0 THEN 2 ELSE size

Box == << <<MinCoordinate(1) - 50 * Width, MinCoordinate(2) - 40 * Width, -1>>,
          <<MaxCoordinate(1) + 50 * Width, MinCoordinate(2) - 40 * Width, -2>>,
          <<(MinCoordinate(1) + MaxCoordinate(1)) \div 2,
            MaxCoordinate(2) + 60 * Width, -3>> >>

BoundingBox ==
  /\ pc = "delaunay" /\ input.incremental
  /\ mesh' = [MakeTriangle(mesh, Box[1], Box[2], Box[3]) EXCEPT
                 !.adj[Outer] = <<NextTri(mesh), 0>>]
  /\ pc' = "insert"
  /\ UNCHANGED <<input, incrementalVars, result>>

----------------------------------------------------------------------------
(* locate and preciselocate *)

Distance(o, p) ==
  LET dx == p[1] - Org(mesh, o)[1]
      dy == p[2] - Org(mesh, o)[2]
  IN  dx * dx + dy * dy

\* The handle on the boundary, the recent one if it is nearer, or a triangle
\* that is nearer than both, if one of the random samples has met it.
Starts(p) ==
  LET hull == Sym(mesh, Outer)
      first == IF /\ recenttri[1] \in Triangles(mesh)
                  /\ \/ SamePlace(Org(mesh, recenttri), p)
                     \/ Distance(recenttri, p) < Distance(hull, p)
               THEN recenttri ELSE hull
      sampled == {o \in Triangles(mesh) \X {0} : Distance(o, p) < Distance(first, p)}
  IN  {first} \cup sampled

Between(a, v, b) == a < v <=> v < b

Located(how, o) == [how |-> how, horiz |-> o]

\* What locate finds out about the triangle that it starts from.
Begin(o, p) ==
  LET org == Org(mesh, o)
      dest == Dest(mesh, o)
      ahead == Counterclockwise(org, dest, p)
  IN  CASE SamePlace(org, p) -> Located("vertex", o)
        [] ~SamePlace(org, p) /\ SamePlace(dest, p) ->
             Located("vertex", Lnext(o))
        [] OTHER ->
             IF /\ ahead = 0
                /\ \A k \in 1 .. 2 : Between(org[k], p[k], dest[k])
             THEN Located("edge", o)
             ELSE Located("walk", IF ahead < 0 THEN Sym(mesh, o) ELSE o)

Locate ==
  /\ pc = "insert" /\ nextvertex <= Len(input.points)
  /\ \E o \in Starts(newvertex) : at' = Begin(o, newvertex)
  /\ pc' = "located"
  /\ UNCHANGED <<input, mesh, nextvertex, recenttri, result>>

\* Positive when p is beyond the edge from org to apex, or from apex to dest.
Destorient(o, p) == Counterclockwise(Org(mesh, o), Apex(mesh, o), p)
Orgorient(o, p) == Counterclockwise(Apex(mesh, o), Dest(mesh, o), p)

\* Mutant: the two edges are mixed up.
ExitOpposite(o, p) == IF Orgorient(o, p) > 0 THEN Lprev(o) ELSE Lnext(o)

\* The edge that the walk to p crosses; if p is beyond both, the one in whose
\* direction it lies.
Exit(o, p) ==
  LET org == Org(mesh, o)
      dest == Dest(mesh, o)
      apex == Apex(mesh, o)
      towards == (apex[1] - p[1]) * (dest[1] - org[1]) +
                 (apex[2] - p[2]) * (dest[2] - org[2]) > 0
  IN  IF Destorient(o, p) > 0 /\ (Orgorient(o, p) > 0 => towards) THEN Lprev(o) ELSE Lnext(o)

\* One pass of preciselocate: p is on this side of the line through org and
\* dest.
LookBeyond(o, p) ==
  LET next == Sym(mesh, Exit(o, p)) IN
  IF SamePlace(Apex(mesh, o), p) THEN Located("vertex", Lprev(o))
  ELSE IF Destorient(o, p) > 0 \/ Orgorient(o, p) > 0
  THEN IF next[1] = DummyTri THEN Located("outside", Exit(o, p)) ELSE Located("walk", next)
  ELSE IF Destorient(o, p) = 0 THEN Located("edge", Lprev(o))
  ELSE IF Orgorient(o, p) = 0 THEN Located("edge", Lnext(o))
  ELSE Located("triangle", o)

WalkOn ==
  /\ pc = "located" /\ at.how = "walk"
  /\ at' = LookBeyond(at.horiz, newvertex)
  /\ UNCHANGED <<input, pc, mesh, nextvertex, recenttri, result>>

----------------------------------------------------------------------------
(* insertvertex *)

Duplicate ==
  /\ pc = "located" /\ at.how = "vertex"
  /\ undead' = undead \cup {newvertex}
  /\ recenttri' = at.horiz
  /\ nextvertex' = nextvertex + 1
  /\ pc' = "insert"
  /\ at' = <<>>
  /\ UNCHANGED <<input, mesh, added, marked, hullsize, out>>

\* After the split the edges opposite to the new vertex are looked at, from
\* horiz around it until first is met again.
Circle(m, horiz) == [first |-> Org(m, horiz), horiz |-> horiz]

\* The triangle of h becomes three around v.
SplitIn(h, v) ==
  LET left(o) == <<NextTri(mesh), o>>
      right(o) == <<NextTri(mesh) + 1, o>>
      made == MakeTriangles(mesh, << <<Dest(mesh, h), Apex(mesh, h), v>>,
                                     <<Apex(mesh, h), Org(mesh, h), v>> >>)
  IN  BondEach([made EXCEPT !.vert[h] = v],
        << <<left(0), Sym(mesh, Lnext(h))>>, <<right(0), Sym(mesh, Lprev(h))>>,
           <<left(1), right(2)>>, <<Lnext(h), left(2)>>, <<Lprev(h), right(1)>> >>)

SplitTriangle ==
  /\ pc = "located" /\ at.how = "triangle"
  /\ LET h == at.horiz
         split == SplitIn(h, newvertex)
     IN  /\ mesh' = split
         /\ at' = Circle(split, h)
  /\ pc' = "flip"
  /\ UNCHANGED <<input, nextvertex, recenttri, result>>

\* The triangles on both sides of the edge h are halved, so that it ends at v
\* and a new edge goes on from there; if h is a segment, the new edge is one too.
SplitAt(h, v) ==
  LET topright == Lnext(Sym(mesh, h))
      made == MakeTriangles(mesh, << <<Org(mesh, h), Dest(mesh, topright), v>>,
                                     <<Apex(mesh, h), Org(mesh, h), v>> >>)
      top(o) == <<NextTri(mesh), o>>
      bottom(o) == <<NextTri(mesh) + 1, o>>
      moved == {p \in {<<Lprev(h), bottom(0)>>, <<topright, top(0)>>} : p[1] \in mesh.seg}
      seg == (mesh.seg \ {p[1] : p \in moved}) \cup {p[2] : p \in moved}
               \cup IF h \in mesh.seg THEN {bottom(1), top(2)} ELSE {}
  IN  BondEach([made EXCEPT !.vert[Lnext(h)] = v, !.vert[Lnext(topright)] = v, !.seg = seg],
        << <<bottom(0), Sym(mesh, Lprev(h))>>, <<bottom(2), Lprev(h)>>,
           <<top(0), Sym(mesh, topright)>>, <<top(1), topright>>, <<top(2), bottom(1)>> >>)

SplitEdge ==
  /\ pc = "located" /\ at.how = "edge"
  /\ LET h == at.horiz
         split == SplitAt(h, newvertex)
     IN  /\ mesh' = split
         /\ at' = Circle(split, Lnext(h))
  /\ pc' = "flip"
  /\ UNCHANGED <<input, nextvertex, recenttri, result>>

\* Mutant: it is mixed up at which end the infinite vertex is.
MustFlipMixed(h) ==
  LET new == Apex(mesh, h)
      top == Sym(mesh, h)
      left == Dest(mesh, h)
      right == Org(mesh, h)
      far == Apex(mesh, top)
  IN  /\ h \notin mesh.seg /\ top[1] /= DummyTri
      /\ IF IsInfinite(right) THEN Counterclockwise(new, right, far) > 0
         ELSE IF IsInfinite(left) THEN Counterclockwise(far, left, new) > 0
         ELSE ~IsInfinite(far) /\ InCircle(left, new, right, far) > 0

\* Is the edge not Delaunay?  An infinite vertex is in no circle, and in its
\* triangles the circle is a line.  A segment is never turned.
MustFlip(h) ==
  LET new == Apex(mesh, h)
      top == Sym(mesh, h)
      left == Dest(mesh, h)
      right == Org(mesh, h)
      far == Apex(mesh, top)
  IN  /\ h \notin mesh.seg /\ top[1] /= DummyTri
      /\ IF IsInfinite(left) THEN Counterclockwise(new, right, far) > 0
         ELSE IF IsInfinite(right) THEN Counterclockwise(far, left, new) > 0
         ELSE ~IsInfinite(far) /\ InCircle(left, new, right, far) > 0

\* "split" when the new vertex is on a segment.
FlipEdge ==
  /\ pc \in {"flip", "split"} /\ MustFlip(at.horiz)
  /\ mesh' = Flip(mesh, at.horiz)
  /\ at' = [at EXCEPT !.horiz = Lprev(@)]
  /\ UNCHANGED <<input, pc, nextvertex, recenttri, result>>

Inserted ==
  Dest(mesh, at.horiz) = at.first \/ Sym(mesh, Lnext(at.horiz))[1] = DummyTri

NextEdge ==
  /\ pc \in {"flip", "split"} /\ ~MustFlip(at.horiz) /\ ~Inserted
  /\ at' = [at EXCEPT !.horiz = Lnext(Sym(mesh, Lnext(@)))]
  /\ UNCHANGED <<input, pc, mesh, nextvertex, recenttri, result>>

LastEdge ==
  /\ pc = "flip" /\ ~MustFlip(at.horiz) /\ Inserted
  /\ recenttri' = Lprev(at.horiz)
  /\ nextvertex' = nextvertex + 1
  /\ pc' = "insert"
  /\ at' = <<>>
  /\ UNCHANGED <<input, mesh, result>>

----------------------------------------------------------------------------
(* removebox *)

\* The box has three triangles at its sides; the others have one corner of it.
StartBox ==
  /\ pc = "insert" /\ nextvertex > Len(input.points)
  /\ LET boundary == Sym(mesh, Outer)
         nextedge == Sym(mesh, Lnext(boundary))
         inner == Sym(mesh, Lprev(nextedge))
         search == IF Sym(mesh, Lnext(nextedge))[1] = DummyTri
                   THEN Sym(mesh, Lprev(inner)) ELSE inner
     IN  /\ mesh' = [mesh EXCEPT !.adj[Outer] = search]
         /\ at' = [nextedge |-> nextedge, finaledge |-> Lprev(boundary)]
  /\ hullsize' = -2
  /\ pc' = "unbox"
  /\ UNCHANGED <<input, nextvertex, recenttri, added, undead, marked, out>>

\* One triangle of the box goes, and the triangle inside of it gets outer
\* space for a neighbour; at a corner the way goes on along its other side.
RemoveBox ==
  /\ pc = "unbox" /\ at.nextedge /= at.finaledge
  /\ LET inner == Sym(mesh, Lprev(at.nextedge))
         dissolved == Dissolve(mesh, inner)
         dead == Lnext(at.nextedge)
         next == Sym(dissolved, dead)
     IN  /\ marked' = IF Poly \/ inner[1] = DummyTri THEN marked ELSE marked \cup {Org(mesh, inner)[3]}
         /\ mesh' = TriangleDealloc(dissolved, dead[1])
         /\ at' = [at EXCEPT !.nextedge = IF next[1] = DummyTri THEN inner ELSE next]
  /\ hullsize' = hullsize + 1
  /\ UNCHANGED <<input, pc, nextvertex, recenttri, added, undead, out>>

EndBox ==
  /\ pc = "unbox" /\ at.nextedge = at.finaledge
  /\ mesh' = TriangleDealloc(mesh, at.finaledge[1])
  /\ at' = <<>>
  /\ pc' = AfterDelaunay
  /\ UNCHANGED <<input, nextvertex, recenttri, result>>

----------------------------------------------------------------------------
IncrementalNext ==
  \/ BoundingBox \/ Locate \/ WalkOn \/ Duplicate \/ SplitTriangle \/ SplitEdge
  \/ FlipEdge \/ NextEdge \/ LastEdge \/ StartBox \/ RemoveBox \/ EndBox

\* What a search for p that has come to at says of it is true.
FoundAt(p) ==
  LET o == at.horiz
      org == Org(mesh, o)
      dest == Dest(mesh, o)
      apex == Apex(mesh, o)
  IN  CASE at.how = "vertex" -> SamePlace(org, p)
        [] at.how = "edge" ->
             /\ Counterclockwise(org, dest, p) = 0
             /\ \A k \in 1 .. 2 : \/ org[k] <= p[k] /\ p[k] <= dest[k]
                                  \/ dest[k] <= p[k] /\ p[k] <= org[k]
        [] at.how = "triangle" ->
             /\ Counterclockwise(org, dest, p) > 0
             /\ Counterclockwise(dest, apex, p) > 0
             /\ Counterclockwise(apex, org, p) > 0
        [] at.how = "walk" -> Counterclockwise(org, dest, p) >= 0
        [] at.how = "outside" ->
             Counterclockwise(org, dest, p) < 0 /\ Sym(mesh, o)[1] = DummyTri

\* Whatever else triangulate does, the other algorithms in place of this one
\* and what comes after it, never leads to a place in it.
Elsewhere == pc' \notin {"delaunay", "insert", "located", "flip", "unbox"}

IncrementalSpec ==
  /\ InitCommon /\ InitIncremental
  /\ [][IncrementalNext \/ Elsewhere]_<<input, pc, mesh, result, incrementalVars>>

\* A vertex is found where it lies, in the triangle, on the edge or at the
\* corner that the walk has come to, from whatever triangle it has begun, and
\* never beyond the box (triangle.c:7449-7463, 7505-7580, 7722-7745).  After
\* each split and each turn of an edge, whatever is infinitely far, all bonds
\* are mutual, outer space knows an edge beyond which it is, and no triangle is
\* flat or inverted (8280-8432, 8434-8490, 8538-8747, 7871-7957).  The way
\* around the box never follows a pointer out of the mesh or into a triangle
\* that was given back, and takes nothing from the triangles inside but their
\* neighbours in the box (10120-10160).
InsertionRight ==
  /\ pc = "located" => at.how /= "outside" /\ FoundAt(newvertex)
  /\ pc \in {"insert", "located", "flip"} =>
       /\ Sym(mesh, Outer)[1] \in Triangles(mesh) /\ Sym(mesh, Sym(mesh, Outer)) = Outer
       /\ \A o \in Handles(mesh) : o[1] /= DummyTri => Reciprocal(mesh, o)
       /\ \A t \in Triangles(mesh) : NotInverted(mesh, t)
  /\ pc = "unbox" =>
       /\ at.nextedge \in Handles(mesh) /\ at.nextedge[1] /= DummyTri
       /\ \A o \in Handles(mesh) : o[1] \in RealTriangles(mesh) => Reciprocal(mesh, o)
=============================================================================
