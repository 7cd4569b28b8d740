------------------------------- MODULE Holes -------------------------------
(* carveholes of triangle.c, with infecthull and plague: the triangles at  *)
(* the hull that no segment protects and those in which a hole's point     *)
(* lies are infected, infect their neighbours up to the segments, and are  *)
(* removed, with the vertices that are left alone.  Regions and the switch *)
(* for a convex mesh are left out, which delaunay_build does not use.      *)
EXTENDS Incremental

VARIABLES
  viri,  \* the infected triangles, in the order of their infection
  walk   \* the place in the loop: a handle on the hull, or a number

holeVars == <<viri, walk>>

InitHoles == viri = <<>> /\ walk = <<>>

infected(t) == t \in ToSet(viri)

----------------------------------------------------------------------------
(* infecthull *)

StartCarve ==
  /\ pc = "carve"
  /\ walk' = [hull |-> Sym(mesh, Outer)]
  /\ pc' = "infect"
  /\ UNCHANGED <<input, mesh, viri, incrementalVars, result>>

\* The next edge of the hull, clockwise around the destination.
NextHull(o) ==
  LET next[h \in Handles(mesh)] ==
        IF Oprev(mesh, h)[1] = DummyTri THEN h ELSE next[Oprev(mesh, h)]
  IN  next[Lnext(o)]

HullOpen(o) == ~infected(o[1]) /\ o \notin mesh.seg
HullClosed(o) == ~infected(o[1]) /\ o \in mesh.seg

\* Mutant: marks all corners of the triangle at a closed edge.
InfectHullCorners ==
  /\ pc = "infect"
  /\ viri' = IF HullOpen(walk.hull) THEN Append(viri, walk.hull[1]) ELSE viri
  /\ marked' = IF HullClosed(walk.hull)
               THEN marked \cup {mesh.vert[<<walk.hull[1], k>>][3] : k \in 0 .. 2}
               ELSE marked
  /\ IF NextHull(walk.hull) = Sym(mesh, Outer)
     THEN pc' = "holes" /\ walk' = [no |-> 1]
     ELSE pc' = pc /\ walk' = [hull |-> NextHull(walk.hull)]
  /\ UNCHANGED <<input, mesh, added, undead, hullsize, out, incrementalVars>>

InfectHull ==
  /\ pc = "infect"
  /\ viri' = IF HullOpen(walk.hull) THEN Append(viri, walk.hull[1]) ELSE viri
  /\ marked' = IF HullClosed(walk.hull) THEN marked \cup {Org(mesh, walk.hull)[3], Dest(mesh, walk.hull)[3]}
                                   ELSE marked
  /\ IF NextHull(walk.hull) = Sym(mesh, Outer)
     THEN pc' = "holes" /\ walk' = [no |-> 1]
     ELSE pc' = pc /\ walk' = [hull |-> NextHull(walk.hull)]
  /\ UNCHANGED <<input, mesh, added, undead, hullsize, out, incrementalVars>>

----------------------------------------------------------------------------
(* Which triangle is a hole in? *)

Hole == <<2 * input.holes[walk.no][1], 2 * input.holes[walk.no][2]>>

\* Only within the bounds of the points, and on the inner side of the edge
\* that the search starts from.
LooksForHole ==
  LET hull == Sym(mesh, Outer)
      given == {Vertex(i) : i \in DOMAIN input.points}
  IN  /\ \A k \in 1 .. 2 : /\ \E v \in given : v[k] <= Hole[k]
                           /\ \E v \in given : v[k] >= Hole[k]
      /\ Counterclockwise(Org(mesh, hull), Dest(mesh, hull), Hole) > 0

\* A search that turns around at an edge of the hull starts in outer space,
\* which has no vertices to look at.
FindHole ==
  /\ pc = "holes" /\ walk.no <= Len(input.holes)
  /\ IF LooksForHole
     THEN /\ \E o \in Starts(Hole) : at' = Begin(o, Hole)
          /\ pc' = IF at'.horiz[1] = DummyTri THEN "crash" ELSE "seek"
          /\ walk' = walk
     ELSE walk' = [no |-> walk.no + 1] /\ UNCHANGED <<pc, at>>
  /\ UNCHANGED <<input, mesh, viri, nextvertex, recenttri, result>>

SeekOn ==
  /\ pc = "seek" /\ at.how = "walk"
  /\ at' = LookBeyond(at.horiz, Hole)
  /\ UNCHANGED <<input, pc, mesh, nextvertex, recenttri, holeVars, result>>

InfectHole ==
  /\ pc = "seek" /\ at.how /= "walk"
  /\ viri' = IF at.how /= "outside" /\ ~infected(at.horiz[1])
             THEN Append(viri, at.horiz[1]) ELSE viri
  /\ walk' = [no |-> walk.no + 1]
  /\ pc' = "holes"
  /\ at' = <<>>
  /\ UNCHANGED <<input, mesh, nextvertex, recenttri, result>>

EndHoles ==
  /\ pc = "holes" /\ walk.no > Len(input.holes)
  /\ IF viri = <<>> THEN pc' = "write" /\ walk' = <<>>
                    ELSE pc' = "spread" /\ walk' = [no |-> 1]
  /\ UNCHANGED <<input, mesh, viri, incrementalVars, result>>

----------------------------------------------------------------------------
(* plague *)

Edges(t) == {t} \X (0 .. 2)

\* Is the neighbour at this edge a new victim?
Catches(o) ==
  Sym(mesh, o)[1] /= DummyTri /\ ~infected(Sym(mesh, o)[1]) /\ o \notin mesh.seg

\* Subsegments between two infected triangles die, those at others become the
\* boundary.
Spread ==
  /\ pc = "spread"
  /\ LET t == viri[walk.no]
         victims == SelectSeq([k \in 1 .. 3 |-> <<t, k - 1>>], Catches)
         dying == {o \in Edges(t) : Sym(mesh, o)[1] = DummyTri \/ infected(Sym(mesh, o)[1])}
         saved == {o \in Edges(t) \ dying : o \in mesh.seg}
     IN  /\ viri' = viri \o [k \in DOMAIN victims |-> Sym(mesh, victims[k])[1]]
         /\ mesh' = [mesh EXCEPT !.seg = @ \ (dying \cup {Sym(mesh, o) : o \in dying})]
         /\ marked' = marked \cup UNION {{Org(mesh, o)[3], Dest(mesh, o)[3]} : o \in saved}
  /\ IF walk.no = Len(viri') THEN pc' = "kill" /\ walk' = [no |-> 1]
                          ELSE pc' = pc /\ walk' = [no |-> walk.no + 1]
  /\ UNCHANGED <<input, added, undead, hullsize, out, incrementalVars>>

\* Mutant: a vertex at the boundary is left when its triangles on one side are.
AroundOneSide(o) ==
  LET left[h \in Handles(mesh)] ==
        IF h[1] = DummyTri \/ h = o THEN {} ELSE {h} \cup left[Onext(mesh, h)]
  IN  {o} \cup left[Onext(mesh, o)]

\* The handles with the origin of o, counterclockwise from it to the boundary
\* or around, and clockwise.
AroundOrg(o) ==
  LET left[h \in Handles(mesh)] ==
        IF h[1] = DummyTri \/ h = o THEN {} ELSE {h} \cup left[Onext(mesh, h)]
      right[h \in Handles(mesh)] ==
        IF h[1] = DummyTri \/ h = o THEN {} ELSE {h} \cup right[Oprev(mesh, h)]
  IN  {o} \cup left[Onext(mesh, o)] \cup right[Oprev(mesh, o)]

\* The first infected triangle at a vertex decides whether it is left alone,
\* and takes it out of all the others; then the triangle is cut off.
Kill ==
  /\ pc = "kill"
  /\ LET t == viri[walk.no]
         tested == {o \in Edges(t) : Org(mesh, o) /= NoVertex}
         ill(o) == {h \in AroundOrg(o) : infected(h[1])}
         alone == {o \in tested : ill(o) = AroundOrg(o)}
         without == FoldSet(LAMBDA o, m : [m EXCEPT !.vert[Lnext(o)] = NoVertex],
                            mesh, UNION {ill(o) : o \in tested})
         inner == {o \in Edges(t) : Sym(mesh, o)[1] /= DummyTri}
         cut == FoldSet(LAMBDA o, m : Dissolve(m, Sym(mesh, o)), without, inner)
     IN  /\ undead' = undead \cup {Org(mesh, o) : o \in alone}
         /\ hullsize' = hullsize + Cardinality(inner) - (3 - Cardinality(inner))
         /\ mesh' = TriangleDealloc(cut, t)
  /\ IF walk.no = Len(viri) THEN pc' = "write" /\ viri' = <<>> /\ walk' = <<>>
                         ELSE pc' = pc /\ viri' = viri /\ walk' = [no |-> walk.no + 1]
  /\ UNCHANGED <<input, added, marked, out, incrementalVars>>

----------------------------------------------------------------------------
HolesNext ==
  \/ StartCarve \/ InfectHull \/ FindHole \/ SeekOn \/ InfectHole \/ EndHoles
  \/ Spread \/ Kill
=============================================================================
