-------------------------------- MODULE Sweep ------------------------------
(* sweeplinedelaunay of triangle.c: a line sweeps upwards over the         *)
(* vertices.  The mesh below it is bounded by the front, a ring of ghost   *)
(* triangles whose origin is missing; three neighbouring vertices of the   *)
(* front that turn left wait for the line to pass the top of their circle, *)
(* and then an edge of the front turns and covers them.  A ghost that      *)
(* waits has a pointer to its event in the place of its origin: here a     *)
(* sequence of one number.  EventHeap has the heap that hands out the      *)
(* event that is due first; of several any one may be it.                  *)
(*                                                                         *)
(* The place of a vertex on the front is found with a splay tree of some   *)
(* of its ghosts, chosen by drawing numbers: input.sweepline repeats the   *)
(* outcomes "left", "right" and "none".  The heights of events are whole   *)
(* Grains, tops of circles rounded down; inputs have coordinates for which *)
(* this leaves events in their order.                                      *)
EXTENDS DivConq

\* bound: the finest one for which TLC's integers hold the heights of inputs.
Grain == 46

VARIABLES
  events,      \* where and when each of the events is, and of what
  heap,        \* the events that wait
  freeevents,  \* the list of those that are free
  splayroot,
  front        \* bottommost and the other local variables

sweepVars == <<events, heap, freeevents, splayroot, front>>

InitSweep ==
  events = <<>> /\ heap = {} /\ freeevents = <<>> /\ splayroot = <<>> /\ front = <<>>

----------------------------------------------------------------------------
(* Events. *)

MaxEvents == (3 * Len(input.points)) \div 2

Point(v) == <<Grain * v[1], Grain * v[2]>>

Site(v) == [of |-> "vertex", vertex |-> v, key |-> Point(v)]
CircleEvent(o, top) == [of |-> "circle", tri |-> o, key |-> top]

\* By height; circles have a place left of all vertices.
Due(e, f) ==
  LET a == events[e]
      b == events[f] IN
  IF a.key[2] /= b.key[2] THEN a.key[2] < b.key[2]
  ELSE IF b.of = "circle" THEN a.of = "circle"
  ELSE a.of = "circle" \/ a.key[1] <= b.key[1]

IsNext(e) == e \in heap /\ \A f \in heap : Due(e, f)

\* The largest integer whose square is not larger than n.
Root[n \in Nat] ==
  LET in[low \in Nat, high \in Nat] ==
        LET middle == (low + high + 1) \div 2 IN
        IF low = high THEN low
        ELSE IF middle * middle <= n THEN in[middle, high] ELSE in[low, middle - 1]
  IN  in[0, 46340]

\* The topmost point of the circle through a, b and c.
CircleTop(a, b, c) ==
  LET ac == <<a[1] - c[1], a[2] - c[2]>>
      bc == <<b[1] - c[1], b[2] - c[2]>>
      ab == <<a[1] - b[1], a[2] - b[2]>>
      len2(p) == p[1] * p[1] + p[2] * p[2]
      twice == 2 * Counterclockwise(a, b, c)
  IN  <<Grain * c[1] - (Grain * (ac[2] * len2(bc) - bc[2] * len2(ac))) \div twice,
        Grain * c[2] + (Grain * (ac[1] * len2(bc) - bc[1] * len2(ac))
                          + Root[Grain * Grain * len2(ac) * len2(bc) * len2(ab)]) \div twice>>

\* What changes when events are called off, and made.
Events == [mesh |-> mesh, events |-> events, heap |-> heap, free |-> freeevents]

\* The ghost o waits no longer.
check4deadevent(s, o) ==
  LET e == Org(s.mesh, o) IN
  IF e = NoVertex THEN s
  ELSE [s EXCEPT !.heap = @ \ {e[1]}, !.free = <<e[1]>> \o @,
                 !.mesh.vert[Lnext(o)] = NoVertex]

\* The ghost o waits for the circle of three vertices, if they turn left.
Await(s, o, v) ==
  IF Counterclockwise(v[1], v[2], v[3]) <= 0 THEN s
  ELSE LET e == Head(s.free) IN
       [mesh |-> [s.mesh EXCEPT !.vert[Lnext(o)] = <<e>>],
        events |-> [s.events EXCEPT ![e] = CircleEvent(o, CircleTop(v[1], v[2], v[3]))],
        heap |-> s.heap \cup {e}, free |-> Tail(s.free)]

----------------------------------------------------------------------------
(* The splay tree.  A node has its kids on the left, FALSE, and right. *)

Leaf == <<>>
Node(o, dest, left, right) ==
  [keyedge |-> o, keydest |-> dest,
   kid |-> [side \in BOOLEAN |-> IF side THEN right ELSE left]]

\* The branch of the hyperbola between the two vertices of the ghost o.
RightOfHyperbola(m, o, p) ==
  LET left == Point(Dest(m, o))
      right == Point(Apex(m, o))
      da == <<left[1] - p[1], left[2] - p[2]>>
      db == <<right[1] - p[1], right[2] - p[2]>>
      len2(d) == d[1] * d[1] + d[2] * d[2]
      beyond == da[2] * len2(db) > db[2] * len2(da)
  IN  IF Before(left, right, 1) THEN p[1] >= right[1] \/ beyond
                                ELSE p[1] > left[1] /\ beyond

\* An edge that has turned since is no longer on the front.
IsLive(m, node) == Dest(m, node.keyedge) = node.keydest

RECURSIVE GraftRight(_, _)
GraftRight(tree, last) ==
  IF tree = Leaf THEN last ELSE [tree EXCEPT !.kid[TRUE] = GraftRight(@, last)]

\* All of l is left of all of r.
Join(l, r) ==
  IF l = Leaf THEN r
  ELSE IF r = Leaf THEN l
  ELSE IF l.kid[TRUE] = Leaf
  THEN [r EXCEPT !.kid[FALSE] = [l EXCEPT !.kid[TRUE] = r.kid[FALSE]]]
  ELSE IF r.kid[FALSE] = Leaf
  THEN [l EXCEPT !.kid[TRUE] = [r EXCEPT !.kid[FALSE] = l.kid[TRUE]]]
  ELSE GraftRight(l, r)

With(node, side, kid) == [node EXCEPT !.kid[side] = kid]

\* The root, its child c on one side and grandchild g on one side of that turn
\* until g is the root, or c if there is no g.
Rotate(root, side, c, turn, g) ==
  IF g = Leaf
  THEN LET bare == With(c, turn, Leaf) IN With(bare, ~side, With(root, side, bare.kid[~side]))
  ELSE IF turn = side
  THEN With(g, ~side, With(With(c, side, g.kid[~side]), ~side, With(root, side, c.kid[~side])))
  ELSE With(With(g, ~side, With(root, side, g.kid[~side])), side, With(c, turn, g.kid[side]))

\* F of a value that is worked out once.
Bind(value, F(_)) == CHOOSE r \in {F(v) : v \in {value}} : TRUE

\* From the node of at towards p: tri is the last edge of which p is right.
Toward(m, p, at) ==
  IF RightOfHyperbola(m, at.tree.keyedge, p)
  THEN [side |-> TRUE, tree |-> at.tree.kid[TRUE], tri |-> at.tree.keyedge]
  ELSE [side |-> FALSE, tree |-> at.tree.kid[FALSE], tri |-> at.tri]

\* The tree with a live node near p at its root, and the last edge on the way
\* there of which p is right.  Dead nodes are left out.
RECURSIVE Splay(_, _, _)
Splay(m, p, at) ==
  IF at.tree = Leaf THEN at
  ELSE IF ~IsLive(m, at.tree)
  THEN Bind(Bind([at EXCEPT !.tree = @.kid[FALSE]], LAMBDA b : Splay(m, p, b)), LAMBDA l :
       Bind([tree |-> at.tree.kid[TRUE], tri |-> l.tri], LAMBDA below :
       Bind(Splay(m, p, below), LAMBDA r : [tree |-> Join(l.tree, r.tree), tri |-> r.tri])))
  ELSE Bind(Toward(m, p, at), LAMBDA below :
       Bind(IF below.tree = Leaf \/ IsLive(m, below.tree)
            THEN below ELSE Splay(m, p, below), LAMBDA c :
         IF c.tree = Leaf THEN [tree |-> With(at.tree, below.side, Leaf), tri |-> c.tri]
         ELSE Bind(Toward(m, p, c), LAMBDA next :
              Bind(Splay(m, p, next), LAMBDA g :
                [tree |-> Rotate(at.tree, below.side, c.tree, next.side, g.tree), tri |-> g.tri]))))

SplayInsert(m, tree, o, p) ==
  IF tree = Leaf THEN Node(o, Dest(m, o), Leaf, Leaf)
  ELSE IF RightOfHyperbola(m, tree.keyedge, p)
  THEN Node(o, Dest(m, o), [tree EXCEPT !.kid[TRUE] = Leaf], tree.kid[TRUE])
  ELSE Node(o, Dest(m, o), tree.kid[FALSE], [tree EXCEPT !.kid[FALSE] = Leaf])

----------------------------------------------------------------------------
(* The front. *)

\* From the ghost o to the right, until p is not right of the next one.
WalkFront(from, p) ==
  LET walk[o \in Handles(mesh)] ==
        LET next == Onext(mesh, o) IN
        IF ~RightOfHyperbola(mesh, o, p) THEN [tri |-> o, farright |-> FALSE]
        ELSE IF next = front.bottommost THEN [tri |-> next, farright |-> TRUE]
        ELSE walk[next]
  IN  walk[from]

\* The numbers that are drawn at this event.
Drawn == input.sweepline[(front.passed % Len(input.sweepline)) + 1]

\* Two ghosts around the lowest vertex and the next one that is elsewhere; where
\* there is none, the program ends.
StartSweep ==
  /\ pc = "delaunay" /\ ~input.incremental /\ input.sweepline /= <<>>
  /\ \E first, second \in Vertices :
       /\ \A v \in Vertices : ~Before(v, first, 1)
       /\ ~SamePlace(first, second)
       /\ \A v \in Vertices : SamePlace(v, first) \/ ~Before(v, second, 1)
       /\ LET twins == {v \in Vertices \ {first} : SamePlace(v, first)}
              gone == {first, second} \cup twins
              made == MakeTriangles(EmptyMesh, [t \in 1 .. 2 |-> [k \in 1 .. 3 |-> NoVertex]])
              left == <<1, 2>>
              right == <<2, 1>>
              bonded == BondEach(made, << <<left, right>>, <<Lprev(left), Lnext(right)>>,
                                          <<Lnext(left), Lprev(right)>> >>)
          IN  /\ mesh' = SetCorners(SetCorners(bonded, left, first, second, NoVertex),
                                    right, second, first, NoVertex)
              /\ undead' = twins
              /\ events' = [e \in 1 .. MaxEvents |->
                              IF e <= Len(input.points) THEN Site(Vertex(e)) ELSE <<>>]
              /\ heap' = {v[3] : v \in Vertices \ gone}
              /\ freeevents' = <<second[3]>> \o SetToSeq({v[3] : v \in twins}) \o <<first[3]>>
                                 \o [k \in 1 .. MaxEvents - Len(input.points) |-> Len(input.points) + k]
              /\ front' = [bottommost |-> Lprev(left), last |-> second, passed |-> 0]
  /\ splayroot' = Leaf
  /\ pc' = "sweep"
  /\ UNCHANGED <<input, sortarray, todo, hulls, seam, ghost, added, marked, hullsize, out>>

\* After every event the vertices on both sides of what is new are looked at.
After(s, e, left, farleft, right, farright) ==
  \E freed \in {[s EXCEPT !.free = <<e>> \o @]},
     onleft \in {<<Apex(s.mesh, farleft), Dest(s.mesh, left), Apex(s.mesh, left)>>} :
  \E one \in {Await(freed, left, onleft)} :
  \E onright \in {<<Apex(one.mesh, right), Org(one.mesh, right), Apex(one.mesh, farright)>>} :
  \E both \in {Await(one, farright, onright)} :
    /\ mesh' = both.mesh
    /\ events' = both.events
    /\ heap' = both.heap
    /\ freeevents' = both.free

\* A circle: the ghost becomes a triangle, and another ghost covers it.
PassCircle ==
  /\ pc = "sweep"
  /\ \E e \in heap :
       /\ IsNext(e) /\ events[e].of = "circle"
       /\ LET o == events[e].tri
              farright == Onext(mesh, o)
              left == Lprev(o)
          IN  \E alive \in {check4deadevent(check4deadevent([Events EXCEPT !.heap = @ \ {e}],
                                                            Oprev(mesh, o)), farright)} :
              \E turned \in {[Flip(alive.mesh, o) EXCEPT !.vert[o] = NoVertex]} :
                /\ After([alive EXCEPT !.mesh = turned], e, left, Sym(turned, left), Lnext(o), farright)
                /\ front' = [front EXCEPT !.passed = @ + 1,
                               !.bottommost = IF Oprev(mesh, o) = @ THEN Lprev(o) ELSE @]
                /\ splayroot' =
                     IF Drawn /= "left" THEN splayroot
                     ELSE LET top == events[e].key IN
                          Bind([tree |-> splayroot, tri |-> left], LAMBDA at :
                          Bind(Splay(turned, top, at), LAMBDA near :
                            SplayInsert(turned, near.tree, left, top)))
  /\ UNCHANGED <<input, pc, divConqVars, result>>

PassDuplicate ==
  /\ pc = "sweep"
  /\ \E e \in heap :
       /\ IsNext(e) /\ events[e].of = "vertex" /\ SamePlace(events[e].vertex, front.last)
       /\ undead' = undead \cup {events[e].vertex}
       /\ heap' = heap \ {e}
       /\ freeevents' = <<e>> \o freeevents
  /\ front' = [front EXCEPT !.passed = @ + 1]
  /\ UNCHANGED <<input, pc, mesh, events, splayroot, divConqVars, added, marked, hullsize, out>>

\* A vertex: its place on the front is found from the edge that the splay tree
\* gives ...
frontlocate ==
  /\ pc = "sweep"
  /\ \E e \in heap :
       /\ IsNext(e) /\ events[e].of = "vertex" /\ ~SamePlace(events[e].vertex, front.last)
       /\ LET v == events[e].vertex
          IN  \E p \in {Point(v)}, start \in {[tree |-> splayroot, tri |-> front.bottommost]} :
              \E near \in {Splay(mesh, p, start)} :
              /\ splayroot' = near.tree
              /\ front' = [bottommost |-> front.bottommost, last |-> v, passed |-> front.passed,
                           event |-> e, search |-> WalkFront(near.tri, p)]
       /\ heap' = heap \ {e}
  /\ pc' = "front"
  /\ UNCHANGED <<input, mesh, events, freeevents, divConqVars, result>>

\* ... and two ghosts, one on each side of a new edge, go between its neighbours.
InsertSite ==
  /\ pc = "front"
  /\ LET farright == front.search.tri
         farleft == Sym(mesh, farright)
         connect == Dest(mesh, farright)
         left == <<NextTri(mesh), 2>>
         right == <<NextTri(mesh) + 1, 1>>
     IN  \E alive \in {check4deadevent(Events, farright)} :
         \E made \in {MakeTriangles(alive.mesh, << <<connect, front.last, NoVertex>>,
                                                   <<front.last, connect, NoVertex>> >>)} :
         \E bonded \in {BondEach(made, << <<Lnext(left), Lprev(right)>>, <<Lprev(left), Lnext(right)>>,
                                          <<left, farleft>>, <<right, farright>> >>)} :
         /\ After([alive EXCEPT !.mesh = bonded], front.event, left, farleft, right, farright)
         /\ front' = [bottommost |-> IF ~front.search.farright /\ farright = front.bottommost
                                     THEN left ELSE front.bottommost,
                      last |-> front.last, passed |-> front.passed + 1]
         /\ splayroot' =
              IF Drawn = "none" THEN splayroot
              ELSE SplayInsert(bonded, splayroot, IF Drawn = "left" THEN left ELSE Lnext(right),
                               Point(front.last))
  /\ pc' = "sweep"
  /\ UNCHANGED <<input, divConqVars, result>>

EndSweep ==
  /\ pc = "sweep" /\ heap = {}
  /\ RemoveGhosts(Lprev(front.bottommost))
  /\ UNCHANGED <<input, sortarray, todo, hulls, seam, result, sweepVars>>

SweepNext ==
  \/ StartSweep \/ PassCircle \/ PassDuplicate \/ frontlocate \/ InsertSite \/ EndSweep

----------------------------------------------------------------------------
\* The ghosts of the front, from the leftmost one.
Boundary ==
  LET ring[o \in Handles(mesh)] ==
        {o} \cup IF Onext(mesh, o) = front.bottommost THEN {} ELSE ring[Onext(mesh, o)]
  IN  ring[front.bottommost]

RECURSIVE Nodes(_)
Nodes(t) == IF t = Leaf THEN {} ELSE {t} \cup Nodes(t.kid[TRUE]) \cup Nodes(t.kid[FALSE])

\* What the splay tree takes for an edge of the front is one.
TreeOnFront == \A n \in Nodes(splayroot) : IsLive(mesh, n) => n.keyedge \in Boundary

\* Each circle that waits is that of a ghost of the front which points to it,
\* no other ghost points to one, and what does not wait is free, once.
EventsRight ==
  /\ LET circles == {e \in heap : events[e].of = "circle"}
     IN  /\ {o \in Handles(mesh) : Len(Org(mesh, o)) = 1} = {events[e].tri : e \in circles}
         /\ \A e \in circles : events[e].tri \in Boundary /\ Org(mesh, events[e].tri) = <<e>>
  /\ IsInjective(freeevents)
  /\ ToSet(freeevents) = (1 .. MaxEvents) \ heap
  /\ heap /= {} => freeevents /= <<>>
=============================================================================
