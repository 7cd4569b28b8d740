--------------------------- MODULE DelaunayBuild ---------------------------
(* The life of a triangulation, delaunay_build to delaunay_destroy, as the *)
(* mesh filter goes through it on every frame: which arrays are allocated, *)
(* who owns them and frees them, and how tio2delaunay lists for each point *)
(* the triangles it belongs to.                                            *)
(*                                                                         *)
(* An array is named by the field it was allocated for; a pointer holds    *)
(* the name of an array, or Null.                                          *)
EXTENDS Integers, Sequences

CONSTANTS Shapes,    \* what triangulate may make of its points: their number
                     \* np, a sequence of triples of point indices from 0,
                     \* and the number of edges
          Requests,  \* segments and holes given: records [ns, nh]
          Null

ASSUME ShapesAssumption ==
  \A s \in Shapes :
    /\ s.np \in Nat /\ s.nedges \in Nat
    /\ s.triangles \in Seq([1 .. 3 -> 0 .. s.np - 1])
    /\ \A t \in DOMAIN s.triangles : \A i, j \in 1 .. 3 :
         i /= j => s.triangles[t][i] /= s.triangles[t][j]
    /\ s.np >= 3 => s.nedges > 0
ASSUME RequestsAssumption == Requests \subseteq [ns : Nat, nh : Nat]

VARIABLES
  stage,        \* where the caller is, or delaunay_build
  shape,        \* the triangulation of this call
  request,      \* the segments and holes of this call
  live,         \* the arrays allocated and not freed
  badFree,      \* an array was freed that is not allocated
  ptr,          \* the pointer in each field
  liveLists,    \* the points whose list of triangles is allocated
  count,        \* n_point_triangles
  room,         \* the length of each list of point_triangles
  lists,        \* what is written to them so far
  corner        \* loop counter over the corners of all triangles

counters == <<count, room, lists, corner>>
lists_vars == <<liveLists, counters>>
memory == <<live, badFree, ptr>>
buildVars == <<stage, shape, request, memory, lists_vars>>

----------------------------------------------------------------------------
InFields == {"in.pointlist", "in.segmentlist", "in.holelist"}
OutFields == {"out.pointlist", "out.pointmarkerlist", "out.trianglelist",
              "out.neighborlist", "out.segmentlist", "out.segmentmarkerlist",
              "out.holelist", "out.edgelist", "out.edgemarkerlist"}
TriangleFields == {"d.triangles", "d.neighbours", "d.circles",
                   "d.n_point_triangles", "d.point_triangles", "d.flags"}
SearchFields == {"d.t_in", "d.t_out", "d.flagids"}
Fields == {"points", "d", "d.points", "d.edges"} \cup InFields \cup OutFields
            \cup TriangleFields \cup SearchFields
ASSUME NullAssumption == Null \notin Fields

Point == 0 .. shape.np - 1
NTriangles == Len(shape.triangles)
\* The points whose list is not NULL.
Listed == {v \in DOMAIN room : room[v] > 0}

Allocate(fields) ==
  /\ live' = live \cup fields
  /\ ptr' = [f \in Fields |-> IF f \in fields THEN f ELSE ptr[f]]
  /\ UNCHANGED badFree

Targets(fields) == {ptr[f] : f \in fields} \ {Null}

\* Every pointer of the fields is freed, one after the other.
Free(fields) ==
  /\ live' = live \ Targets(fields)
  /\ badFree' = (\/ badFree
                 \/ ~(Targets(fields) \subseteq live)
                 \/ \E f, g \in fields : f # g /\ ptr[f] = ptr[g] /\ ptr[f] # Null)
  /\ ptr' = [f \in Fields |-> IF f \in fields THEN Null ELSE ptr[f]]

InitBuild ==
  /\ stage = "idle"
  /\ shape = [np |-> 0, triangles |-> << >>, nedges |-> 0]
  /\ request \in Requests
  /\ live = {} /\ liveLists = {} /\ badFree = FALSE
  /\ ptr = [f \in Fields |-> Null]
  /\ count = << >> /\ room = << >> /\ lists = << >> /\ corner = 0

----------------------------------------------------------------------------
(* The caller and delaunay_build up to the triangulation. *)

\* The mesh filter allocates its points.
CallBuild ==
  /\ stage = "idle"
  /\ shape' \in Shapes /\ request' \in Requests
  /\ Allocate({"points"})
  /\ stage' = "called"
  /\ UNCHANGED lists_vars

\* Without points the new structure is freed again and the answer is NULL.
NoPoints ==
  /\ stage = "called" /\ shape.np = 0
  /\ stage' = "destroyed"
  /\ UNCHANGED <<shape, request, memory, lists_vars>>

FillInput ==
  /\ stage = "called" /\ shape.np > 0
  /\ Allocate({"d", "in.pointlist"}
              \cup (IF request.ns > 0 THEN {"in.segmentlist"} ELSE {})
              \cup (IF request.nh > 0 THEN {"in.holelist"} ELSE {}))
  /\ stage' = "triangulate"
  /\ UNCHANGED <<shape, request, lists_vars>>

\* triangulate ends the program when it gets fewer than three points.
TooFewPoints ==
  /\ stage = "triangulate" /\ shape.np < 3
  /\ stage' = "exited"
  /\ UNCHANGED <<shape, request, memory, lists_vars>>

\* The switches are eznCQ, and p when there are segments.  With p the pointer
\* to the holes is copied.
Triangulate ==
  /\ stage = "triangulate" /\ shape.np >= 3
  /\ LET new == {"out.pointlist", "out.pointmarkerlist", "out.trianglelist",
                 "out.neighborlist", "out.edgelist", "out.edgemarkerlist"}
                \cup (IF request.ns > 0
                      THEN {"out.segmentlist", "out.segmentmarkerlist"} ELSE {})
     IN /\ live' = live \cup new
        /\ ptr' = [f \in Fields |->
                     IF f \in new THEN f
                     ELSE IF f = "d.points" THEN ptr["points"]
                     ELSE IF f = "out.holelist" /\ request.ns > 0
                          THEN ptr["in.holelist"] ELSE ptr[f]]
  /\ stage' = "convert"
  /\ UNCHANGED <<shape, request, badFree, lists_vars>>

----------------------------------------------------------------------------
(* tio2delaunay *)

\* The arrays of triangles, if there are any; the counts start at zero.
Convert ==
  /\ stage = "convert"
  /\ IF NTriangles > 0 THEN Allocate(TriangleFields) ELSE UNCHANGED memory
  /\ count' = [v \in Point |-> 0]
  /\ room' = [v \in Point |-> 0]
  /\ lists' = [v \in Point |-> << >>]
  /\ corner' = 0
  /\ stage' = IF NTriangles > 0 THEN "count" ELSE "edges"
  /\ UNCHANGED <<shape, request, liveLists>>

Triangle == corner \div 3
Vid == shape.triangles[Triangle + 1][(corner % 3) + 1]
AllCorners == corner = 3 * NTriangles

Count ==
  /\ stage = "count" /\ ~AllCorners
  /\ count' = [count EXCEPT ![Vid] = @ + 1]
  /\ corner' = corner + 1
  /\ UNCHANGED <<stage, shape, request, memory, room, lists, liveLists>>

\* The lists get the length that was counted, and the counts start again.
AllocateLists ==
  /\ stage = "count" /\ AllCorners
  /\ room' = count
  /\ count' = [v \in Point |-> 0]
  /\ liveLists' = {v \in Point : count[v] > 0}
  /\ corner' = 0
  /\ stage' = "fill"
  /\ UNCHANGED <<shape, request, memory, lists>>

\* Mutant: the count does not move on.
FillOver ==
  /\ stage = "fill" /\ ~AllCorners
  /\ lists' = [lists EXCEPT ![Vid] =
                 [i \in 1 .. count[Vid] + 1 |->
                    IF i = count[Vid] + 1 THEN Triangle ELSE @[i]]]
  /\ corner' = corner + 1
  /\ UNCHANGED <<stage, shape, request, memory, count, room, liveLists>>

\* The triangle is written to the list of its corner, at the count.
Fill ==
  /\ stage = "fill" /\ ~AllCorners
  /\ lists' = [lists EXCEPT ![Vid] =
                 [i \in 1 .. count[Vid] + 1 |->
                    IF i = count[Vid] + 1 THEN Triangle ELSE @[i]]]
  /\ count' = [count EXCEPT ![Vid] = @ + 1]
  /\ corner' = corner + 1
  /\ UNCHANGED <<stage, shape, request, memory, room, liveLists>>

Filled ==
  /\ stage = "fill" /\ AllCorners
  /\ stage' = "edges"
  /\ UNCHANGED <<shape, request, memory, lists_vars>>

CopyEdges ==
  /\ stage = "edges"
  /\ Allocate({"d.edges"})
  /\ stage' = "destroy in"
  /\ UNCHANGED <<shape, request, lists_vars>>

----------------------------------------------------------------------------
(* The end of delaunay_build, and the caller. *)

DestroyIn ==
  /\ stage = "destroy in"
  /\ Free(InFields)
  /\ stage' = "destroy out"
  /\ UNCHANGED <<shape, request, lists_vars>>

DestroyOut ==
  /\ stage = "destroy out"
  /\ Free(OutFields)
  /\ stage' = "built"
  /\ UNCHANGED <<shape, request, lists_vars>>

\* A search allocates the stacks and the list of flags the first time.
CirclesFind ==
  /\ stage = "built" /\ ptr["d.t_in"] = Null
  /\ \E fields \in {{"d.t_in", "d.t_out"}, SearchFields} : Allocate(fields)
  /\ UNCHANGED <<stage, shape, request, lists_vars>>

\* Mutant: the lists are not freed.
DestroyNotLists ==
  /\ stage = "built"
  /\ Free({"d"} \cup TriangleFields \cup SearchFields
             \cup (IF shape.nedges > 0 THEN {"d.edges"} ELSE {}))
  /\ stage' = "destroyed"
  /\ UNCHANGED <<shape, request, lists_vars>>

\* delaunay_destroy.
Destroy ==
  /\ stage = "built"
  /\ Free({"d"} \cup TriangleFields \cup SearchFields
             \cup (IF shape.nedges > 0 THEN {"d.edges"} ELSE {}))
  /\ liveLists' = liveLists \ Listed
  /\ stage' = "destroyed"
  /\ UNCHANGED <<shape, request, counters>>

\* Then the mesh filter frees its points.
FreePoints ==
  /\ stage = "destroyed" /\ ptr["points"] # Null
  /\ Free({"points"})
  /\ UNCHANGED <<stage, shape, request, lists_vars>>

\* The next frame finds none of the local variables of this one.
Leave ==
  /\ stage = "destroyed" /\ ptr["points"] = Null
  /\ stage' = "idle"
  /\ shape' = [np |-> 0, triangles |-> << >>, nedges |-> 0]
  /\ ptr' = [f \in Fields |-> Null]
  /\ count' = << >> /\ room' = << >> /\ lists' = << >> /\ corner' = 0
  /\ UNCHANGED <<request, live, badFree, liveLists>>

BuildNext == \/ CallBuild \/ NoPoints \/ FillInput \/ TooFewPoints \/ Triangulate
        \/ Convert \/ Count \/ AllocateLists \/ Fill \/ Filled \/ CopyEdges
        \/ DestroyIn \/ DestroyOut
        \/ CirclesFind \/ Destroy \/ FreePoints \/ Leave

BuildSpec == InitBuild /\ [][BuildNext]_buildVars

----------------------------------------------------------------------------
Stages == {"idle", "called", "destroyed", "triangulate", "exited", "convert",
           "count", "fill", "edges", "destroy in", "destroy out", "built"}
BuildTypeOK ==
  /\ stage \in Stages
  /\ request \in Requests
  /\ live \subseteq Fields /\ badFree \in BOOLEAN
  /\ liveLists \subseteq Point
  /\ ptr \in [Fields -> Fields \cup {Null}]
  /\ corner \in 0 .. 3 * NTriangles
  /\ stage \in {"count", "fill", "edges", "built"} =>
       /\ count \in [Point -> Nat] /\ room \in [Point -> Nat]
       /\ lists \in [Point -> Seq(0 .. NTriangles - 1)]

(* Nothing is freed twice, and nothing that was never allocated
   (delaunay.c:82-112, 325-357).                                           *)
FreedOnce == ~badFree

(* A frame leaves no array behind, whatever its points were like: none at all,
   all on a line, not all of them part of the triangulation
   (FSFaceMeshFilter.m:39, 200-203, delaunay.c:266-269, 325-357).          *)
NothingLeaked == stage = "idle" => live = {} /\ liveLists = {}

(* The second loop over the corners never writes past the length that the
   first one counted, and each point's list is complete and in order when the
   triangulation is handed out: it names just the triangles the point is a
   corner of, each once (delaunay.c:211-235, delaunay.h:74-77).            *)
ListsRight ==
  /\ stage = "fill" => \A v \in Point : Len(lists[v]) <= room[v]
  /\ stage = "built" /\ NTriangles > 0 =>
    \A v \in Point :
      /\ Len(lists[v]) = count[v] /\ room[v] = count[v]
      /\ \A i, j \in 1 .. count[v] : i < j => lists[v][i] < lists[v][j]
      /\ {lists[v][i] : i \in 1 .. count[v]}
           = {t \in 0 .. NTriangles - 1 : \E j \in 1 .. 3 : shape.triangles[t + 1][j] = v}

(* While the triangulation is in use, the points it refers to are allocated:
   it has no copy of its own (delaunay.c:311, FSFaceMeshFilter.m:200-201). *)
PointsAlive == stage = "built" => ptr["d.points"] \in live

(* All three: an array lives as long as something refers to it, no longer, and
   ends once.                                                              *)
MemoryRight == FreedOnce /\ NothingLeaked /\ PointsAlive
=============================================================================
