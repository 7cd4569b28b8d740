---------------------------- MODULE DelaunayProofs ----------------------------
(***************************************************************************)
(* Proofs about a triangulation, for all shapes and all triangulations.    *)
(* First its memory and its lists, as delaunay_build makes them and        *)
(* delaunay_destroy frees them.  Then the searches: what a search leaves   *)
(* behind for the next, and that its answer is sound.  That it is complete *)
(* is a matter of geometry and stays with the model checker.               *)
(***************************************************************************)
EXTENDS CirclesFind, DelaunayBuild, SequenceTheorems, FiniteSetTheorems,
        WellFoundedInduction, TLAPS

(***************************************************************************)
(* The memory of a triangulation.                                          *)
(***************************************************************************)
\* Every array has the field it was allocated for; the points have a second.
Owners == Fields \ {"d.points"}
Owned ==
  /\ ptr \in [Fields -> Fields \cup {Null}]
  /\ \A f \in Owners : ptr[f] \in {f, Null}
  /\ live = {f \in Owners : ptr[f] # Null}
  /\ badFree = FALSE

\* The fields that may have an array, by stage.
Structure == {"points", "d.points", "d", "d.edges"} \cup TriangleFields \cup SearchFields
Used(at) ==
  IF at = "idle" THEN {}
  ELSE IF at = "called" THEN {"points"}
  ELSE IF at = "destroyed" THEN {"points", "d.points"}
  ELSE IF at \in {"triangulate", "exited"} THEN {"points", "d"} \cup InFields
  ELSE IF at = "destroy out" THEN Structure \cup OutFields
  ELSE IF at = "built" THEN Structure
  ELSE Fields

Numbered == {"convert", "count", "fill", "edges", "destroy in", "destroy out", "built"}

StageInv ==
  /\ stage \in Stages
  /\ \A f \in Fields \ Used(stage) : ptr[f] = Null
  /\ stage \in Numbered => ptr["points"] # Null /\ ptr["d.points"] = "points"
  /\ stage \in {"called", "triangulate"} => ptr["points"] # Null
  /\ stage = "triangulate" /\ request.nh = 0 => ptr["in.holelist"] = Null

\* Every list that is allocated has a length.
WithLists == {"fill", "edges", "destroy in", "destroy out", "built"}
ListedInv ==
  /\ IF stage \in WithLists THEN liveLists \subseteq Listed ELSE liveLists = {}
  /\ stage = "count" => DOMAIN count = Point

NoShape == [np |-> 0, triangles |-> << >>, nedges |-> 0]
GivenInv ==
  /\ request \in Requests
  /\ shape \in Shapes \cup {NoShape}
  /\ stage \in Numbered => shape.np >= 3 /\ shape \in Shapes

MemoryInv == Owned /\ StageInv /\ ListedInv /\ GivenInv

\* What is triangulated has three points at least.
LEMMA GivenInvNext ==
  ASSUME GivenInv, [BuildNext]_buildVars
  PROVE  GivenInv'
<1>1. CASE CallBuild
  BY <1>1 DEF CallBuild, GivenInv, Numbered
<1>2. CASE Triangulate
  <2>1. stage = "triangulate" /\ shape.np >= 3 /\ UNCHANGED <<shape, request>>
    BY <1>2 DEF Triangulate
  <2>2. shape \in Shapes
    BY <2>1 DEF GivenInv, NoShape
  <2> QED
    BY <2>1, <2>2 DEF GivenInv, Numbered
<1>3. CASE Leave
  BY <1>3 DEF Leave, GivenInv, NoShape, Numbered
<1>4. CASE NoPoints \/ FillInput \/ TooFewPoints \/ Destroy \/ FreePoints
  BY <1>4 DEF NoPoints, FillInput, TooFewPoints, Destroy, FreePoints, GivenInv, Numbered
<1>5. CASE Convert \/ Count \/ AllocateLists \/ Fill \/ Filled \/ CopyEdges
  BY <1>5 DEF Convert, Count, AllocateLists, Fill, Filled, CopyEdges, GivenInv, Numbered
<1>6. CASE DestroyIn \/ DestroyOut \/ CirclesFind
  BY <1>6 DEF DestroyIn, DestroyOut, CirclesFind, GivenInv, Numbered
<1>7. CASE UNCHANGED buildVars
  BY <1>7 DEF buildVars, GivenInv
<1> QED
  BY <1>1, <1>2, <1>3, <1>4, <1>5, <1>6, <1>7 DEF BuildNext

LEMMA FieldsRight ==
  /\ InFields \subseteq Owners /\ OutFields \subseteq Owners
  /\ TriangleFields \subseteq Owners /\ SearchFields \subseteq Owners
  /\ {"points", "d", "d.edges"} \subseteq Owners
  /\ Owners \subseteq Fields /\ "d.points" \in Fields /\ "d.points" \notin Owners
  /\ Structure \subseteq Fields
BY DEF InFields, OutFields, TriangleFields, SearchFields, Owners, Fields, Structure

LEMMA AllocateRight ==
  ASSUME Owned, NEW fields \in SUBSET Owners, Allocate(fields)
  PROVE  /\ Owned'
         /\ \A f \in Fields : ptr'[f] = IF f \in fields THEN f ELSE ptr[f]
<1> USE NullAssumption
<1>1. /\ live' = live \cup fields /\ badFree' = badFree
      /\ ptr' = [f \in Fields |-> IF f \in fields THEN f ELSE ptr[f]]
  BY DEF Allocate
<1>2. fields \subseteq Fields /\ Owners \subseteq Fields
  BY FieldsRight
<1>3. \A f \in Fields : ptr'[f] = IF f \in fields THEN f ELSE ptr[f]
  BY <1>1
<1>4. ptr' \in [Fields -> Fields \cup {Null}]
  BY <1>1, <1>2 DEF Owned
<1>5. \A f \in Owners : ptr'[f] \in {f, Null}
  BY <1>2, <1>3 DEF Owned
<1>6. live' = {f \in Owners : ptr'[f] # Null}
  BY <1>1, <1>2, <1>3 DEF Owned
<1> QED
  BY <1>1, <1>3, <1>4, <1>5, <1>6 DEF Owned

LEMMA FreeRight ==
  ASSUME Owned, NEW fields \in SUBSET Owners, Free(fields)
  PROVE  /\ Owned'
         /\ \A f \in Fields : ptr'[f] = IF f \in fields THEN Null ELSE ptr[f]
<1> USE NullAssumption
<1>1. /\ live' = live \ Targets(fields)
      /\ ptr' = [f \in Fields |-> IF f \in fields THEN Null ELSE ptr[f]]
      /\ badFree' = (\/ badFree
                     \/ ~(Targets(fields) \subseteq live)
                     \/ \E f, g \in fields : f # g /\ ptr[f] = ptr[g] /\ ptr[f] # Null)
  BY DEF Free
<1>2. fields \subseteq Fields /\ Owners \subseteq Fields
  BY FieldsRight
<1>3. \A f \in Fields : ptr'[f] = IF f \in fields THEN Null ELSE ptr[f]
  BY <1>1
<1>4. Targets(fields) = {f \in fields : ptr[f] # Null}
  BY DEF Targets, Owned
<1>5. ~badFree'
  <2>1. Targets(fields) \subseteq live
    BY <1>4 DEF Owned
  <2>2. \A f, g \in fields : f # g => ptr[f] # ptr[g] \/ ptr[f] = Null
    BY <1>2 DEF Owned
  <2> QED
    BY <1>1, <2>1, <2>2 DEF Owned
<1>6. badFree' = FALSE
  BY <1>1, <1>5
<1>7. ptr' \in [Fields -> Fields \cup {Null}]
  BY <1>1 DEF Owned
<1>8. \A f \in Owners : ptr'[f] \in {f, Null}
  BY <1>2, <1>3 DEF Owned
<1>9. live' = {f \in Owners : ptr'[f] # Null}
  BY <1>1, <1>2, <1>3, <1>4 DEF Owned
<1> QED
  BY <1>3, <1>6, <1>7, <1>8, <1>9 DEF Owned

LEMMA MemoryInvInit == InitBuild => MemoryInv
<1> SUFFICES ASSUME InitBuild PROVE MemoryInv
  OBVIOUS
<1>1. Owned
  BY DEF InitBuild, Owned, Owners
<1>2. StageInv
  BY DEF InitBuild, StageInv, Stages, Numbered
<1>3. ListedInv /\ GivenInv
  BY DEF InitBuild, ListedInv, WithLists, GivenInv, NoShape, Numbered
<1> QED
  BY <1>1, <1>2, <1>3 DEF MemoryInv

\* A step that leaves the memory alone.

LEMMA MemoryKept ==
  ASSUME Owned, UNCHANGED memory
  PROVE  Owned'
BY DEF memory, Owned

LEMMA RequestInv ==
  ASSUME MemoryInv, CallBuild
  PROVE  Owned' /\ StageInv' /\ ListedInv'
<1>1. Owned' /\ \A f \in Fields : ptr'[f] = IF f \in {"points"} THEN f ELSE ptr[f]
  BY FieldsRight, AllocateRight DEF CallBuild, MemoryInv
<1>2. StageInv'
  <2>1. stage = "idle" /\ stage' = "called"
    BY DEF CallBuild
  <2>2. \A f \in Fields : ptr[f] = Null
    BY <2>1 DEF MemoryInv, StageInv, Used
  <2>3. \A f \in Fields \ Used(stage') : ptr'[f] = Null
    BY <1>1, <2>1, <2>2 DEF Used
  <2>4. ptr'["points"] # Null
    BY <1>1, FieldsRight, NullAssumption
  <2> QED
    BY <2>1, <2>3, <2>4 DEF StageInv, Stages, Numbered
<1>3. ListedInv'
  BY DEF CallBuild, lists_vars, MemoryInv, ListedInv, WithLists
<1> QED
  BY <1>1, <1>2, <1>3 DEF MemoryInv

LEMMA NoPointsInv ==
  ASSUME MemoryInv, NoPoints
  PROVE  Owned' /\ StageInv' /\ ListedInv'
<1>1. stage = "called" /\ stage' = "destroyed" /\ ptr' = ptr
  BY DEF NoPoints, memory
<1>2. StageInv'
  <2>1. \A f \in Fields \ Used(stage') : ptr'[f] = Null
    BY <1>1 DEF MemoryInv, StageInv, Used
  <2> QED
    BY <1>1, <2>1 DEF StageInv, Stages, Numbered
<1>3. ListedInv'
  BY DEF NoPoints, lists_vars, MemoryInv, ListedInv, WithLists
<1> QED
  BY <1>2, <1>3, MemoryKept DEF NoPoints, MemoryInv

LEMMA FillInputInv ==
  ASSUME MemoryInv, FillInput
  PROVE  Owned' /\ StageInv' /\ ListedInv'
<1> DEFINE fields == {"d", "in.pointlist"}
                     \cup (IF request.ns > 0 THEN {"in.segmentlist"} ELSE {})
                     \cup (IF request.nh > 0 THEN {"in.holelist"} ELSE {})
<1>1. /\ stage = "called" /\ stage' = "triangulate" /\ Allocate(fields)
      /\ UNCHANGED <<shape, request, lists_vars>>
  BY DEF FillInput
<1>2. /\ fields \subseteq {"d"} \cup InFields
      /\ request.nh = 0 => "in.holelist" \notin fields
      /\ "points" \notin fields
  BY DEF InFields
<1> HIDE DEF fields
<1>3. Owned' /\ \A f \in Fields : ptr'[f] = IF f \in fields THEN f ELSE ptr[f]
  <2>1. fields \in SUBSET Owners
    BY <1>2, FieldsRight
  <2> QED
    BY <1>1, <2>1, AllocateRight DEF MemoryInv
<1>4. StageInv'
  <2>1. \A f \in Fields \ {"points"} : ptr[f] = Null
    BY <1>1 DEF MemoryInv, StageInv, Used
  <2>2. \A f \in Fields \ Used(stage') : ptr'[f] = Null
    BY <1>1, <1>2, <1>3, <2>1 DEF Used
  <2>3. "in.holelist" \in Fields /\ "points" \in Fields
    BY DEF Fields, InFields
  <2> QED
    BY <1>1, <1>2, <1>3, <2>1, <2>2, <2>3 DEF MemoryInv, StageInv, Stages, Numbered
<1>5. ListedInv'
  BY <1>1 DEF lists_vars, MemoryInv, ListedInv, WithLists
<1> QED
  BY <1>3, <1>4, <1>5 DEF MemoryInv

LEMMA TooFewPointsInv ==
  ASSUME MemoryInv, TooFewPoints
  PROVE  Owned' /\ StageInv' /\ ListedInv'
<1>1. stage = "triangulate" /\ stage' = "exited" /\ ptr' = ptr
  BY DEF TooFewPoints, memory
<1>2. StageInv'
  <2>1. \A f \in Fields \ Used(stage') : ptr'[f] = Null
    BY <1>1 DEF MemoryInv, StageInv, Used
  <2> QED
    BY <1>1, <2>1 DEF StageInv, Stages, Numbered
<1>3. ListedInv'
  BY DEF TooFewPoints, lists_vars, MemoryInv, ListedInv, WithLists
<1> QED
  BY <1>2, <1>3, MemoryKept DEF TooFewPoints, MemoryInv

\* With one kind of them at most, no pointer to holes is copied.

LEMMA TriangulateInv ==
  ASSUME MemoryInv, Triangulate, request.ns = 0 \/ request.nh = 0
  PROVE  Owned' /\ StageInv' /\ ListedInv'
<1> DEFINE new == {"out.pointlist", "out.pointmarkerlist", "out.trianglelist",
                   "out.neighborlist", "out.edgelist", "out.edgemarkerlist"}
                  \cup (IF request.ns > 0
                        THEN {"out.segmentlist", "out.segmentmarkerlist"} ELSE {})
<1>1. /\ stage = "triangulate" /\ shape.np >= 3 /\ stage' = "convert"
      /\ live' = live \cup new /\ badFree' = badFree
      /\ ptr' = [f \in Fields |->
                   IF f \in new THEN f
                   ELSE IF f = "d.points" THEN ptr["points"]
                   ELSE IF f = "out.holelist" /\ request.ns > 0
                        THEN ptr["in.holelist"] ELSE ptr[f]]
      /\ UNCHANGED <<shape, request, lists_vars>>
  BY DEF Triangulate
<1>2. new \subseteq OutFields /\ "out.holelist" \notin new
  BY DEF OutFields
<1> HIDE DEF new
<1>3. new \subseteq Owners /\ Owners \subseteq Fields /\ new \subseteq Fields
  BY <1>2, FieldsRight
<1>4. /\ "points" \in Owners /\ "d.points" \in Fields /\ "d.points" \notin new
      /\ "in.holelist" \in Owners /\ "out.holelist" \in Owners /\ "points" \notin new
  BY <1>2 DEF Owners, Fields, InFields, OutFields
<1>5. ptr["points"] = "points"
  BY <1>1, <1>4 DEF MemoryInv, Owned, StageInv
<1>6. ptr["out.holelist"] = Null
  <2>1. "out.holelist" \notin {"points", "d"} \cup InFields
    BY DEF InFields
  <2> QED
    BY <1>1, <1>3, <1>4, <2>1 DEF MemoryInv, StageInv, Used
<1>7. request.ns > 0 => ptr["in.holelist"] = Null
  <2>1. request.ns > 0 => request.nh = 0
    BY RequestsAssumption DEF MemoryInv, GivenInv
  <2> QED
    BY <1>1, <2>1 DEF MemoryInv, StageInv
<1>8. \A f \in Owners : ptr'[f] = IF f \in new THEN f ELSE ptr[f]
  BY <1>1, <1>3, <1>6, <1>7 DEF Owners
<1>9. ptr'["d.points"] = "points" /\ ptr'["points"] = "points"
  BY <1>1, <1>3, <1>4, <1>5, <1>8
<1>10. Owned'
  <2>1. ptr' \in [Fields -> Fields \cup {Null}]
    <3>1. \A f \in Fields : ptr[f] \in Fields \cup {Null}
      BY DEF MemoryInv, Owned
    <3>2. "in.holelist" \in Fields /\ "points" \in Fields
      BY <1>3, <1>4
    <3> QED
      BY <1>1, <1>3, <3>1, <3>2
  <2>2. \A f \in Owners : ptr'[f] \in {f, Null}
    BY <1>8 DEF MemoryInv, Owned
  <2>3. live' = {f \in Owners : ptr'[f] # Null}
    BY <1>1, <1>3, <1>8, NullAssumption DEF MemoryInv, Owned
  <2> QED
    BY <1>1, <2>1, <2>2, <2>3 DEF MemoryInv, Owned
<1>11. StageInv'
  <2>1. Used(stage') = Fields
    BY <1>1 DEF Used
  <2> QED
    BY <1>1, <1>3, <1>4, <1>9, <2>1, NullAssumption DEF StageInv, Stages, Numbered
<1>12. ListedInv'
  BY <1>1 DEF lists_vars, MemoryInv, ListedInv, WithLists
<1> QED
  BY <1>10, <1>11, <1>12 DEF MemoryInv

\* The arrays of triangles add to the others.

LEMMA ConvertInv ==
  ASSUME MemoryInv, Convert
  PROVE  Owned' /\ StageInv' /\ ListedInv'
<1>1. /\ stage = "convert" /\ stage' \in {"count", "edges"}
      /\ UNCHANGED <<shape, request, liveLists>>
      /\ Allocate(TriangleFields) \/ UNCHANGED memory
  BY DEF Convert
<1>2. Owned'
  BY <1>1, FieldsRight, AllocateRight, MemoryKept DEF MemoryInv
<1>3. ptr'["points"] # Null /\ ptr'["d.points"] = "points"
  <2>1. ptr["points"] # Null /\ ptr["d.points"] = "points"
    BY <1>1 DEF MemoryInv, StageInv, Numbered
  <2>2. CASE Allocate(TriangleFields)
    <3>1. \A f \in Fields : ptr'[f] = IF f \in TriangleFields THEN f ELSE ptr[f]
      BY <2>2, FieldsRight, AllocateRight DEF MemoryInv
    <3>2. {"points", "d.points"} \subseteq Fields \ TriangleFields
      BY DEF Fields, TriangleFields
    <3> QED
      BY <2>1, <3>1, <3>2
  <2>3. CASE UNCHANGED memory
    BY <2>1, <2>3 DEF memory
  <2> QED
    BY <1>1, <2>2, <2>3
<1>4. StageInv'
  <2>1. Used(stage') = Fields
    BY <1>1 DEF Used
  <2> QED
    BY <1>1, <1>3, <2>1 DEF StageInv, Stages, Numbered
<1>5. ListedInv'
  <2>1. count' = [v \in Point |-> 0] /\ Point' = Point
    BY DEF Convert, Point
  <2> QED
    BY <1>1, <2>1 DEF MemoryInv, ListedInv, WithLists
<1> QED
  BY <1>2, <1>4, <1>5 DEF MemoryInv

\* The loops over the corners: nothing is allocated but the lists.

LEMMA LoopsInv ==
  ASSUME MemoryInv, Count \/ AllocateLists \/ Fill \/ Filled
  PROVE  Owned' /\ StageInv' /\ ListedInv'
<1>1. /\ stage \in {"count", "fill"} /\ stage' \in {"count", "fill", "edges"}
      /\ UNCHANGED <<shape, request, memory>>
  BY DEF Count, AllocateLists, Fill, Filled
<1>2. Owned'
  BY <1>1, MemoryKept DEF MemoryInv
<1>3. StageInv'
  <2>1. Used(stage') = Fields
    BY <1>1 DEF Used
  <2> QED
    BY <1>1, <2>1 DEF memory, MemoryInv, StageInv, Stages, Numbered
<1>4. ListedInv'
  <2>1. CASE AllocateLists
    <3>1. /\ stage' = "fill" /\ room' = count /\ DOMAIN count = Point
          /\ liveLists' = {v \in Point : count[v] > 0}
      BY <2>1 DEF AllocateLists, MemoryInv, ListedInv
    <3> QED
      BY <3>1 DEF ListedInv, WithLists, Listed
  <2>2. CASE Count \/ Fill \/ Filled
    BY <2>2 DEF Count, Fill, Filled, lists_vars, counters, MemoryInv, ListedInv,
                WithLists, Listed, Point
  <2> QED
    BY <2>1, <2>2
<1> QED
  BY <1>2, <1>3, <1>4 DEF MemoryInv

LEMMA CopyEdgesInv ==
  ASSUME MemoryInv, CopyEdges
  PROVE  Owned' /\ StageInv' /\ ListedInv'
<1>1. /\ stage = "edges" /\ stage' = "destroy in" /\ Allocate({"d.edges"})
      /\ UNCHANGED <<shape, request, lists_vars>>
  BY DEF CopyEdges
<1>2. Owned' /\ \A f \in Fields : ptr'[f] = IF f \in {"d.edges"} THEN f ELSE ptr[f]
  BY <1>1, FieldsRight, AllocateRight, ZenonT(30) DEF MemoryInv
<1>3. StageInv'
  <2>1. Used(stage') = Fields
    BY <1>1 DEF Used
  <2>2. ptr["points"] # Null /\ ptr["d.points"] = "points"
    BY <1>1 DEF MemoryInv, StageInv, Numbered
  <2>3. ptr'["points"] # Null /\ ptr'["d.points"] = "points"
    BY <1>2, <2>2, FieldsRight
  <2> QED
    BY <1>1, <2>1, <2>3 DEF StageInv, Stages, Numbered
<1>4. ListedInv'
  BY <1>1 DEF lists_vars, counters, MemoryInv, ListedInv, WithLists, Listed
<1> QED
  BY <1>2, <1>3, <1>4 DEF MemoryInv

LEMMA DestroyInInv ==
  ASSUME MemoryInv, DestroyIn
  PROVE  Owned' /\ StageInv' /\ ListedInv'
<1>1. /\ stage = "destroy in" /\ stage' = "destroy out" /\ Free(InFields)
      /\ UNCHANGED <<shape, request, lists_vars>>
  BY DEF DestroyIn
<1>2. Owned' /\ \A f \in Fields : ptr'[f] = IF f \in InFields THEN Null ELSE ptr[f]
  BY <1>1, FieldsRight, FreeRight DEF MemoryInv
<1>3. StageInv'
  <2>1. \A f \in Fields \ Used(stage') : ptr'[f] = Null
    <3>1. Used(stage') = Structure \cup OutFields
      BY <1>1 DEF Used
    <3>2. Fields \ (Structure \cup OutFields) \subseteq InFields
      BY DEF Fields, Structure
    <3> QED
      BY <1>2, <3>1, <3>2
  <2>2. ptr["points"] # Null /\ ptr["d.points"] = "points"
    BY <1>1 DEF MemoryInv, StageInv, Numbered
  <2>3. ptr'["points"] # Null /\ ptr'["d.points"] = "points"
    <3>1. {"points", "d.points"} \subseteq Fields \ InFields
      BY DEF Fields, InFields
    <3> QED
      BY <1>2, <2>2, <3>1
  <2> QED
    BY <1>1, <2>1, <2>3 DEF StageInv, Stages, Numbered
<1>4. ListedInv'
  BY <1>1 DEF lists_vars, counters, MemoryInv, ListedInv, WithLists, Listed
<1> QED
  BY <1>2, <1>3, <1>4 DEF MemoryInv

LEMMA DestroyOutInv ==
  ASSUME MemoryInv, DestroyOut
  PROVE  Owned' /\ StageInv' /\ ListedInv'
<1>1. /\ stage = "destroy out" /\ stage' = "built" /\ Free(OutFields)
      /\ UNCHANGED <<shape, request, lists_vars>>
  BY DEF DestroyOut
<1>2. Owned' /\ \A f \in Fields : ptr'[f] = IF f \in OutFields THEN Null ELSE ptr[f]
  BY <1>1, FieldsRight, FreeRight DEF MemoryInv
<1>3. StageInv'
  <2>1. \A f \in Fields \ Used(stage') : ptr'[f] = Null
    <3>1. Used(stage') = Structure /\ Used(stage) = Structure \cup OutFields
      BY <1>1 DEF Used
    <3> QED
      BY <1>2, <3>1 DEF MemoryInv, StageInv
  <2>2. ptr["points"] # Null /\ ptr["d.points"] = "points"
    BY <1>1 DEF MemoryInv, StageInv, Numbered
  <2>3. ptr'["points"] # Null /\ ptr'["d.points"] = "points"
    <3>1. {"points", "d.points"} \subseteq Fields \ OutFields
      BY DEF Fields, OutFields
    <3> QED
      BY <1>2, <2>2, <3>1
  <2> QED
    BY <1>1, <2>1, <2>3 DEF StageInv, Stages, Numbered
<1>4. ListedInv'
  BY <1>1 DEF lists_vars, counters, MemoryInv, ListedInv, WithLists, Listed
<1> QED
  BY <1>2, <1>3, <1>4 DEF MemoryInv

LEMMA SearchMemoryInv ==
  ASSUME MemoryInv, CirclesFind
  PROVE  Owned' /\ StageInv' /\ ListedInv'
<1>1. PICK fields \in {{"d.t_in", "d.t_out"}, SearchFields} : Allocate(fields)
  BY DEF CirclesFind
<1>2. stage = "built" /\ UNCHANGED <<stage, shape, request, lists_vars>>
  BY DEF CirclesFind
<1>3. fields \subseteq SearchFields
  BY DEF SearchFields
<1>4. Owned' /\ \A f \in Fields : ptr'[f] = IF f \in fields THEN f ELSE ptr[f]
  <2>1. fields \in SUBSET Owners
    BY <1>3, FieldsRight
  <2> QED
    BY <1>1, <2>1, AllocateRight DEF MemoryInv
<1>5. StageInv'
  <2>1. \A f \in Fields \ Used(stage') : ptr'[f] = Null
    <3>1. Used(stage) = Structure /\ SearchFields \subseteq Structure
      BY <1>2 DEF Used, Structure
    <3> QED
      BY <1>2, <1>3, <1>4, <3>1 DEF MemoryInv, StageInv
  <2>2. ptr["points"] # Null /\ ptr["d.points"] = "points"
    BY <1>2 DEF MemoryInv, StageInv, Numbered
  <2>3. ptr'["points"] # Null /\ ptr'["d.points"] = "points"
    <3>1. {"points", "d.points"} \subseteq Fields \ SearchFields
      BY DEF Fields, SearchFields
    <3> QED
      BY <1>3, <1>4, <2>2, <3>1
  <2> QED
    BY <1>2, <2>1, <2>3 DEF StageInv, Stages, Numbered
<1>6. ListedInv'
  BY <1>2 DEF lists_vars, counters, MemoryInv, ListedInv, WithLists, Listed
<1> QED
  BY <1>4, <1>5, <1>6 DEF MemoryInv

\* Triangulations that there are have edges, so that all of it is freed.

LEMMA DestroyInv ==
  ASSUME MemoryInv, Destroy
  PROVE  Owned' /\ StageInv' /\ ListedInv'
<1> DEFINE fields == {"d"} \cup TriangleFields \cup SearchFields
                     \cup (IF shape.nedges > 0 THEN {"d.edges"} ELSE {})
<1>1. /\ stage = "built" /\ stage' = "destroyed" /\ Free(fields)
      /\ liveLists' = liveLists \ Listed
      /\ UNCHANGED <<shape, request, counters>>
  BY DEF Destroy
<1>2. shape.nedges > 0
  BY <1>1, ShapesAssumption DEF MemoryInv, GivenInv, Numbered
<1>3. fields = {"d", "d.edges"} \cup TriangleFields \cup SearchFields
  BY <1>2
<1> HIDE DEF fields
<1>4. Owned' /\ \A f \in Fields : ptr'[f] = IF f \in fields THEN Null ELSE ptr[f]
  <2>1. fields \in SUBSET Owners
    BY <1>3, FieldsRight
  <2> QED
    BY <1>1, <2>1, FreeRight DEF MemoryInv
<1>5. StageInv'
  <2>1. \A f \in Fields \ Used(stage') : ptr'[f] = Null
    <3>1. Used(stage) = Structure /\ Used(stage') = {"points", "d.points"}
      BY <1>1 DEF Used
    <3>2. Structure \ {"points", "d.points"} \subseteq fields
      BY <1>3 DEF Structure
    <3> QED
      BY <1>4, <3>1, <3>2 DEF MemoryInv, StageInv
  <2> QED
    BY <1>1, <2>1 DEF StageInv, Stages, Numbered
<1>6. ListedInv'
  BY <1>1 DEF MemoryInv, ListedInv, WithLists
<1> QED
  BY <1>4, <1>5, <1>6 DEF MemoryInv

LEMMA FreePointsInv ==
  ASSUME MemoryInv, FreePoints
  PROVE  Owned' /\ StageInv' /\ ListedInv'
<1>1. /\ stage = "destroyed" /\ Free({"points"})
      /\ UNCHANGED <<stage, shape, request, lists_vars>>
  BY DEF FreePoints
<1>2. Owned' /\ \A f \in Fields : ptr'[f] = IF f \in {"points"} THEN Null ELSE ptr[f]
  BY <1>1, FieldsRight, FreeRight DEF MemoryInv
<1>3. StageInv'
  <2>1. \A f \in Fields \ Used(stage') : ptr'[f] = Null
    BY <1>1, <1>2 DEF MemoryInv, StageInv
  <2> QED
    BY <1>1, <2>1 DEF StageInv, Stages, Numbered
<1>4. ListedInv'
  BY <1>1 DEF lists_vars, counters, MemoryInv, ListedInv, WithLists
<1> QED
  BY <1>2, <1>3, <1>4 DEF MemoryInv

\* What the next frame does not see any more has been freed.

LEMMA LeaveInv ==
  ASSUME MemoryInv, Leave
  PROVE  Owned' /\ StageInv' /\ ListedInv'
<1>1. /\ stage = "destroyed" /\ ptr["points"] = Null /\ stage' = "idle"
      /\ shape' = NoShape /\ ptr' = [f \in Fields |-> Null]
      /\ UNCHANGED <<request, live, badFree, liveLists>>
  BY DEF Leave, NoShape
<1>2. live = {}
  <2>1. \A f \in Owners : ptr[f] = Null
    BY <1>1 DEF MemoryInv, StageInv, Used, Owners
  <2> QED
    BY <2>1 DEF MemoryInv, Owned
<1>3. Owned'
  BY <1>1, <1>2 DEF MemoryInv, Owned, Owners
<1>4. StageInv'
  BY <1>1 DEF StageInv, Stages, Numbered
<1>5. ListedInv'
  BY <1>1 DEF MemoryInv, ListedInv, WithLists
<1> QED
  BY <1>3, <1>4, <1>5 DEF MemoryInv

OneKindOnly == \A r \in Requests : r.ns = 0 \/ r.nh = 0

LEMMA MemoryInvNext ==
  ASSUME OneKindOnly
  PROVE  MemoryInv /\ [BuildNext]_buildVars => MemoryInv'
<1> SUFFICES ASSUME MemoryInv, [BuildNext]_buildVars PROVE Owned' /\ StageInv' /\ ListedInv'
  BY GivenInvNext DEF MemoryInv
<1>1. request.ns = 0 \/ request.nh = 0
  BY DEF OneKindOnly, MemoryInv, GivenInv
<1>2. CASE UNCHANGED buildVars
  BY <1>2 DEF buildVars, memory, lists_vars, counters, MemoryInv, Owned, StageInv,
              ListedInv, Listed, Point
<1>3. CASE CallBuild \/ NoPoints \/ FillInput \/ TooFewPoints \/ Triangulate
  BY <1>1, <1>3, RequestInv, NoPointsInv, FillInputInv, TooFewPointsInv, TriangulateInv
<1>4. CASE Convert \/ Count \/ AllocateLists \/ Fill \/ Filled \/ CopyEdges
  BY <1>4, ConvertInv, LoopsInv, CopyEdgesInv
<1>5. CASE DestroyIn \/ DestroyOut \/ CirclesFind
  BY <1>5, DestroyInInv, DestroyOutInv, SearchMemoryInv
<1>6. CASE Destroy \/ FreePoints \/ Leave
  BY <1>6, DestroyInv, FreePointsInv, LeaveInv
<1> QED
  BY <1>2, <1>3, <1>4, <1>5, <1>6 DEF BuildNext

LEMMA MemoryInvRight == MemoryInv => MemoryRight
<1> SUFFICES ASSUME MemoryInv PROVE MemoryRight
  OBVIOUS
<1>1. FreedOnce
  BY DEF MemoryInv, Owned, FreedOnce
<1>2. NothingLeaked
  BY FieldsRight DEF MemoryInv, Owned, StageInv, Used, ListedInv, WithLists, NothingLeaked
<1>3. PointsAlive
  BY FieldsRight DEF MemoryInv, Owned, StageInv, Numbered, PointsAlive
<1> QED
  BY <1>1, <1>2, <1>3 DEF MemoryRight

(***************************************************************************)
(* Unless there are segments and holes both, no array of a triangulation   *)
(* is freed twice, none is left when its frame is over, and the points are *)
(* there while it is in use (tio_destroy, delaunay_destroy).               *)
(***************************************************************************)

THEOREM MemoryAlwaysRight ==
  ASSUME OneKindOnly
  PROVE  BuildSpec => []MemoryRight
<1>1. InitBuild => MemoryInv
  BY MemoryInvInit
<1>2. MemoryInv /\ [BuildNext]_buildVars => MemoryInv'
  BY MemoryInvNext
<1>3. MemoryInv => MemoryRight
  BY MemoryInvRight
<1> QED
  BY <1>1, <1>2, <1>3, PTL DEF BuildSpec
(***************************************************************************)
(* The lists of triangles of the points.  Corners are counted from 0 to    *)
(* three times the number of triangles; those of point v that come before  *)
(* corner n are Uses(ts, v, n).                                            *)
(***************************************************************************)
VidAt(ts, c) == ts[(c \div 3) + 1][(c % 3) + 1]
Uses(ts, v, n) == {c \in 0 .. n - 1 : VidAt(ts, c) = v}

\* s names the triangles of these corners, each once and in order.
ListOf(s, ts, v, n) ==
  /\ Len(s) = Cardinality(Uses(ts, v, n))
  /\ \A i \in 1 .. Len(s) : \E c \in Uses(ts, v, n) : s[i] = c \div 3
  /\ \A c \in Uses(ts, v, n) : \E i \in 1 .. Len(s) : s[i] = c \div 3
  /\ \A i, j \in 1 .. Len(s) : i < j => s[i] < s[j]

\* What ShapesAssumption says of the triangles.
Corners(ts, np) ==
  /\ ts \in Seq([1 .. 3 -> 0 .. np - 1])
  /\ \A t \in 1 .. Len(ts) : \A i, j \in 1 .. 3 : i # j => ts[t][i] # ts[t][j]

LEMMA ThirdsRight ==
  ASSUME NEW c \in Nat
  PROVE  c \div 3 \in Nat /\ c % 3 \in 0 .. 2 /\ c = 3 * (c \div 3) + (c % 3)
OBVIOUS

LEMMA ThirdsInOrder ==
  ASSUME NEW c \in Nat, NEW e \in Nat, c <= e
  PROVE  c \div 3 <= e \div 3
<1> DEFINE a == c \div 3
           b == e \div 3
<1>1. /\ a \in Nat /\ c % 3 \in 0 .. 2 /\ c = 3 * a + (c % 3)
      /\ b \in Nat /\ e % 3 \in 0 .. 2 /\ e = 3 * b + (e % 3)
  BY ThirdsRight
<1> HIDE DEF a, b
<1>2. a <= b
  BY <1>1
<1> QED
  BY <1>2 DEF a, b

LEMMA UsesFinite ==
  ASSUME NEW ts, NEW v, NEW n \in Nat
  PROVE  IsFiniteSet(Uses(ts, v, n)) /\ Cardinality(Uses(ts, v, n)) \in Nat
<1>1. IsFiniteSet(0 .. n - 1)
  BY FS_Interval
<1>2. Uses(ts, v, n) \subseteq 0 .. n - 1
  BY DEF Uses
<1> QED
  BY <1>1, <1>2, FS_Subset, FS_CardinalityType

LEMMA UsesMore ==
  ASSUME NEW ts, NEW v, NEW n \in Nat
  PROVE  /\ VidAt(ts, n) = v => /\ Uses(ts, v, n + 1) = Uses(ts, v, n) \cup {n}
                                /\ Cardinality(Uses(ts, v, n + 1))
                                     = Cardinality(Uses(ts, v, n)) + 1
         /\ VidAt(ts, n) # v => Uses(ts, v, n + 1) = Uses(ts, v, n)
<1>1. 0 .. n + 1 - 1 = (0 .. n - 1) \cup {n} /\ n \notin 0 .. n - 1
  OBVIOUS
<1>2. VidAt(ts, n) = v => Uses(ts, v, n + 1) = Uses(ts, v, n) \cup {n}
  BY <1>1 DEF Uses
<1>3. VidAt(ts, n) # v => Uses(ts, v, n + 1) = Uses(ts, v, n)
  BY <1>1 DEF Uses
<1>4. n \notin Uses(ts, v, n)
  BY <1>1 DEF Uses
<1>5. Cardinality(Uses(ts, v, n) \cup {n}) = Cardinality(Uses(ts, v, n)) + 1
  BY <1>4, UsesFinite, FS_AddElement
<1> QED
  BY <1>2, <1>3, <1>5

LEMMA UsesGrow ==
  ASSUME NEW ts, NEW v, NEW n \in Nat, NEW m \in Nat, n <= m
  PROVE  Cardinality(Uses(ts, v, n)) <= Cardinality(Uses(ts, v, m))
<1>1. Uses(ts, v, n) \subseteq Uses(ts, v, m)
  BY DEF Uses
<1> QED
  BY <1>1, UsesFinite, FS_Subset

LEMMA NoUses ==
  ASSUME NEW ts, NEW v
  PROVE  Uses(ts, v, 0) = {} /\ Cardinality(Uses(ts, v, 0)) = 0 /\ ListOf(<< >>, ts, v, 0)
<1>1. Uses(ts, v, 0) = {}
  BY DEF Uses
<1>2. Cardinality(Uses(ts, v, 0)) = 0
  BY <1>1, FS_EmptySet
<1> QED
  BY <1>1, <1>2 DEF ListOf

LEMMA ListOfSame ==
  ASSUME NEW s, NEW ts, NEW v, NEW n, NEW m, Uses(ts, v, n) = Uses(ts, v, m),
         ListOf(s, ts, v, n)
  PROVE  ListOf(s, ts, v, m)
<1> DEFINE U == Uses(ts, v, n)
<1>1. /\ Len(s) = Cardinality(U)
      /\ \A i \in 1 .. Len(s) : \E c \in U : s[i] = c \div 3
      /\ \A c \in U : \E i \in 1 .. Len(s) : s[i] = c \div 3
      /\ \A i, j \in 1 .. Len(s) : i < j => s[i] < s[j]
  BY DEF ListOf
<1>2. U = Uses(ts, v, m)
  OBVIOUS
<1> HIDE DEF U
<1> QED
  BY <1>1, <1>2 DEF ListOf

LEMMA CornerRight ==
  ASSUME NEW ts, NEW np \in Nat, Corners(ts, np), NEW n \in Nat, n < 3 * Len(ts)
  PROVE  n \div 3 \in 0 .. Len(ts) - 1 /\ VidAt(ts, n) \in 0 .. np - 1
<1> DEFINE t == n \div 3
           j == n % 3
<1>1. t \in Nat /\ j \in 0 .. 2 /\ n = 3 * t + j
  BY ThirdsRight
<1>2. Len(ts) \in Nat
  BY DEF Corners
<1>3. VidAt(ts, n) = ts[t + 1][j + 1]
  BY DEF VidAt
<1> HIDE DEF t, j
<1>4. t \in 0 .. Len(ts) - 1
  BY <1>1, <1>2
<1>5. ts[t + 1] \in [1 .. 3 -> 0 .. np - 1]
  BY <1>2, <1>4, SMTT(30) DEF Corners
<1>6. j + 1 \in 1 .. 3
  BY <1>1
<1>7. ts[t + 1][j + 1] \in 0 .. np - 1
  BY <1>5, <1>6
<1> QED
  BY <1>3, <1>4, <1>7 DEF t

\* A triangle has no point at two corners.

LEMMA EarlierTriangle ==
  ASSUME NEW ts, NEW np \in Nat, Corners(ts, np), NEW n \in Nat, n < 3 * Len(ts),
         NEW c \in Nat, c < n, VidAt(ts, c) = VidAt(ts, n)
  PROVE  c \div 3 < n \div 3
<1> DEFINE t == n \div 3
           j == n % 3
           u == c \div 3
           k == c % 3
<1>1. /\ t \in Nat /\ j \in 0 .. 2 /\ n = 3 * t + j
      /\ u \in Nat /\ k \in 0 .. 2 /\ c = 3 * u + k
  BY ThirdsRight
<1>2. ts[t + 1][j + 1] = ts[u + 1][k + 1]
  BY DEF VidAt
<1>3. t + 1 \in 1 .. Len(ts) /\ u <= t
  <2>1. t \in 0 .. Len(ts) - 1 /\ Len(ts) \in Nat
    BY CornerRight DEF Corners
  <2>2. u <= t
    BY ThirdsInOrder
  <2> QED
    BY <1>1, <2>1, <2>2
<1> HIDE DEF t, j, u, k
<1>4. ASSUME u = t PROVE FALSE
  <2>1. j + 1 \in 1 .. 3 /\ k + 1 \in 1 .. 3 /\ k + 1 # j + 1
    BY <1>1, <1>4
  <2> QED
    BY <1>2, <1>3, <1>4, <2>1 DEF Corners
<1>5. u < t
  BY <1>1, <1>3, <1>4
<1> QED
  BY <1>5 DEF t, u

LEMMA FunctionIsSeq ==
  ASSUME NEW m \in Nat, NEW S, NEW s \in [1 .. m -> S]
  PROVE  s \in Seq(S) /\ Len(s) = m
<1>1. s \in Seq(S)
  BY SeqDef
<1>2. DOMAIN s = 1 .. Len(s) /\ Len(s) \in Nat
  BY <1>1, LenProperties
<1>3. 1 .. Len(s) = 1 .. m
  BY <1>2
<1> QED
  BY <1>1, <1>2, <1>3

\* new is the first k of s, and then t.
Written(new, s, k, t) == new = [i \in 1 .. k + 1 |-> IF i = k + 1 THEN t ELSE s[i]]

\* Corner n is the next one of point v.
LEMMA AddCorner ==
  ASSUME NEW ts, NEW np \in Nat, Corners(ts, np), NEW n \in Nat, n < 3 * Len(ts),
         NEW v, VidAt(ts, n) = v,
         NEW s \in Seq(0 .. Len(ts) - 1), ListOf(s, ts, v, n),
         NEW k, k = Cardinality(Uses(ts, v, n)),
         NEW new, Written(new, s, k, n \div 3)
  PROVE  new \in Seq(0 .. Len(ts) - 1) /\ ListOf(new, ts, v, n + 1)
<1> USE DEF Written
<1>1. k \in Nat /\ Len(s) = k
  BY UsesFinite DEF ListOf
<1>2. \A i \in 1 .. k : s[i] \in 0 .. Len(ts) - 1
  BY <1>1
<1>3. n \div 3 \in 0 .. Len(ts) - 1
  BY CornerRight
<1>4. new \in [1 .. k + 1 -> 0 .. Len(ts) - 1]
  <2>1. \A i \in 1 .. k + 1 : i = k + 1 \/ i \in 1 .. k
    BY <1>1
  <2> QED
    BY <1>2, <1>3, <2>1
<1>5. new \in Seq(0 .. Len(ts) - 1) /\ Len(new) = k + 1
  <2>1. k + 1 \in Nat
    BY <1>1
  <2> QED
    BY <1>4, <2>1, FunctionIsSeq, SMTT(30)
<1>6. /\ Uses(ts, v, n + 1) = Uses(ts, v, n) \cup {n}
      /\ Cardinality(Uses(ts, v, n + 1)) = k + 1
  BY UsesMore
<1>7. /\ new[k + 1] = n \div 3 /\ k + 1 \in 1 .. k + 1
      /\ \A i \in 1 .. k : new[i] = s[i] /\ i \in 1 .. k + 1
      /\ \A i \in 1 .. k + 1 : i = k + 1 \/ i \in 1 .. k
  BY <1>1
<1>8. \A i \in 1 .. Len(new) : \E c \in Uses(ts, v, n + 1) : new[i] = c \div 3
  BY <1>1, <1>5, <1>6, <1>7, ZenonT(30) DEF ListOf
<1>9. \A c \in Uses(ts, v, n + 1) : \E i \in 1 .. Len(new) : new[i] = c \div 3
  BY <1>1, <1>5, <1>6, <1>7 DEF ListOf
<1>10. ASSUME NEW i \in 1 .. k PROVE s[i] < n \div 3
  <2>1. PICK c \in Uses(ts, v, n) : s[i] = c \div 3
    BY <1>1 DEF ListOf
  <2>2. c \in Nat /\ c < n /\ VidAt(ts, c) = v
    BY <2>1 DEF Uses
  <2> QED
    BY <2>1, <2>2, EarlierTriangle
<1>11. \A i, j \in 1 .. Len(new) : i < j => new[i] < new[j]
  <2> SUFFICES ASSUME NEW i \in 1 .. k + 1, NEW j \in 1 .. k + 1, i < j
               PROVE  new[i] < new[j]
    BY <1>5
  <2>1. i \in 1 .. k
    BY <1>1
  <2>2. CASE j = k + 1
    BY <1>7, <1>10, <2>1, <2>2
  <2>3. CASE j \in 1 .. k
    BY <1>1, <1>7, <2>1, <2>3 DEF ListOf
  <2> QED
    BY <1>7, <2>2, <2>3
<1> QED
  BY <1>5, <1>6, <1>8, <1>9, <1>11 DEF ListOf
\* How far the lists are when corner n is next.
Filling(n) ==
  /\ count \in [Point -> Nat] /\ room \in [Point -> Nat]
  /\ lists \in [Point -> Seq(0 .. NTriangles - 1)]
  /\ \A v \in Point :
       /\ room[v] = Cardinality(Uses(shape.triangles, v, 3 * NTriangles))
       /\ count[v] = Cardinality(Uses(shape.triangles, v, n))
       /\ ListOf(lists[v], shape.triangles, v, n)

Counting(n) ==
  /\ count \in [Point -> Nat]
  /\ \A v \in Point : count[v] = Cardinality(Uses(shape.triangles, v, n))
  /\ lists = [v \in Point |-> << >>]

CornersInv ==
  /\ stage \in {"count", "fill"} => corner \in 0 .. 3 * NTriangles
  /\ stage = "count" => Counting(corner)
  /\ stage = "fill" => Filling(corner)
  /\ stage \in WithLists \ {"fill"} /\ NTriangles > 0 => Filling(3 * NTriangles)

LEMMA GivenShape ==
  ASSUME GivenInv, stage \in Numbered
  PROVE  /\ Corners(shape.triangles, shape.np) /\ shape.np \in Nat
         /\ NTriangles = Len(shape.triangles) /\ NTriangles \in Nat
<1>1. shape \in Shapes
  BY DEF GivenInv
<1>2. ASSUME NEW s \in Shapes
      PROVE  Corners(s.triangles, s.np) /\ s.np \in Nat
  <2>1. /\ s.np \in Nat /\ s.triangles \in Seq([1 .. 3 -> 0 .. s.np - 1])
        /\ \A t \in DOMAIN s.triangles : \A i, j \in 1 .. 3 :
             i /= j => s.triangles[t][i] /= s.triangles[t][j]
    BY ShapesAssumption
  <2>2. DOMAIN s.triangles = 1 .. Len(s.triangles)
    BY <2>1, LenProperties
  <2> QED
    BY <2>1, <2>2 DEF Corners
<1>3. Corners(shape.triangles, shape.np) /\ shape.np \in Nat
  BY <1>1, <1>2
<1>4. Len(shape.triangles) \in Nat
  BY <1>3, LenProperties DEF Corners
<1> QED
  BY <1>3, <1>4 DEF NTriangles

LEMMA VidRight ==
  ASSUME GivenInv, stage \in Numbered, corner \in 0 .. 3 * NTriangles, ~AllCorners
  PROVE  /\ corner \in Nat /\ corner < 3 * Len(shape.triangles)
         /\ Vid = VidAt(shape.triangles, corner) /\ Vid \in Point
         /\ corner' = corner + 1 => corner' \in 0 .. 3 * NTriangles
<1>1. /\ Corners(shape.triangles, shape.np) /\ shape.np \in Nat
      /\ NTriangles = Len(shape.triangles) /\ NTriangles \in Nat
  BY GivenShape
<1>2. corner \in Nat /\ corner < 3 * NTriangles
  BY <1>1 DEF AllCorners
<1>3. Vid = VidAt(shape.triangles, corner)
  BY DEF Vid, Triangle, VidAt
<1>4. VidAt(shape.triangles, corner) \in 0 .. shape.np - 1
  BY <1>1, <1>2, CornerRight
<1> QED
  BY <1>1, <1>2, <1>3, <1>4 DEF Point

LEMMA ConvertCounts ==
  ASSUME GivenInv, Convert
  PROVE  CornersInv'
<1>1. /\ stage = "convert" /\ shape' = shape /\ corner' = 0
      /\ count' = [v \in Point |-> 0] /\ lists' = [v \in Point |-> << >>]
      /\ stage' = IF NTriangles > 0 THEN "count" ELSE "edges"
  BY DEF Convert
<1>2. NTriangles \in Nat
  BY <1>1, GivenShape DEF Numbered
<1>3. Counting(0)'
  BY <1>1, NoUses DEF Counting, Point
<1> QED
  BY <1>1, <1>2, <1>3 DEF CornersInv, WithLists, NTriangles

LEMMA CountCounts ==
  ASSUME GivenInv, CornersInv, Count
  PROVE  CornersInv'
<1>1. /\ stage = "count" /\ ~AllCorners /\ stage' = stage /\ shape' = shape
      /\ count' = [count EXCEPT ![Vid] = @ + 1]
      /\ corner' = corner + 1 /\ lists' = lists
  BY DEF Count, AllCorners, NTriangles
<1>2. Counting(corner) /\ corner \in 0 .. 3 * NTriangles
  BY <1>1 DEF CornersInv
<1>3. /\ corner \in Nat /\ Vid = VidAt(shape.triangles, corner) /\ Vid \in Point
      /\ corner' \in 0 .. 3 * NTriangles
  BY <1>1, <1>2, VidRight DEF Numbered
<1>4. ASSUME NEW v \in Point
      PROVE  count'[v] = Cardinality(Uses(shape.triangles, v, corner + 1))
  BY <1>1, <1>2, <1>3, UsesMore DEF Counting
<1>5. Counting(corner)'
  BY <1>1, <1>2, <1>3, <1>4 DEF Counting, Point
<1> QED
  BY <1>1, <1>3, <1>5 DEF CornersInv, WithLists, NTriangles

LEMMA AllocateCounts ==
  ASSUME GivenInv, CornersInv, AllocateLists
  PROVE  CornersInv'
<1>1. /\ stage = "count" /\ corner = 3 * NTriangles /\ stage' = "fill" /\ shape' = shape
      /\ room' = count /\ count' = [v \in Point |-> 0] /\ corner' = 0 /\ lists' = lists
  BY DEF AllocateLists, AllCorners
<1>2. Counting(3 * NTriangles)
  BY <1>1 DEF CornersInv
<1>3. NTriangles \in Nat
  BY <1>1, GivenShape DEF Numbered
<1>4. lists' \in [Point -> Seq(0 .. NTriangles - 1)]
  BY <1>1, <1>2, EmptySeq DEF Counting
<1>5. Filling(0)'
  BY <1>1, <1>2, <1>4, NoUses DEF Counting, Filling, Point, NTriangles
<1> QED
  BY <1>1, <1>3, <1>5 DEF CornersInv, WithLists, NTriangles

\* The triangle goes to the end of its point's list, where there is room.
LEMMA FillCounts ==
  ASSUME GivenInv, CornersInv, Fill
  PROVE  CornersInv'
<1> DEFINE ts == shape.triangles
           new == [i \in 1 .. count[Vid] + 1 |->
                     IF i = count[Vid] + 1 THEN Triangle ELSE lists[Vid][i]]
<1>1. /\ stage = "fill" /\ ~AllCorners /\ stage' = stage /\ shape' = shape
      /\ count' = [count EXCEPT ![Vid] = @ + 1]
      /\ corner' = corner + 1 /\ room' = room
  BY DEF Fill
<1>2. Filling(corner) /\ corner \in 0 .. 3 * NTriangles
  BY <1>1 DEF CornersInv
<1>3. /\ corner \in Nat /\ corner < 3 * Len(ts)
      /\ Vid = VidAt(ts, corner) /\ Vid \in Point
      /\ corner' \in 0 .. 3 * NTriangles
  BY <1>1, <1>2, VidRight DEF Numbered
<1>4. lists' = [lists EXCEPT ![Vid] = new]
  BY <1>2, <1>3 DEF Fill, Filling
<1>5. new \in Seq(0 .. NTriangles - 1) /\ ListOf(new, ts, Vid, corner + 1)
  <2>1. Corners(ts, shape.np) /\ shape.np \in Nat /\ NTriangles = Len(ts)
    BY <1>1, GivenShape DEF Numbered
  <2>2. /\ lists[Vid] \in Seq(0 .. Len(ts) - 1) /\ ListOf(lists[Vid], ts, Vid, corner)
        /\ count[Vid] = Cardinality(Uses(ts, Vid, corner))
    BY <1>2, <1>3, <2>1 DEF Filling
  <2>3. new = [i \in 1 .. count[Vid] + 1 |->
                 IF i = count[Vid] + 1 THEN corner \div 3 ELSE lists[Vid][i]]
    BY DEF Triangle
  <2>4. ASSUME NEW r, r = new, NEW u, u = Vid, NEW m, m = corner
        PROVE  r \in Seq(0 .. Len(ts) - 1) /\ ListOf(r, ts, u, m + 1)
    <3> HIDE DEF new, ts
    <3>1. /\ m \in Nat /\ m < 3 * Len(ts) /\ VidAt(ts, m) = u
          /\ lists[u] \in Seq(0 .. Len(ts) - 1) /\ ListOf(lists[u], ts, u, m)
          /\ count[u] = Cardinality(Uses(ts, u, m))
          /\ Written(r, lists[u], count[u], m \div 3)
      BY <1>3, <2>2, <2>3, <2>4 DEF Written
    <3> QED
      BY <2>1, <3>1, AddCorner
  <2> HIDE DEF new, ts
  <2> QED
    BY <2>1, <2>4
<1> HIDE DEF new
<1>6. ASSUME NEW v \in Point
      PROVE  /\ count'[v] = Cardinality(Uses(ts, v, corner + 1))
             /\ ListOf(lists'[v], ts, v, corner + 1)
  <2>1. CASE v = Vid
    <3>1. count'[v] = count[v] + 1 /\ lists'[v] = new
      BY <1>1, <1>2, <1>3, <1>4, <2>1 DEF Filling
    <3>2. count[v] = Cardinality(Uses(ts, v, corner))
      BY <1>2 DEF Filling
    <3>3. Cardinality(Uses(ts, v, corner + 1)) = Cardinality(Uses(ts, v, corner)) + 1
      BY <1>3, <2>1, UsesMore
    <3> QED
      BY <1>5, <2>1, <3>1, <3>2, <3>3
  <2>2. CASE v # Vid
    <3>1. count'[v] = count[v] /\ lists'[v] = lists[v]
      BY <1>1, <1>2, <1>3, <1>4, <2>2 DEF Filling
    <3>2. Uses(ts, v, corner + 1) = Uses(ts, v, corner)
      BY <1>3, <2>2, UsesMore
    <3>3. /\ count[v] = Cardinality(Uses(ts, v, corner))
          /\ ListOf(lists[v], ts, v, corner)
      BY <1>2 DEF Filling
    <3>4. ListOf(lists[v], ts, v, corner + 1)
      BY <3>2, <3>3, ListOfSame
    <3> QED
      BY <3>1, <3>2, <3>3, <3>4
  <2> QED
    BY <2>1, <2>2
<1>7. Filling(corner)'
  <2>1. count' \in [Point -> Nat]
    BY <1>1, <1>2, <1>3 DEF Filling
  <2>2. lists' \in [Point -> Seq(0 .. NTriangles - 1)]
    BY <1>2, <1>3, <1>4, <1>5 DEF Filling
  <2>3. \A v \in Point : room'[v] = Cardinality(Uses(ts, v, 3 * NTriangles))
    BY <1>1, <1>2 DEF Filling
  <2> QED
    BY <1>1, <1>2, <1>6, <2>1, <2>2, <2>3 DEF Filling, Point, NTriangles
<1> QED
  BY <1>1, <1>3, <1>7 DEF CornersInv, WithLists, NTriangles
LEMMA CornersInvInit == InitBuild => CornersInv
BY DEF InitBuild, CornersInv, WithLists

LEMMA CornersInvNext ==
  GivenInv /\ CornersInv /\ [BuildNext]_buildVars => CornersInv'
<1> SUFFICES ASSUME GivenInv, CornersInv, [BuildNext]_buildVars PROVE CornersInv'
  OBVIOUS
<1>1. CASE Convert
  BY <1>1, ConvertCounts
<1>2. CASE Count
  BY <1>2, CountCounts
<1>3. CASE AllocateLists
  BY <1>3, AllocateCounts
<1>4. CASE Fill
  BY <1>4, FillCounts
<1>5. CASE Filled
  <2>1. /\ stage = "fill" /\ corner = 3 * NTriangles /\ stage' = "edges"
        /\ UNCHANGED <<shape, count, room, lists>>
    BY <1>5 DEF Filled, lists_vars, counters, AllCorners
  <2> QED
    BY <2>1 DEF CornersInv, WithLists, Filling, Point, NTriangles
\* The other steps leave the lists alone while there are any.
<1>6. ASSUME stage \in WithLists \ {"fill"} <=> stage' \in WithLists \ {"fill"},
             stage' \notin {"count", "fill"},
             stage \in WithLists => UNCHANGED <<shape, count, room, lists>>
      PROVE  CornersInv'
  <2> SUFFICES ASSUME stage' \in WithLists \ {"fill"}, NTriangles' > 0
               PROVE  Filling(3 * NTriangles)'
    BY <1>6 DEF CornersInv
  <2> QED
    BY <1>6 DEF CornersInv, Filling, Point, NTriangles
<1>7. CASE CopyEdges \/ DestroyIn \/ DestroyOut \/ CirclesFind
  <2>1. UNCHANGED <<shape, count, room, lists>>
    BY <1>7 DEF CopyEdges, DestroyIn, DestroyOut, CirclesFind, lists_vars, counters
  <2>2. /\ stage \in WithLists \ {"fill"} /\ stage' \in WithLists \ {"fill"}
        /\ stage' \notin {"count", "fill"}
    BY <1>7 DEF CopyEdges, DestroyIn, DestroyOut, CirclesFind, WithLists
  <2> QED
    BY <1>6, <2>1, <2>2
<1>8. CASE CallBuild \/ NoPoints \/ FillInput \/ TooFewPoints \/ Triangulate
  BY <1>6, <1>8 DEF CallBuild, NoPoints, FillInput, TooFewPoints, Triangulate, WithLists
<1>9. CASE Destroy
  BY <1>9 DEF Destroy, CornersInv, WithLists
<1>10. CASE FreePoints \/ Leave
  BY <1>6, <1>10 DEF FreePoints, Leave, WithLists
<1>11. CASE UNCHANGED buildVars
  BY <1>11 DEF buildVars, lists_vars, counters, CornersInv, Counting, Filling, Point,
               NTriangles
<1> QED
  BY <1>1, <1>2, <1>3, <1>4, <1>5, <1>7, <1>8, <1>9, <1>10, <1>11 DEF BuildNext

Named(s) == {s[i] : i \in 1 .. Len(s)}
Having(ts, v) == {t \in 0 .. Len(ts) - 1 : \E j \in 1 .. 3 : ts[t + 1][j] = v}

\* The triangles of a point's corners are those that it is a corner of.
LEMMA ListOfAll ==
  ASSUME NEW ts, NEW np \in Nat, Corners(ts, np), NEW v,
         NEW s \in Seq(0 .. Len(ts) - 1), ListOf(s, ts, v, 3 * Len(ts))
  PROVE  Named(s) = Having(ts, v)
<1> DEFINE U == Uses(ts, v, 3 * Len(ts))
<1> USE DEF Named, Having
<1>1. Len(ts) \in Nat
  BY LenProperties DEF Corners
<1>2. ASSUME NEW i \in 1 .. Len(s) PROVE s[i] \in Having(ts, v)
  <2>1. PICK c \in U : s[i] = c \div 3
    BY DEF ListOf
  <2>2. c \in Nat /\ c < 3 * Len(ts) /\ VidAt(ts, c) = v
    BY <1>1, <2>1 DEF Uses
  <2>3. (c % 3) + 1 \in 1 .. 3
    BY <2>2, ThirdsRight
  <2>4. ts[s[i] + 1][(c % 3) + 1] = v
    BY <2>1, <2>2 DEF VidAt
  <2>5. s[i] \in 0 .. Len(ts) - 1
    BY <2>1, <2>2, CornerRight
  <2> QED
    BY <2>3, <2>4, <2>5
<1>3. ASSUME NEW t \in Having(ts, v) PROVE t \in Named(s)
  <2>1. PICK j \in 1 .. 3 : ts[t + 1][j] = v
    OBVIOUS
  <2> DEFINE c == 3 * t + (j - 1)
  <2>2. c \in 0 .. 3 * Len(ts) - 1 /\ c \div 3 = t /\ c % 3 = j - 1
    <3>1. t \in Nat /\ t <= Len(ts) - 1 /\ j \in 1 .. 3
      BY <1>1, <2>1
    <3>2. c \in Nat /\ c <= 3 * Len(ts) - 1
      BY <1>1, <3>1
    <3>3. ASSUME NEW q \in Nat, NEW m \in 0 .. 2, c = 3 * q + m
          PROVE  q = t /\ m = j - 1
      BY <3>1, <3>3
    <3> HIDE DEF c
    <3>4. c \div 3 \in Nat /\ c % 3 \in 0 .. 2 /\ c = 3 * (c \div 3) + (c % 3)
      BY <3>2, ThirdsRight
    <3> QED
      BY <1>1, <3>2, <3>3, <3>4
  <2> HIDE DEF c
  <2>3. VidAt(ts, c) = v
    BY <2>1, <2>2 DEF VidAt
  <2>4. c \in U
    BY <2>2, <2>3 DEF Uses
  <2> QED
    BY <2>2, <2>4 DEF ListOf
<1> QED
  BY <1>2, <1>3

LEMMA CornersInvRight == GivenInv /\ CornersInv => ListsRight
<1> SUFFICES ASSUME GivenInv, CornersInv PROVE ListsRight
  OBVIOUS
<1>1. ASSUME stage = "fill", NEW v \in Point PROVE Len(lists[v]) <= room[v]
  <2>1. Filling(corner) /\ corner \in 0 .. 3 * NTriangles
    BY <1>1 DEF CornersInv
  <2>2. corner \in Nat /\ 3 * NTriangles \in Nat /\ corner <= 3 * NTriangles
    BY <1>1, <2>1, GivenShape DEF Numbered
  <2>3. /\ room[v] = Cardinality(Uses(shape.triangles, v, 3 * NTriangles))
        /\ Len(lists[v]) = Cardinality(Uses(shape.triangles, v, corner))
    BY <2>1 DEF Filling, ListOf
  <2> QED
    BY <2>2, <2>3, UsesGrow
<1>2. ASSUME stage = "built", NTriangles > 0, NEW v \in Point
      PROVE  /\ Len(lists[v]) = count[v] /\ room[v] = count[v]
             /\ \A i, j \in 1 .. count[v] : i < j => lists[v][i] < lists[v][j]
             /\ {lists[v][i] : i \in 1 .. count[v]}
                  = {t \in 0 .. NTriangles - 1 :
                       \E j \in 1 .. 3 : shape.triangles[t + 1][j] = v}
  <2>1. Filling(3 * NTriangles)
    BY <1>2 DEF CornersInv, WithLists
  <2>2. /\ Corners(shape.triangles, shape.np) /\ shape.np \in Nat
        /\ NTriangles = Len(shape.triangles)
    BY <1>2, GivenShape DEF Numbered
  <2>3. /\ room[v] = count[v]
        /\ count[v] = Cardinality(Uses(shape.triangles, v, 3 * NTriangles))
        /\ ListOf(lists[v], shape.triangles, v, 3 * NTriangles)
        /\ lists[v] \in Seq(0 .. NTriangles - 1)
    BY <2>1 DEF Filling
  <2>4. Len(lists[v]) = count[v]
    BY <2>3 DEF ListOf
  <2>5. \A i, j \in 1 .. count[v] : i < j => lists[v][i] < lists[v][j]
    BY <2>3, <2>4 DEF ListOf
  <2>6. {lists[v][i] : i \in 1 .. Len(lists[v])}
          = {t \in 0 .. NTriangles - 1 : \E j \in 1 .. 3 : shape.triangles[t + 1][j] = v}
    <3>1. Named(lists[v]) = Having(shape.triangles, v)
      BY <2>2, <2>3, ListOfAll
    <3> QED
      BY <2>2, <3>1 DEF Named, Having
  <2> QED
    BY <2>3, <2>4, <2>5, <2>6
<1> QED
  BY <1>1, <1>2 DEF ListsRight

(***************************************************************************)
(* Whatever triangles there are: the second pass over their corners never  *)
(* writes past the list that the first one measured, and in the end each   *)
(* point has the list of just its triangles, in order (tio2delaunay).      *)
(***************************************************************************)
THEOREM ListsAlwaysRight == BuildSpec => []ListsRight
<1>1. InitBuild => GivenInv /\ CornersInv
  BY MemoryInvInit, CornersInvInit DEF MemoryInv
<1>2. GivenInv /\ CornersInv /\ [BuildNext]_buildVars => GivenInv' /\ CornersInv'
  BY GivenInvNext, CornersInvNext
<1>3. GivenInv /\ CornersInv => ListsRight
  BY CornersInvRight
<1> QED
  BY <1>1, <1>2, <1>3, PTL DEF BuildSpec

(***************************************************************************)
(* The searches.                                                           *)
(*                                                                         *)
(* The spreading keeps a discipline: a triangle gets its flag when it is   *)
(* put on t_in, so that it is on t_in or t_out at most once, and all flags *)
(* are listed in flagids, so that they can be reset.                       *)
(***************************************************************************)
(***************************************************************************)
(* Induction over the natural numbers, by the least counterexample.        *)
(***************************************************************************)
LEMMA LeastNat ==
  ASSUME NEW T \in SUBSET Nat, T # {}
  PROVE  \E n \in T : \A m \in T : n <= m
<1> DEFINE Upto == {0 .. n : n \in T}
<1>1. Upto \subseteq FiniteSubsetsOf(Nat)
  <2>1. ASSUME NEW n \in T PROVE IsFiniteSet(0 .. n) /\ 0 .. n \in SUBSET Nat
    BY FS_Interval
  <2> QED
    BY <2>1 DEF FiniteSubsetsOf
<1>2. Upto # {}
  OBVIOUS
<1>3. PICK U \in Upto : \A V \in Upto : <<V, U>> \notin StrictSubsetOrdering(Nat)
  BY <1>1, <1>2, FS_StrictSubsetOrderingWellFounded, WFMin
<1>4. PICK n \in T : U = 0 .. n
  OBVIOUS
<1>5. \A m \in T : m < n => 0 .. m \in SUBSET (0 .. n) /\ 0 .. m # 0 .. n
  OBVIOUS
<1>6. \A m \in T : m < n => <<0 .. m, 0 .. n>> \in StrictSubsetOrdering(Nat)
  BY <1>5 DEF StrictSubsetOrdering
<1>7. \A m \in T : <<0 .. m, 0 .. n>> \notin StrictSubsetOrdering(Nat)
  BY <1>3, <1>4
<1>8. \A m \in T : ~(m < n)
  BY <1>6, <1>7
<1> QED
  BY <1>8

\* A set that has 0, and n + 1 with every n, has all of them.
LEMMA InductionOverNat ==
  ASSUME NEW T, 0 \in T, \A n \in Nat : n \in T => n + 1 \in T
  PROVE  Nat \subseteq T
<1> SUFFICES ASSUME Nat \ T # {} PROVE FALSE
  OBVIOUS
<1>1. PICK n \in Nat \ T : \A m \in Nat \ T : n <= m
  BY LeastNat
<1>2. n # 0
  OBVIOUS
<1>3. n - 1 \in Nat /\ n - 1 \in T
  BY <1>1, <1>2
<1> QED
  BY <1>3

LEMMA MinNat ==
  ASSUME NEW T \in SUBSET Nat, T # {}
  PROVE  Min(T) \in T /\ \A m \in T : Min(T) <= m
BY LeastNat DEF Min

(***************************************************************************)
(* Ascending.                                                              *)
(***************************************************************************)
Step(f, n, ids) == IF n = 0 THEN << >>
                   ELSE IF n - 1 \in ids THEN Append(f[n - 1], n - 1) ELSE f[n - 1]
Loop(N, ids) == CHOOSE f : f = [n \in 0 .. N |-> Step(f, n, ids)]

LEMMA LoopExists ==
  ASSUME NEW N \in Nat, NEW ids
  PROVE  Loop(N, ids) = [n \in 0 .. N |-> Step(Loop(N, ids), n, ids)]
<1> DEFINE T == {m \in Nat : \E f : f = [n \in 0 .. m |-> Step(f, n, ids)]}
<1>1. 0 \in T
  <2> DEFINE f == [n \in 0 .. 0 |-> << >>]
  <2>1. f = [n \in 0 .. 0 |-> Step(f, n, ids)]
    BY DEF Step
  <2> QED
    BY <2>1
<1>2. ASSUME NEW m \in Nat, m \in T PROVE m + 1 \in T
  <2>1. PICK f : f = [n \in 0 .. m |-> Step(f, n, ids)]
    BY <1>2
  <2> DEFINE g == [n \in 0 .. m + 1 |-> IF n <= m THEN f[n] ELSE Step(f, n, ids)]
  <2>2. ASSUME NEW n \in 0 .. m + 1 PROVE g[n] = Step(g, n, ids)
    <3>1. Step(g, n, ids) = Step(f, n, ids)
      BY DEF Step
    <3>2. g[n] = Step(f, n, ids)
      BY <2>1
    <3> QED
      BY <3>1, <3>2
  <2>3. g = [n \in 0 .. m + 1 |-> Step(g, n, ids)]
    BY <2>2
  <2> HIDE DEF g
  <2>4. \E h : h = [n \in 0 .. m + 1 |-> Step(h, n, ids)]
    BY <2>3
  <2> QED
    BY <2>4
<1>3. N \in T
  BY <1>1, <1>2, InductionOverNat
<1> QED
  BY <1>3 DEF Loop

LEMMA AscendingIsLoop ==
  ASSUME NEW ids
  PROVE  Ascending(ids) = Loop(ntriangles, ids)[ntriangles]
BY DEF Ascending, Loop, Step

\* Sequences that ascend, of just the ids from 0 to n - 1 in a set.
Lists(s, n, ids) ==
  /\ s \in Seq(0 .. n - 1)
  /\ \A i \in 1 .. Len(s) : s[i] \in ids
  /\ \A t \in 0 .. n - 1 : t \in ids => \E i \in 1 .. Len(s) : s[i] = t
  /\ \A i, j \in 1 .. Len(s) : i < j => s[i] < s[j]

LEMMA AppendLists ==
  ASSUME NEW n \in Nat, NEW ids, NEW s, Lists(s, n, ids)
  PROVE  /\ n \in ids => Lists(Append(s, n), n + 1, ids)
         /\ n \notin ids => Lists(s, n + 1, ids)
<1>1. s \in Seq(0 .. n) /\ Len(s) \in Nat
  BY DEF Lists
<1>2. \A i \in 1 .. Len(s) : s[i] \in 0 .. n - 1
  BY DEF Lists
<1>3. CASE n \in ids
  <2> DEFINE t == Append(s, n)
  <2>1. /\ t \in Seq(0 .. n) /\ Len(t) = Len(s) + 1
        /\ \A i \in 1 .. Len(s) : t[i] = s[i]
        /\ t[Len(s) + 1] = n
    BY <1>1, AppendProperties
  <2> HIDE DEF t
  <2>2. \A i \in 1 .. Len(t) : t[i] \in ids
    BY <1>1, <1>3, <2>1, SMTT(30) DEF Lists
  <2>3. ASSUME NEW u \in 0 .. n, u \in ids PROVE \E i \in 1 .. Len(t) : t[i] = u
    <3>1. CASE u = n
      BY <1>1, <2>1, <3>1
    <3>2. CASE u # n
      <4>1. PICK i \in 1 .. Len(s) : s[i] = u
        BY <2>3, <3>2 DEF Lists
      <4> QED
        BY <1>1, <2>1, <4>1
    <3> QED
      BY <3>1, <3>2
  <2>4. ASSUME NEW i \in 1 .. Len(t), NEW j \in 1 .. Len(t), i < j
        PROVE  t[i] < t[j]
    <3>1. i \in 1 .. Len(s) /\ t[i] = s[i] /\ s[i] \in 0 .. n - 1
      BY <1>1, <1>2, <2>1, <2>4
    <3>2. CASE j \in 1 .. Len(s)
      <4>1. s[i] < s[j]
        BY <2>4, <3>1, <3>2 DEF Lists
      <4> QED
        BY <2>1, <3>1, <3>2, <4>1
    <3>3. CASE j = Len(s) + 1
      BY <2>1, <3>1, <3>3
    <3> QED
      BY <1>1, <2>1, <3>2, <3>3
  <2>5. (n + 1) - 1 = n
    OBVIOUS
  <2>6. Lists(t, n + 1, ids)
    BY <2>1, <2>2, <2>3, <2>4, <2>5 DEF Lists
  <2> QED
    BY <1>3, <2>6 DEF t
<1>4. CASE n \notin ids
  <2>1. (n + 1) - 1 = n
    OBVIOUS
  <2>2. \A t \in 0 .. n : t \in ids => t \in 0 .. n - 1
    BY <1>4
  <2>3. Lists(s, n + 1, ids)
    BY <1>1, <2>1, <2>2 DEF Lists
  <2> QED
    BY <1>4, <2>3
<1> QED
  BY <1>3, <1>4

LEMMA AscendingLists ==
  ASSUME NEW ids, ntriangles \in Nat
  PROVE  Lists(Ascending(ids), ntriangles, ids)
<1> DEFINE N == ntriangles
           f == Loop(N, ids)
           T == {m \in Nat : m <= N => Lists(f[m], m, ids)}
<1>1. f = [n \in 0 .. N |-> Step(f, n, ids)]
  BY LoopExists
<1> HIDE DEF f
<1>2. 0 \in T
  <2>1. f[0] = << >>
    BY <1>1 DEF Step
  <2>2. << >> \in Seq(0 .. 0 - 1) /\ Len(<< >>) = 0
    BY EmptySeq
  <2>3. Lists(<< >>, 0, ids)
    BY <2>2 DEF Lists
  <2> QED
    BY <2>1, <2>3
<1>3. ASSUME NEW m \in Nat, m \in T PROVE m + 1 \in T
  <2> SUFFICES ASSUME m + 1 <= N PROVE Lists(f[m + 1], m + 1, ids)
    OBVIOUS
  <2>1. Lists(f[m], m, ids)
    BY <1>3
  <2>2. f[m + 1] = IF m \in ids THEN Append(f[m], m) ELSE f[m]
    <3>1. m + 1 \in 0 .. N /\ m + 1 # 0 /\ (m + 1) - 1 = m
      OBVIOUS
    <3> QED
      BY <1>1, <3>1 DEF Step
  <2> QED
    BY <2>1, <2>2, AppendLists
<1>4. N \in T
  BY <1>2, <1>3, InductionOverNat
<1> QED
  BY <1>4, AscendingIsLoop DEF f

\* What the actions need of it.
LEMMA AscendingRight ==
  ASSUME NEW ids \in SUBSET Id, ntriangles \in Nat
  PROVE  /\ Ascending(ids) \in Seq(Id)
         /\ ToSet(Ascending(ids)) = ids
         /\ IsInjective(Ascending(ids))
<1> DEFINE s == Ascending(ids)
<1>1. Lists(s, ntriangles, ids)
  BY AscendingLists
<1> HIDE DEF s
<1>2. s \in Seq(Id) /\ DOMAIN s = 1 .. Len(s) /\ Len(s) \in Nat
  BY <1>1 DEF Lists, Id
<1>3. ToSet(s) = ids
  BY <1>1, <1>2 DEF ToSet, Lists, Id
<1>4. \A i \in 1 .. Len(s) : s[i] \in Int
  BY <1>2 DEF Id
<1>5. IsInjective(s)
  <2> SUFFICES ASSUME NEW i \in 1 .. Len(s), NEW j \in 1 .. Len(s), s[i] = s[j], i # j
               PROVE  FALSE
    BY <1>2 DEF IsInjective
  <2>1. i < j \/ j < i
    BY <1>2
  <2>2. s[i] < s[j] \/ s[j] < s[i]
    BY <1>1, <2>1 DEF Lists
  <2> QED
    BY <1>4, <2>2
<1> QED
  BY <1>2, <1>3, <1>5 DEF s

(***************************************************************************)
(* Sequences without repetition.                                           *)
(***************************************************************************)
LEMMA ConcatInjective ==
  ASSUME NEW S, NEW s \in Seq(S), NEW t \in Seq(S)
  PROVE  /\ s \o t \in Seq(S)
         /\ ToSet(s \o t) = ToSet(s) \cup ToSet(t)
         /\ IsInjective(s) /\ IsInjective(t) /\ ToSet(s) \cap ToSet(t) = {}
              => IsInjective(s \o t)
<1> DEFINE u == s \o t
<1>1. /\ u \in Seq(S) /\ Len(u) = Len(s) + Len(t)
      /\ Len(s) \in Nat /\ Len(t) \in Nat
      /\ \A i \in 1 .. Len(u) : u[i] = IF i <= Len(s) THEN s[i] ELSE t[i - Len(s)]
  BY ConcatProperties, LenProperties
<1>2. /\ DOMAIN s = 1 .. Len(s) /\ DOMAIN t = 1 .. Len(t) /\ DOMAIN u = 1 .. Len(u)
  BY <1>1
<1> HIDE DEF u
<1>3. \A i \in DOMAIN s : i \in DOMAIN u /\ u[i] = s[i]
  BY <1>1, <1>2
<1>4. \A i \in DOMAIN t : Len(s) + i \in DOMAIN u /\ u[Len(s) + i] = t[i]
  BY <1>1, <1>2
<1>5. \A i \in DOMAIN u : \/ i \in DOMAIN s /\ u[i] = s[i]
                          \/ i > Len(s) /\ i - Len(s) \in DOMAIN t /\ u[i] = t[i - Len(s)]
  BY <1>1, <1>2
<1>6. ToSet(u) = ToSet(s) \cup ToSet(t)
  BY <1>3, <1>4, <1>5 DEF ToSet
<1>7. ASSUME IsInjective(s), IsInjective(t), ToSet(s) \cap ToSet(t) = {}
      PROVE  IsInjective(u)
  <2> SUFFICES ASSUME NEW i \in DOMAIN u, NEW j \in DOMAIN u, u[i] = u[j]
               PROVE  i = j
    BY DEF IsInjective
  <2>1. \A k \in DOMAIN s, l \in DOMAIN t : s[k] # t[l]
    BY <1>7 DEF ToSet
  <2>2. CASE i \in DOMAIN s /\ u[i] = s[i] /\ j \in DOMAIN s /\ u[j] = s[j]
    BY <1>7, <2>2 DEF IsInjective
  <2>3. CASE /\ i - Len(s) \in DOMAIN t /\ u[i] = t[i - Len(s)]
             /\ j - Len(s) \in DOMAIN t /\ u[j] = t[j - Len(s)]
    <3>1. i - Len(s) = j - Len(s)
      BY <1>7, <2>3 DEF IsInjective
    <3> QED
      BY <1>1, <1>2, <3>1
  <2> QED
    BY <1>5, <2>1, <2>2, <2>3
<1> QED
  BY <1>1, <1>6, <1>7 DEF u

LEMMA FrontInjective ==
  ASSUME NEW S, NEW s \in Seq(S), s # << >>
  PROVE  /\ Front(s) \in Seq(S) /\ Last(s) \in S
         /\ ToSet(s) = ToSet(Front(s)) \cup {Last(s)}
         /\ IsInjective(s) => IsInjective(Front(s)) /\ Last(s) \notin ToSet(Front(s))
<1> DEFINE n == Len(s)
           t == Front(s)
<1>1. n \in Nat /\ n > 0 /\ DOMAIN s = 1 .. n /\ Last(s) = s[n]
  BY EmptySeq, LenProperties DEF Last
<1>2. t = [i \in 1 .. n - 1 |-> s[i]]
  BY <1>1, SubSeqProperties DEF Front
<1>3. t \in Seq(S)
  BY <1>1, <1>2
<1>4. DOMAIN t = 1 .. n - 1 /\ \A i \in 1 .. n - 1 : t[i] = s[i]
  BY <1>2
<1> HIDE DEF t
<1>5. ToSet(s) = ToSet(t) \cup {s[n]}
  BY <1>1, <1>4 DEF ToSet
<1>6. ASSUME IsInjective(s) PROVE IsInjective(t) /\ s[n] \notin ToSet(t)
  BY <1>1, <1>4, <1>6 DEF IsInjective, ToSet
<1> QED
  BY <1>1, <1>3, <1>5, <1>6 DEF t

LEMMA SingletonInjective ==
  ASSUME NEW a
  PROVE  ToSet(<<a>>) = {a} /\ IsInjective(<<a>>)
BY DEF ToSet, IsInjective

LEMMA EmptyInjective == ToSet(<< >>) = {} /\ IsInjective(<< >>)
BY DEF ToSet, IsInjective

LEMMA AppendRight ==
  ASSUME NEW S, NEW s \in Seq(S), NEW elt \in S
  PROVE  /\ Append(s, elt) \in Seq(S)
         /\ ToSet(Append(s, elt)) = ToSet(s) \cup {elt}
         /\ elt \notin ToSet(s) /\ IsInjective(s) => IsInjective(Append(s, elt))
<1>1. Append(s, elt) \in Seq(S)
  BY AppendProperties
<1>2. ToSet(Append(s, elt)) = ToSet(s) \cup {elt}
  BY AppendProperties, LenProperties DEF ToSet
<1>3. elt \notin ToSet(s) /\ IsInjective(s) => IsInjective(Append(s, elt))
  BY AppendProperties, LenProperties DEF ToSet, IsInjective
<1> QED
  BY <1>1, <1>2, <1>3

(***************************************************************************)
(* The triangles a spreading search goes on to.                            *)
(***************************************************************************)
LEMMA TriangulationRight ==
  ASSUME d \in Triangulations
  PROVE  ntriangles \in Nat /\ Id \subseteq Nat
<1>1. d.triangles \in Seq([1 .. 3 -> DOMAIN d.points])
  BY TriangulationsAssumption
<1>2. Len(d.triangles) \in Nat
  BY <1>1, LenProperties
<1> QED
  BY <1>2 DEF ntriangles, Id

LEMMA UnflaggedRight ==
  ASSUME NEW t, ntriangles \in Nat
  PROVE  /\ Unflagged(t) \in Seq(Id)
         /\ IsInjective(Unflagged(t))
         /\ ToSet(Unflagged(t)) \cap flags = {}
<1> DEFINE New(i) == {u \in PointTriangles(Corner(t, i)) \ flags :
                        \A j \in 0 .. i - 1 : Corner(t, j) \notin Vertices(u)}
           s0 == Ascending(New(0))
           s1 == Ascending(New(1))
           s2 == Ascending(New(2))
<1>1. /\ New(0) \in SUBSET Id /\ New(1) \in SUBSET Id /\ New(2) \in SUBSET Id
      /\ New(0) \cap flags = {} /\ New(1) \cap flags = {} /\ New(2) \cap flags = {}
  BY DEF PointTriangles
<1>2. New(0) \cap New(1) = {}
  <2>1. 0 \in 0 .. 1 - 1
    OBVIOUS
  <2> QED
    BY <2>1 DEF PointTriangles
<1>3. (New(0) \cup New(1)) \cap New(2) = {}
  <2>1. 0 \in 0 .. 2 - 1 /\ 1 \in 0 .. 2 - 1
    OBVIOUS
  <2> QED
    BY <2>1 DEF PointTriangles
<1>4. Unflagged(t) = s0 \o s1 \o s2
  BY DEF Unflagged
<1> HIDE DEF New
<1>5. /\ s0 \in Seq(Id) /\ ToSet(s0) = New(0) /\ IsInjective(s0)
      /\ s1 \in Seq(Id) /\ ToSet(s1) = New(1) /\ IsInjective(s1)
      /\ s2 \in Seq(Id) /\ ToSet(s2) = New(2) /\ IsInjective(s2)
  BY <1>1, AscendingRight
<1> HIDE DEF s0, s1, s2
<1> DEFINE s01 == s0 \o s1
<1>6. s01 \in Seq(Id) /\ ToSet(s01) = New(0) \cup New(1) /\ IsInjective(s01)
  BY <1>2, <1>5, ConcatInjective
<1>7. Unflagged(t) = s01 \o s2
  BY <1>4
<1> HIDE DEF s01
<1> DEFINE s012 == s01 \o s2
<1>8. s012 \in Seq(Id) /\ ToSet(s012) = ToSet(s01) \cup ToSet(s2) /\ IsInjective(s012)
  BY <1>3, <1>5, <1>6, ConcatInjective
<1>9. Unflagged(t) = s012
  BY <1>7
<1> HIDE DEF s012
<1> QED
  BY <1>1, <1>5, <1>6, <1>8, <1>9

(***************************************************************************)
(* The inductive invariant.                                                *)
(***************************************************************************)
\* Every flag is listed, and between searches none is left; while a search
\* spreads, what is on the two stacks has a flag, and is there once.
FlagsListed ==
  /\ flags = ToSet(flagids)
  /\ place # "spread" => t_in = << >> /\ flagids = << >>
  /\ place = "spread" => /\ ToSet(t_in) \cup ToSet(t_out) \subseteq flags
                         /\ ToSet(t_in) \cap ToSet(t_out) = {}
                         /\ IsInjective(t_in)

\* What has been found is right, and the triangle that is taken without a
\* look at its circle is the first of a search, and around the point.
FoundRight ==
  /\ place \in {"spread", "idle"} => /\ IsInjective(t_out)
                                     /\ ToSet(t_out) \subseteq within \cup Around(p)
  /\ contains => /\ place \in {"start", "spread"}
                 /\ first_id \in Around(p)
                 /\ place = "spread" => t_in = <<first_id>>

SearchInv == /\ TypeOK
             /\ place = "walk" => walk \in Id
             /\ FlagsListed
             /\ FoundRight

LEMMA InvInit == Init => SearchInv
<1> SUFFICES ASSUME Init PROVE SearchInv
  OBVIOUS
<1>1. TypeOK
  BY EmptySeq DEF Init, TypeOK
<1>2. FlagsListed /\ FoundRight
  BY EmptyInjective DEF Init, FlagsListed, FoundRight
<1> QED
  BY <1>1, <1>2 DEF Init, SearchInv

\* A step leaves the triangulation alone.
LEMMA SameTriangulation ==
  ASSUME d' = d
  PROVE  /\ Id' = Id /\ ntriangles' = ntriangles
         /\ p' = p => Around(p)' = Around(p)
BY DEF Id, ntriangles, Around, Corner

LEMMA QueryRight ==
  ASSUME TypeOK, NEW next, Query(next), d' = d
  PROVE  within' \in SUBSET Id
BY SameTriangulation DEF Query, Inside, OnCircle

LEMMA CallInv ==
  ASSUME SearchInv, Call
  PROVE  SearchInv'
<1>1. TypeOK /\ FlagsListed /\ FoundRight
  BY DEF SearchInv
<1>2. ntriangles \in Nat /\ Id \subseteq Nat
  BY <1>1, TriangulationRight DEF TypeOK
<1>3. ~contains /\ place \in {"created", "idle"}
  BY <1>1 DEF Call, SearchLinear, KeepSeed, StartWalk, Query, FoundRight
<1>4. t_in = << >> /\ flagids = << >> /\ flags = {}
  BY <1>1, <1>3, EmptyInjective DEF FlagsListed
<1>5. CASE SearchLinear
  <2>1. /\ Query("idle") /\ d' = d /\ first_id' = first_id /\ walk' = walk
        /\ contains' = contains /\ t_in' = t_in /\ flags' = flags /\ flagids' = flagids
    BY <1>5 DEF SearchLinear
  <2>2. within' \in SUBSET Id /\ Id' = Id
    BY <1>1, <2>1, QueryRight, SameTriangulation
  <2>3. t_out' \in Seq(Id) /\ ToSet(t_out') = within' /\ IsInjective(t_out')
    <3>1. t_out' = Ascending(within')
      BY <1>5 DEF SearchLinear
    <3>2. ASSUME NEW ids \in SUBSET Id, NEW r, r = Ascending(ids)
          PROVE  r \in Seq(Id) /\ ToSet(r) = ids /\ IsInjective(r)
      BY <1>2, <3>2, AscendingRight
    <3> QED
      BY <2>2, <3>1, <3>2
  <2>4. place' = "idle"
    BY <2>1 DEF Query
  <2>5. TypeOK'
    BY <1>1, <2>1, <2>2, <2>3, <2>4 DEF TypeOK
  <2>6. FlagsListed'
    BY <1>1, <1>4, <2>1, <2>4 DEF FlagsListed
  <2>7. FoundRight'
    BY <1>3, <2>1, <2>3, <2>4 DEF FoundRight
  <2> QED
    BY <2>4, <2>5, <2>6, <2>7 DEF SearchInv
<1>6. CASE KeepSeed
  <2>1. /\ Query("start") /\ d' = d /\ first_id' = first_id /\ walk' = walk
        /\ contains' = FALSE /\ t_in' = t_in /\ t_out' = t_out
        /\ flags' = flags /\ flagids' = flagids /\ first_id \in within'
    BY <1>6 DEF KeepSeed, stacks
  <2>2. within' \in SUBSET Id /\ Id' = Id
    BY <1>1, <2>1, QueryRight, SameTriangulation
  <2>3. place' = "start"
    BY <2>1 DEF Query
  <2>4. TypeOK'
    BY <1>1, <2>1, <2>2, <2>3 DEF TypeOK
  <2>5. FlagsListed' /\ FoundRight'
    BY <1>1, <1>4, <2>1, <2>3 DEF FlagsListed, FoundRight
  <2> QED
    BY <2>3, <2>4, <2>5 DEF SearchInv
<1>7. CASE StartWalk
  <2> DEFINE next == IF InBox(p') THEN "walk" ELSE "unfound"
  <2>1. /\ Query(next) /\ d' = d /\ first_id' = first_id
        /\ contains' = FALSE /\ t_in' = t_in /\ t_out' = t_out
        /\ flags' = flags /\ flagids' = flagids
        /\ walk' = IF first_id < 0 \/ first_id > ntriangles THEN 0 ELSE first_id
        /\ ntriangles > SearchTurnOn
    BY <1>7 DEF StartWalk, stacks
  <2>2. place' = next /\ next \in {"walk", "unfound"}
    BY <2>1 DEF Query
  <2> HIDE DEF next
  <2>3. within' \in SUBSET Id /\ Id' = Id
    BY <1>1, <2>1, QueryRight, SameTriangulation
  <2>4. walk' \in Id
    BY <1>1, <1>2, <2>1, SearchTurnOnAssumption DEF TypeOK, Id
  <2>5. TypeOK'
    BY <1>1, <2>1, <2>2, <2>3, <2>4 DEF TypeOK
  <2>6. FlagsListed' /\ FoundRight'
    BY <1>1, <1>4, <2>1, <2>2 DEF FlagsListed, FoundRight
  <2> QED
    BY <2>3, <2>4, <2>5, <2>6 DEF SearchInv
<1> QED
  BY <1>5, <1>6, <1>7 DEF Call

LEMMA NeighbourRight ==
  ASSUME NEW t, NEW i
  PROVE  Neighbour(t, i) \in Id \cup {-1}
BY DEF Neighbour

\* Looking for a triangle to start from.
LEMMA SeedInv ==
  ASSUME SearchInv, Walk \/ WalkEnds \/ TrySeed \/ Fail
  PROVE  SearchInv'
<1>1. TypeOK /\ FlagsListed /\ FoundRight
  BY DEF SearchInv
<1>2. ntriangles \in Nat /\ Id \subseteq Nat
  BY <1>1, TriangulationRight DEF TypeOK
<1>3. ~contains /\ place \in {"walk", "unfound"}
  BY <1>1 DEF Walk, WalkEnds, TrySeed, Fail, FoundRight
<1>4. t_in = << >> /\ flagids = << >> /\ flags = {}
  BY <1>1, <1>3, EmptyInjective DEF FlagsListed
<1>5. d' = d /\ p' = p /\ within' = within
  BY DEF Walk, WalkEnds, TrySeed, Fail, search
<1>6. Id' = Id /\ Around(p)' = Around(p)
  BY <1>5, SameTriangulation
<1>7. CASE Walk
  <2> DEFINE next == Neighbour(walk, Min(Right) + 2)
  <2>1. /\ IF next < 0 THEN place' = "unfound" /\ walk' = walk
                       ELSE walk' = next /\ place' = place
        /\ place = "walk" /\ first_id' = first_id /\ contains' = contains
        /\ t_in' = t_in /\ t_out' = t_out /\ flags' = flags /\ flagids' = flagids
    BY <1>7 DEF Walk, stacks
  <2>2. next \in Id \cup {-1}
    BY NeighbourRight
  <2> HIDE DEF next
  <2>3. walk \in Id
    BY <2>1 DEF SearchInv
  <2>4. walk' \in Id /\ place' \in {"walk", "unfound"}
    BY <1>2, <2>1, <2>2, <2>3
  <2>5. TypeOK'
    BY <1>1, <1>5, <1>6, <2>1, <2>4 DEF TypeOK
  <2>6. FlagsListed' /\ FoundRight'
    BY <1>1, <1>3, <1>4, <2>1, <2>4 DEF FlagsListed, FoundRight
  <2> QED
    BY <1>6, <2>4, <2>5, <2>6 DEF SearchInv
<1>8. CASE WalkEnds
  <2>1. /\ place = "walk" /\ Right = {}
        /\ first_id' = walk /\ contains' = TRUE /\ place' = "start" /\ walk' = walk
        /\ t_in' = t_in /\ t_out' = t_out /\ flags' = flags /\ flagids' = flagids
    BY <1>8 DEF WalkEnds, stacks
  <2>2. walk \in Id
    BY <2>1 DEF SearchInv
  <2>3. walk \in Around(p)
    BY <2>1, <2>2 DEF Around, Right
  <2>4. TypeOK'
    BY <1>1, <1>5, <1>6, <2>1, <2>2 DEF TypeOK
  <2>5. FlagsListed'
    BY <1>1, <1>4, <2>1 DEF FlagsListed
  <2>6. FoundRight'
    BY <1>6, <2>1, <2>3 DEF FoundRight
  <2> QED
    BY <1>6, <2>1, <2>4, <2>5, <2>6 DEF SearchInv
<1>9. CASE TrySeed
  <2> DEFINE again == {k \in DOMAIN t_out : t_out[k] \in within}
  <2>1. /\ within # {} /\ place' = "start" /\ walk' = walk /\ contains' = contains
        /\ t_in' = t_in /\ t_out' = t_out /\ flags' = flags /\ flagids' = flagids
        /\ first_id' = IF again # {} THEN t_out[Min(again)] ELSE Min(within)
    BY <1>9 DEF TrySeed, stacks
  <2>2. again # {} => Min(again) \in again
    <3>1. again \in SUBSET Nat
      BY <1>1, LenProperties DEF TypeOK
    <3> QED
      BY <3>1, MinNat
  <2>3. Min(within) \in within
    BY <1>1, <1>2, <2>1, MinNat DEF TypeOK
  <2>4. first_id' \in within
    BY <2>1, <2>2, <2>3
  <2>5. TypeOK'
    BY <1>1, <1>5, <1>6, <2>1, <2>4 DEF TypeOK
  <2>6. FlagsListed' /\ FoundRight'
    BY <1>1, <1>3, <1>4, <2>1 DEF FlagsListed, FoundRight
  <2> QED
    BY <1>6, <2>1, <2>5, <2>6 DEF SearchInv
<1>10. CASE Fail
  <2>1. /\ first_id' = -1 /\ t_out' = << >> /\ place' = "idle" /\ walk' = walk
        /\ contains' = contains /\ t_in' = t_in /\ flags' = flags /\ flagids' = flagids
    BY <1>10 DEF Fail
  <2>2. TypeOK'
    BY <1>1, <1>5, <1>6, <2>1, EmptySeq DEF TypeOK
  <2>3. FlagsListed'
    BY <1>1, <1>4, <2>1 DEF FlagsListed
  <2>4. FoundRight'
    BY <1>3, <2>1, EmptyInjective DEF FoundRight
  <2> QED
    BY <1>6, <2>1, <2>2, <2>3, <2>4 DEF SearchInv
<1> QED
  BY <1>7, <1>8, <1>9, <1>10

\* The search spreads.
LEMMA StartSpreadInv ==
  ASSUME SearchInv, StartSpread
  PROVE  SearchInv'
<1>1. TypeOK /\ FlagsListed /\ FoundRight
  BY DEF SearchInv
<1>2. /\ place = "start" /\ place' = "spread" /\ d' = d /\ p' = p /\ within' = within
      /\ first_id' = first_id /\ walk' = walk /\ contains' = contains
      /\ t_in' = <<first_id>> /\ t_out' = << >>
      /\ flags' = flags \cup {first_id} /\ flagids' = Append(flagids, first_id)
  BY DEF StartSpread, search
<1>3. Id' = Id /\ Around(p)' = Around(p)
  BY <1>2, SameTriangulation
<1>4. first_id \in Id /\ flagids = << >> /\ flags = {} /\ flagids \in Seq(Id)
  BY <1>1, <1>2, EmptyInjective DEF TypeOK, FlagsListed
<1>5. flagids' \in Seq(Id) /\ ToSet(flagids') = {first_id}
  <2>1. ASSUME NEW r, r = Append(flagids, first_id)
        PROVE  r \in Seq(Id) /\ ToSet(r) = ToSet(flagids) \cup {first_id}
    <3>1. first_id \in Id /\ flagids \in Seq(Id)
      BY <1>4
    <3> QED
      BY <2>1, <3>1, AppendRight
  <2> QED
    BY <1>2, <1>4, <2>1, EmptyInjective
<1>6. t_in' \in Seq(Id) /\ t_out' \in Seq(Id)
  BY <1>2, <1>4, EmptySeq
<1>7. /\ ToSet(t_in') = {first_id} /\ ToSet(t_out') = {}
      /\ IsInjective(t_in') /\ IsInjective(t_out')
  BY <1>2, SingletonInjective, EmptyInjective
<1>8. TypeOK'
  BY <1>1, <1>2, <1>3, <1>4, <1>5, <1>6 DEF TypeOK
<1>9. FlagsListed'
  BY <1>2, <1>4, <1>5, <1>7 DEF FlagsListed
<1>10. FoundRight'
  BY <1>1, <1>2, <1>3, <1>7 DEF FoundRight
<1> QED
  BY <1>2, <1>8, <1>9, <1>10 DEF SearchInv

LEMMA SpreadOnInv ==
  ASSUME SearchInv, SpreadOn
  PROVE  SearchInv'
<1> DEFINE t == Last(t_in)
           front == Front(t_in)
           new == Unflagged(t)
<1>1. TypeOK /\ FlagsListed /\ FoundRight
  BY DEF SearchInv
<1>2. /\ place = "spread" /\ t_in # << >> /\ (contains \/ t \in within)
      /\ t_out' = Append(t_out, t) /\ t_in' = front \o new
      /\ flags' = flags \cup ToSet(new) /\ flagids' = flagids \o new
      /\ contains' = FALSE /\ place' = place /\ d' = d /\ p' = p /\ within' = within
      /\ first_id' = first_id /\ walk' = walk
  BY DEF SpreadOn, search
<1>3. /\ ntriangles \in Nat /\ t_in \in Seq(Id) /\ t_out \in Seq(Id)
      /\ flagids \in Seq(Id)
  BY <1>1, TriangulationRight DEF TypeOK
<1>4. Id' = Id /\ Around(p)' = Around(p)
  BY <1>2, SameTriangulation
<1>5. new \in Seq(Id) /\ IsInjective(new) /\ ToSet(new) \cap flags = {}
  BY <1>3, UnflaggedRight
<1>6. /\ front \in Seq(Id) /\ t \in Id
      /\ ToSet(t_in) = ToSet(front) \cup {t}
      /\ IsInjective(t_in) => IsInjective(front) /\ t \notin ToSet(front)
  BY <1>2, <1>3, FrontInjective
<1>7. contains => t \in Around(p)
  <2> SUFFICES ASSUME contains PROVE t \in Around(p)
    OBVIOUS
  <2>1. t_in = <<first_id>> /\ first_id \in Around(p)
    BY <1>1, <1>2 DEF FoundRight
  <2>2. Last(<<first_id>>) = first_id
    BY DEF Last
  <2> QED
    BY <2>1, <2>2
<1> HIDE DEF t, front, new
<1>8. /\ ToSet(t_in) \cup ToSet(t_out) \subseteq flags /\ flags = ToSet(flagids)
      /\ ToSet(t_in) \cap ToSet(t_out) = {}
      /\ IsInjective(t_in)
  BY <1>1, <1>2 DEF FlagsListed
<1>9. IsInjective(t_out) /\ ToSet(t_out) \subseteq within \cup Around(p)
  BY <1>1, <1>2 DEF FoundRight
<1>10. t_in' \in Seq(Id) /\ ToSet(t_in') = ToSet(front) \cup ToSet(new) /\ IsInjective(t_in')
  <2>1. ToSet(front) \cap ToSet(new) = {} /\ IsInjective(front)
    BY <1>5, <1>6, <1>8
  <2>2. ASSUME NEW r, r = front \o new
        PROVE  r \in Seq(Id) /\ ToSet(r) = ToSet(front) \cup ToSet(new) /\ IsInjective(r)
    BY <1>5, <1>6, <2>1, <2>2, ConcatInjective
  <2> QED
    BY <1>2, <2>2
<1>11. flagids' \in Seq(Id) /\ ToSet(flagids') = ToSet(flagids) \cup ToSet(new)
  <2>1. ASSUME NEW r, r = flagids \o new
        PROVE  r \in Seq(Id) /\ ToSet(r) = ToSet(flagids) \cup ToSet(new)
    BY <1>3, <1>5, <2>1, ConcatInjective
  <2> QED
    BY <1>2, <2>1
<1>12. t_out' \in Seq(Id) /\ ToSet(t_out') = ToSet(t_out) \cup {t} /\ IsInjective(t_out')
  <2>1. t \notin ToSet(t_out)
    BY <1>6, <1>8
  <2>2. ASSUME NEW r, r = Append(t_out, t)
        PROVE  r \in Seq(Id) /\ ToSet(r) = ToSet(t_out) \cup {t} /\ IsInjective(r)
    BY <1>3, <1>6, <1>9, <2>1, <2>2, AppendRight
  <2> QED
    BY <1>2, <2>2
<1>13. ToSet(new) \in SUBSET Id
  BY <1>5, LenProperties DEF ToSet
<1>14. TypeOK'
  BY <1>1, <1>2, <1>4, <1>10, <1>11, <1>12, <1>13 DEF TypeOK
<1>15. FlagsListed'
  <2>1. flags' = ToSet(flagids')
    BY <1>2, <1>8, <1>11
  <2>2. ToSet(t_in') \cup ToSet(t_out') \subseteq flags'
    BY <1>2, <1>6, <1>8, <1>10, <1>12
  <2>3. ToSet(t_in') \cap ToSet(t_out') = {}
    BY <1>5, <1>6, <1>8, <1>10, <1>12
  <2> QED
    BY <1>2, <1>10, <2>1, <2>2, <2>3 DEF FlagsListed
<1>16. FoundRight'
  <2>1. ToSet(t_out') \subseteq within' \cup Around(p)'
    BY <1>2, <1>4, <1>7, <1>9, <1>12
  <2> QED
    BY <1>2, <1>12, <2>1 DEF FoundRight
<1> QED
  BY <1>2, <1>14, <1>15, <1>16 DEF SearchInv

LEMMA SpreadNotInv ==
  ASSUME SearchInv, SpreadNot
  PROVE  SearchInv'
<1>1. TypeOK /\ FlagsListed /\ FoundRight
  BY DEF SearchInv
<1>2. /\ place = "spread" /\ t_in # << >> /\ ~contains /\ t_in' = Front(t_in)
      /\ t_out' = t_out /\ flags' = flags /\ flagids' = flagids
      /\ contains' = contains /\ place' = place /\ d' = d /\ p' = p /\ within' = within
      /\ first_id' = first_id /\ walk' = walk
  BY DEF SpreadNot, search
<1>3. Id' = Id /\ Around(p)' = Around(p)
  BY <1>2, SameTriangulation
<1>4. t_in' \in Seq(Id) /\ ToSet(t_in') \subseteq ToSet(t_in)
  BY <1>1, <1>2, FrontInjective DEF TypeOK
<1>5. IsInjective(t_in')
  <2>1. IsInjective(t_in) /\ t_in \in Seq(Id)
    BY <1>1, <1>2 DEF FlagsListed, TypeOK
  <2> QED
    BY <1>2, <2>1, FrontInjective
<1>6. TypeOK'
  BY <1>1, <1>2, <1>3, <1>4 DEF TypeOK
<1>7. FlagsListed'
  BY <1>1, <1>2, <1>4, <1>5 DEF FlagsListed
<1>8. FoundRight'
  BY <1>1, <1>2, <1>3 DEF FoundRight
<1> QED
  BY <1>2, <1>6, <1>7, <1>8 DEF SearchInv

LEMMA FinishInv ==
  ASSUME SearchInv, Finish
  PROVE  SearchInv'
<1>1. TypeOK /\ FlagsListed /\ FoundRight
  BY DEF SearchInv
<1>2. /\ place = "spread" /\ t_in = << >> /\ place' = "idle"
      /\ flags' = flags \ ToSet(flagids) /\ flagids' = << >>
      /\ t_in' = t_in /\ t_out' = t_out /\ contains' = contains
      /\ d' = d /\ p' = p /\ within' = within /\ first_id' = first_id /\ walk' = walk
  BY DEF Finish, search
<1>3. Id' = Id /\ Around(p)' = Around(p)
  BY <1>2, SameTriangulation
<1>4. flags' = {}
  BY <1>1, <1>2 DEF FlagsListed
<1>5. ~contains
  <2>1. << >> # <<first_id>>
    OBVIOUS
  <2> QED
    BY <1>1, <1>2, <2>1 DEF FoundRight
<1>6. TypeOK'
  BY <1>1, <1>2, <1>3, <1>4, EmptySeq DEF TypeOK
<1>7. FlagsListed'
  BY <1>2, <1>4, EmptyInjective DEF FlagsListed
<1>8. FoundRight'
  BY <1>1, <1>2, <1>3, <1>5 DEF FoundRight
<1> QED
  BY <1>2, <1>6, <1>7, <1>8 DEF SearchInv

LEMMA InvNext == SearchInv /\ [Next]_vars => SearchInv'
<1> SUFFICES ASSUME SearchInv, [Next]_vars PROVE SearchInv'
  OBVIOUS
<1>1. CASE Call
  BY <1>1, CallInv
<1>2. CASE Walk \/ WalkEnds \/ TrySeed \/ Fail
  BY <1>2, SeedInv
<1>3. CASE StartSpread
  BY <1>3, StartSpreadInv
<1>4. CASE SpreadOn
  BY <1>4, SpreadOnInv
<1>5. CASE SpreadNot
  BY <1>5, SpreadNotInv
<1>6. CASE Finish
  BY <1>6, FinishInv
<1>7. CASE UNCHANGED vars
  <2>1. /\ d' = d /\ p' = p /\ place' = place /\ within' = within
        /\ first_id' = first_id /\ walk' = walk /\ contains' = contains
        /\ t_in' = t_in /\ t_out' = t_out /\ flags' = flags /\ flagids' = flagids
    BY <1>7 DEF vars, search, stacks
  <2>2. Id' = Id /\ Around(p)' = Around(p)
    BY <2>1, SameTriangulation
  <2> QED
    BY <2>1, <2>2 DEF SearchInv, TypeOK, FlagsListed, FoundRight
<1> QED
  BY <1>1, <1>2, <1>3, <1>4, <1>5, <1>6, <1>7 DEF Next, Search

LEMMA InvAlways == Spec => []SearchInv
<1>1. Init => SearchInv
  BY InvInit
<1>2. SearchInv /\ [Next]_vars => SearchInv'
  BY InvNext
<1> QED
  BY <1>1, <1>2, PTL DEF Spec

(***************************************************************************)
(* Every id a search comes to is the id of a triangle (delaunay.c:343-396, *)
(* 441-566).                                                               *)
(***************************************************************************)
THEOREM IdsInRange == Spec => []TypeOK
<1>1. SearchInv => TypeOK
  BY DEF SearchInv
<1> QED
  BY <1>1, InvAlways, PTL

(***************************************************************************)
(* No triangle is returned twice, and none whose circle does not contain   *)
(* the point, but for the triangle around it; and every flag is reset      *)
(* (delaunay.c:401-418, 441-448, 545, 566).                                *)
(***************************************************************************)
THEOREM AnswersAreSound == Spec => []OnlyContaining
<1>1. SearchInv => OnlyContaining
  <2> SUFFICES ASSUME SearchInv, place = "idle"
               PROVE  /\ IsInjective(t_out)
                      /\ ToSet(t_out) \subseteq within \cup Around(p)
                      /\ flags = {}
    BY DEF OnlyContaining, Answered
  <2>1. flagids = << >> /\ flags = ToSet(flagids)
    BY DEF SearchInv, FlagsListed
  <2>2. flags = {}
    BY <2>1, EmptyInjective
  <2> QED
    BY <2>2 DEF SearchInv, FoundRight
<1> QED
  BY <1>1, InvAlways, PTL
===============================================================================
