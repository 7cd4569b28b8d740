-------------------------- MODULE MCDataStructures -------------------------
(* The data structures of the triangulation's code, each explored on its   *)
(* own: nothing that one does touches another.                             *)
(*                                                                         *)
(* The stack has room for one entry at first, so that its array grows      *)
(* twice.  The pool gets two blocks of two items: a traversal steps from   *)
(* one to the other, and restarts find the second from before.  There are  *)
(* four queues; the keys fill the lowest and the highest and one between   *)
(* them, and four triangles can fill these three and two places in one.    *)
(* Five vertices make a heap in which an event that is called off has its  *)
(* place taken by one that has to go up, and arrays of five are split into *)
(* parts that are split again.                                             *)
EXTENDS IStack, MemoryPool, BadTriangles, VertexSort, EventHeap, PointTools, TLC

VARIABLE which

NotSorted ==
  /\ given = << >> /\ sortarray = << >> /\ median = 0 /\ calls = << >>
  /\ doing = "begin" /\ pivot = 0 /\ left = 0 /\ right = 0

NoEvents ==
  /\ heap = << >> /\ due = << >> /\ heapposition = << >> /\ freeevents = << >>
  /\ found = 0 /\ circles = {} /\ nextevent = Null

NoPoints ==
  /\ points = << >> /\ task = [rmax |-> 0] /\ read = 0
  /\ averaged = << >> /\ cluster = {} /\ sum_r = 0

Init ==
  /\ which \in {"stack", "pool", "queues", "sort", "heap", "tools"}
  /\ InitStack
  /\ which /= "stack" => v = [i \in 0 .. NStart - 1 |-> CHOOSE x \in Values : TRUE]
  /\ InitPool
  /\ InitQueues
  /\ IF which = "sort" THEN InitSort ELSE NotSorted
  /\ IF which = "heap" THEN InitHeap ELSE NoEvents
  /\ IF which = "tools" THEN InitThin ELSE NoPoints

\* Arrays end, the others go on.
Over ==
  /\ \/ which = "sort" /\ calls = << >>
     \/ which = "heap" /\ found = MaxCircles /\ heap = << >> /\ nextevent = Null
     \/ which = "tools" /\ read = Len(points)
  /\ UNCHANGED <<which, stackVars, poolVars, queueVars, sortVars, heapVars, thinVars>>

Next ==
  \/ which = "stack" /\ StackNext
     /\ UNCHANGED <<which, poolVars, queueVars, sortVars, heapVars, thinVars>>
  \/ which = "pool" /\ PoolNext
     /\ UNCHANGED <<which, stackVars, queueVars, sortVars, heapVars, thinVars>>
  \/ which = "queues" /\ QueuesNext
     /\ UNCHANGED <<which, stackVars, poolVars, sortVars, heapVars, thinVars>>
  \/ which = "sort" /\ SortNext
     /\ UNCHANGED <<which, stackVars, poolVars, queueVars, heapVars, thinVars>>
  \/ which = "heap" /\ HeapNext
     /\ UNCHANGED <<which, stackVars, poolVars, queueVars, sortVars, thinVars>>
  \/ which = "tools" /\ ThinNext
     /\ UNCHANGED <<which, stackVars, poolVars, queueVars, sortVars, heapVars>>
  \/ Over

Spec == Init /\ [][Next]_<<which, stackVars, poolVars, queueVars, sortVars, heapVars, thinVars>>

Thinnings == [rmax : 1 .. 2] \cup [nx : 0 .. 3, ny : 0 .. 3]

\* Which structure is which of them does not matter.
SameTriangs == Permutations(Triangs)
=============================================================================
