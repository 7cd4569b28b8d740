----------------------------- MODULE EventHeap -----------------------------
(* The event heap of the sweep line of triangle.c: a binary heap in an     *)
(* array, each event of which knows its place, and the list of the events  *)
(* that are free.  What the sweep does with the events is left to chance:  *)
(* which circles it finds, and which it calls off.                         *)
EXTENDS NullPointer, Integers, Sequences, FiniteSets

CONSTANTS Sites,       \* the number of vertices, m->invertices
          Times,       \* when an event may be due: the order of ykey, then xkey, from 1 on
          MaxCircles   \* bound: the sweep finds no more circles

ASSUME SitesAssumption == Sites \in Nat \ {0}
ASSUME TimesAssumption == Times \subseteq Nat \ {0}

MaxEvents == (3 * Sites) \div 2
Events == 0 .. MaxEvents - 1

ASSUME NullIsNoEvent == Null \notin Events

VARIABLES
  heap,            \* the first heapsize entries: the others are never read
  due,             \* of each event: xkey and ykey
  heapposition,    \* of each event; both are 0 when it does not wait
  freeevents,      \* the list of them
  found,           \* how many circles were found
  circles,         \* the events that a triangle of the front points to
  nextevent        \* the event that is handled, or Null

heapVars == <<heap, due, heapposition, freeevents, found, circles, nextevent>>

----------------------------------------------------------------------------
heapsize == Cardinality(DOMAIN heap)
Parent(i) == (i - 1) \div 2

\* The places above i, the root's last.
Above[i \in Nat] == IF i = 0 THEN {} ELSE {Parent(i)} \cup Above[Parent(i)]

\* Event e goes to place i of heap h, or above, and what is due later than it
\* goes down: the new heap and the place of e.  One that is due when e is stays.
RiseIn(h, i, e, when) ==
  LET later == {a \in Above[i] : \A b \in Above[i] : b >= a => when[h[b]] > when[e]}
      at == IF later = {} THEN i ELSE CHOOSE a \in later : \A b \in later : a <= b
  IN [heap |-> [j \in DOMAIN h \cup {i} |->
                  IF j = at THEN e
                  ELSE IF j = i \/ j \in later THEN h[Parent(j)] ELSE h[j]],
      at |-> at]

\* The child of i that is due first, of n events.
Child(h, n, i) ==
  IF 2 * i + 2 < n /\ due[h[2 * i + 2]] < due[h[2 * i + 1]] THEN 2 * i + 2 ELSE 2 * i + 1

\* The event at place i goes down while a child is due before it.
eventheapify(h, n, i) ==
  LET e == h[i]
      falls(j) == 2 * j + 1 < n /\ due[h[Child(h, n, j)]] < due[e]
      path[j \in 0 .. n] == {j} \cup IF falls(j) THEN path[Child(h, n, j)] ELSE {}
  IN [j \in 0 .. n - 1 |->
        IF j \notin path[i] THEN h[j] ELSE IF falls(j) THEN h[Child(h, n, j)] ELSE e]

Moved(e) == \E i \in DOMAIN heap' : heap'[i] = e /\ (i \in DOMAIN heap => heap[i] /= e)

\* Every event that was put somewhere else learns its place.
LearnPlaces ==
  heapposition' = [e \in Events |-> IF Moved(e) THEN CHOOSE i \in DOMAIN heap' : heap'[i] = e
                                   ELSE IF due'[e] = 0 THEN 0 ELSE heapposition[e]]

eventheapinsert(e) ==
  /\ heap' = RiseIn(heap, heapsize, e, due').heap
  /\ LearnPlaces

\* Mutant: the last event takes the place of the one at i and goes down.
DeleteSinks(i) ==
  LET n == heapsize - 1 IN
  /\ heap' = eventheapify([heap EXCEPT ![i] = heap[n]], n, i)
  /\ due' = [due EXCEPT ![heap[i]] = 0]
  /\ LearnPlaces

\* The last event takes the place of the one at i, goes up and then down.
eventheapdelete(i) ==
  LET n == heapsize - 1
      risen == RiseIn(heap, i, heap[n], due)
  IN /\ heap' = eventheapify(risen.heap, n, risen.at)
     /\ due' = [due EXCEPT ![heap[i]] = 0]
     /\ LearnPlaces

----------------------------------------------------------------------------
\* The vertices are inserted one by one; the events left over are free.
InitHeap ==
  /\ \E t \in [0 .. Sites - 1 -> Times] :
       due = [e \in Events |-> IF e < Sites THEN t[e] ELSE 0]
  /\ LET built[i \in 0 .. Sites] ==
           IF i = 0 THEN << >> ELSE RiseIn(built[i - 1], i - 1, i - 1, due).heap
     IN heap = built[Sites]
  /\ heapposition = [e \in Events |-> IF e >= Sites THEN 0
                                     ELSE CHOOSE i \in DOMAIN heap : heap[i] = e]
  /\ freeevents = [i \in 1 .. MaxEvents - Sites |-> Sites + i - 1]
  /\ found = 0
  /\ circles = {}
  /\ nextevent = Null

Free(e) == freeevents' = <<e>> \o freeevents

\* The sweep line comes to the first event.
NextEvent ==
  /\ heapsize > 0 /\ nextevent = Null
  /\ nextevent' = heap[0]
  /\ circles' = circles \ {heap[0]}
  /\ eventheapdelete(0)
  /\ UNCHANGED <<freeevents, found>>

\* The handler of an event finds that a circle will not do: two triangles at
\* most that the front loses, or the edge that a vertex falls on.
check4deadevent ==
  /\ nextevent /= Null
  /\ \E e \in circles :
       /\ circles' = circles \ {e}
       /\ Free(e)
       /\ eventheapdelete(heapposition[e])
  /\ UNCHANGED <<found, nextevent>>

FreeEvent ==
  /\ nextevent /= Null
  /\ Free(nextevent)
  /\ nextevent' = Null
  /\ UNCHANGED <<heap, due, heapposition, found, circles>>

\* A circle that the front has between two of its edges.
NewCircle ==
  /\ nextevent = Null /\ freeevents /= << >>
  /\ found < MaxCircles /\ found' = found + 1
  /\ LET e == Head(freeevents) IN
     /\ freeevents' = Tail(freeevents)
     /\ \E t \in Times : due' = [due EXCEPT ![e] = t]
     /\ circles' = circles \cup {e}
     /\ eventheapinsert(e)
  /\ UNCHANGED nextevent

HeapNext == NextEvent \/ check4deadevent \/ FreeEvent \/ NewCircle

HeapSpec == InitHeap /\ [][HeapNext]_heapVars

----------------------------------------------------------------------------
Waiting == {heap[i] : i \in DOMAIN heap}

HeapPromise == INSTANCE EventQueue WITH due <- [e \in Waiting |-> due[e]], current <- nextevent

InOrder == \A i \in DOMAIN heap : i > 0 => due[heap[Parent(i)]] <= due[heap[i]]
PlacesKnown == \A i \in DOMAIN heap : heapposition[heap[i]] = i

\* The heap gives the sweep always the event that is due first, and an event
\* that is called off is that event and no other, because every event that
\* waits knows its place; an event called off in the middle leaves the order
\* as it should be (triangle.c:10258, 10316, 10504-10508, 10349-10364).
IsEventQueue == HeapPromise!Spec /\ [](InOrder /\ PlacesKnown)
=============================================================================
