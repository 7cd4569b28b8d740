--------------------------- MODULE TriangleQueue ---------------------------
(* What the 64 queues of bad triangles promise (triangle.c:6661-6667): a   *)
(* queue for each priority, and always the triangle that has waited        *)
(* longest among those of the highest priority.                            *)
EXTENDS Integers, Sequences

CONSTANTS Triangs, Priorities, Null

VARIABLES queue,     \* the triangles that wait, by priority
          current    \* the triangle that is split, or Null

vars == <<queue, current>>

Init == queue = [p \in Priorities |-> << >>] /\ current = Null

Waiting == UNION {{queue[p][k] : k \in DOMAIN queue[p]} : p \in Priorities}
Wait(t, p) == queue' = [queue EXCEPT ![p] = Append(@, t)]

Enqueue ==
  \E t \in Triangs \ (Waiting \cup {current}), p \in Priorities :
    Wait(t, p) /\ current' = current

Dequeue ==
  \E p \in Priorities :
    /\ queue[p] /= << >>
    /\ \A higher \in Priorities : higher > p => queue[higher] = << >>
    /\ current = Null /\ current' = Head(queue[p])
    /\ queue' = [queue EXCEPT ![p] = Tail(@)]

PutBack == current /= Null /\ current' = Null /\ \E p \in Priorities : Wait(current, p)

Drop == current /= Null /\ current' = Null /\ queue' = queue

Next == Enqueue \/ Dequeue \/ PutBack \/ Drop

Spec == Init /\ [][Next]_vars
=============================================================================
