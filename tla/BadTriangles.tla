---------------------------- MODULE BadTriangles ---------------------------
(* The queues of bad triangles of triangle.c, and the loop of              *)
(* enforcequality that splits what is in them.  64 lists with a front and  *)
(* a tail, of which the nonempty ones are linked from the highest to the   *)
(* lowest.  The geometry is left to chance: whether splitting a triangle   *)
(* makes others bad, and whether it encroaches upon a segment and so has   *)
(* to be tried again.                                                      *)
EXTENDS NullPointer, Integers, Sequences, FiniteSets

CONSTANTS Keys,       \* keys of bad triangles, in thousandths
          NumQueues,  \* 64
          Triangs     \* the badtriang structures; bound: there are no more

ASSUME KeysAssumption == Keys \subseteq 0 .. 1000
ASSUME QueuesAssumption == NumQueues \in Nat \ {0}
ASSUME TriangsAssumption == IsFiniteSet(Triangs) /\ Null \notin Triangs

Queues == 0 .. NumQueues - 1

VARIABLES
  badtriangles,        \* the structures in use
  queuefront, queuetail, nextnonemptyq, firstnonemptyq,
  nexttriang, key,     \* of each badtriang
  badtri               \* the one that is split, or Null

queueVars == <<badtriangles, queuefront, queuetail, nextnonemptyq, firstnonemptyq,
          nexttriang, key, badtri>>

----------------------------------------------------------------------------
\* A key is the squared cosine of the smallest angle.  The keys above 0.6
\* are spread over the queues: 160 is 64 by 0.4.
QueueNumber(k) ==
  LET n == (NumQueues * (k - 600)) \div 400 IN
  IF k > 600 THEN IF n > NumQueues - 1 THEN NumQueues - 1 ELSE n ELSE 0

InitQueues ==
  /\ badtriangles = {}
  /\ queuefront = [q \in Queues |-> Null]
  /\ queuetail = [q \in Queues |-> Null]
  /\ nextnonemptyq = [q \in Queues |-> -1]
  /\ firstnonemptyq = -1
  /\ nexttriang = [t \in Triangs |-> Null]
  /\ key = [t \in Triangs |-> 0]
  /\ badtri = Null

Nonempty == {q \in Queues : queuefront[q] /= Null}

\* The nonempty queue of the next higher priority.
NextHigher(q) ==
  CHOOSE i \in Nonempty : i > q /\ \A j \in Nonempty : j > q => j >= i

\* t is the last of queue q; an empty queue is linked with the others.
EnqueueBadTriang(t, q) ==
  /\ queuetail' = [queuetail EXCEPT ![q] = t]
  /\ IF q \in Nonempty
     THEN /\ nexttriang' = [nexttriang EXCEPT ![queuetail[q]] = t, ![t] = Null]
          /\ UNCHANGED <<queuefront, nextnonemptyq, firstnonemptyq>>
     ELSE /\ nexttriang' = [nexttriang EXCEPT ![t] = Null]
          /\ queuefront' = [queuefront EXCEPT ![q] = t]
          /\ IF q > firstnonemptyq
             THEN /\ nextnonemptyq' = [nextnonemptyq EXCEPT ![q] = firstnonemptyq]
                  /\ firstnonemptyq' = q
             ELSE /\ nextnonemptyq' =
                       [nextnonemptyq EXCEPT ![q] = nextnonemptyq[NextHigher(q)],
                                             ![NextHigher(q)] = q]
                  /\ firstnonemptyq' = firstnonemptyq

\* A triangle of the mesh is found bad, in tallyfaces or after a split.
EnqueueBadTri ==
  \E t \in Triangs \ badtriangles, k \in Keys :
    /\ badtriangles' = badtriangles \cup {t}
    /\ key' = [key EXCEPT ![t] = k]
    /\ EnqueueBadTriang(t, QueueNumber(k))
    /\ badtri' = badtri

Take(next) ==
  LET result == queuefront[firstnonemptyq] IN
  /\ badtri' = result
  /\ queuefront' = [queuefront EXCEPT ![firstnonemptyq] = nexttriang[result]]
  /\ firstnonemptyq' =
       IF result = queuetail[firstnonemptyq] THEN next ELSE firstnonemptyq
  /\ UNCHANGED <<badtriangles, queuetail, nextnonemptyq, nexttriang, key>>

\* enforcequality goes on while the pool has bad triangles, and does not ask
\* whether the queues gave it one.
DequeueBadTriang ==
  /\ badtri = Null
  /\ badtriangles /= {}
  /\ firstnonemptyq >= 0
  /\ Take(nextnonemptyq[firstnonemptyq])

\* Mutant: what was taken from the front is still linked to what follows.
PutBackInFront ==
  /\ badtri /= Null
  /\ badtri' = Null
  /\ LET q == QueueNumber(key[badtri]) IN
     IF q \in Nonempty
     THEN /\ queuefront' = [queuefront EXCEPT ![q] = badtri]
          /\ nexttriang' = [nexttriang EXCEPT ![badtri] = queuefront[q]]
          /\ UNCHANGED <<queuetail, nextnonemptyq, firstnonemptyq>>
     ELSE EnqueueBadTriang(badtri, q)
  /\ UNCHANGED <<badtriangles, key>>

\* Splitting it encroached upon a segment: it has to wait once more.
PutBack ==
  /\ badtri /= Null
  /\ badtri' = Null
  /\ EnqueueBadTriang(badtri, QueueNumber(key[badtri]))
  /\ UNCHANGED <<badtriangles, key>>

\* It was split, or was not the same triangle any more.
Drop ==
  /\ badtri /= Null
  /\ badtriangles' = badtriangles \ {badtri}
  /\ badtri' = Null
  /\ UNCHANGED <<queuefront, queuetail, nextnonemptyq, firstnonemptyq,
                 nexttriang, key>>

QueuesNext == EnqueueBadTri \/ DequeueBadTriang \/ PutBack \/ Drop

QueuesSpec == InitQueues /\ [][QueuesNext]_queueVars

----------------------------------------------------------------------------
\* At most n triangles from t on, as they are linked.
Chain[n \in 0 .. Cardinality(Triangs)] ==
  [t \in Triangs \cup {Null} |->
     IF n = 0 \/ t = Null THEN << >> ELSE <<t>> \o Chain[n - 1][nexttriang[t]]]
Queue(q) == Chain[Cardinality(Triangs)][queuefront[q]]

\* What every variable holds; every key has a queue, the largest too
\* (triangle.c:6693-6702).
QueuesTypeOK ==
  /\ badtriangles \subseteq Triangs
  /\ \A k \in Keys : QueueNumber(k) \in Queues
  /\ queuefront \in [Queues -> Triangs \cup {Null}]
  /\ queuetail \in [Queues -> Triangs \cup {Null}]
  /\ nextnonemptyq \in [Queues -> Queues \cup {-1}]
  /\ firstnonemptyq \in Queues \cup {-1}
  /\ nexttriang \in [Triangs -> Triangs \cup {Null}]
  /\ key \in [Triangs -> Keys \cup {0}]
  /\ badtri \in Triangs \cup {Null}

\* The nonempty queues are linked from the highest to the lowest, whatever the
\* queues that fell empty have kept (triangle.c:6708-6721, 6805).
LinkedInOrder ==
  /\ firstnonemptyq = -1 <=> Nonempty = {}
  /\ \A q \in Nonempty :
       /\ q =< firstnonemptyq
       /\ nextnonemptyq[q] \in {i \in Nonempty : i < q} \cup {-1}
       /\ \A i \in Nonempty : i < q => i =< nextnonemptyq[q]

\* The loop of enforcequality never gets NULL for a bad triangle: what the
\* pool counts is in the queues (triangle.c:13596-13599).
NeverEmptyHanded == badtriangles /= {} /\ badtri = Null => firstnonemptyq >= 0

\* The queues keep TriangleQueue's promise; the nonempty ones are linked in
\* order, every key has one, and enforcequality never gets NULL for a bad
\* triangle (triangle.c:6673-6808, 13596-13599).
QueuesPromise == INSTANCE TriangleQueue
                   WITH Priorities <- Queues, queue <- [q \in Queues |-> Queue(q)],
                        current <- badtri
IsPriorityQueue ==
  QueuesPromise!Spec /\ [](QueuesTypeOK /\ LinkedInOrder /\ NeverEmptyHanded)
=============================================================================
