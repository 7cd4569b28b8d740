----------------------------- MODULE QueueProofs ----------------------------
(***************************************************************************)
(* Proofs about two structures of triangle.c that say what comes first.    *)
(*                                                                         *)
(* The queues of bad triangles, for any number of queues, triangles and    *)
(* keys: they keep the promise of TriangleQueue, the links among the       *)
(* nonempty ones lead from the highest to the lowest, and the loop that    *)
(* empties them never comes away with nothing.                             *)
(*                                                                         *)
(* A queue is read off its links: Queue(q) follows them from the front.    *)
(* What is proved of a step is how the sequences change, and that they are *)
(* what the links say again.                                               *)
(*                                                                         *)
(* The event heap of the sweep line, for any number of vertices and any    *)
(* times: it keeps the promise of EventQueue.  What moves when an          *)
(* event goes up or down is a chain of places; along it the heap stays in  *)
(* order, and each place gets the event of the next, so that none is lost. *)
(***************************************************************************)
EXTENDS BadTriangles, EventHeap, SequenceTheorems, FiniteSetTheorems,
        WellFoundedInduction, TLAPS

(***************************************************************************)
(* Induction over the natural numbers, by the least counterexample.        *)
(***************************************************************************)
LEMMA LeastNat ==
  ASSUME NEW T \in SUBSET Nat, T # {}
  PROVE  \E n \in T : \A m \in T : n <= m
<1> DEFINE Upto == {0 .. n : n \in T}
<1>1. Upto \subseteq FiniteSubsetsOf(Nat)
  <2>1. ASSUME NEW n \in T PROVE IsFiniteSet(0 .. n) /\ 0 .. n \in SUBSET Nat
    BY FS_Interval
  <2> QED
    BY <2>1 DEF FiniteSubsetsOf
<1>2. Upto # {}
  OBVIOUS
<1>3. PICK U \in Upto : \A V \in Upto : <<V, U>> \notin StrictSubsetOrdering(Nat)
  BY <1>1, <1>2, FS_StrictSubsetOrderingWellFounded, WFMin
<1>4. PICK n \in T : U = 0 .. n
  OBVIOUS
<1>5. \A m \in T : m < n => 0 .. m \in SUBSET (0 .. n) /\ 0 .. m # 0 .. n
  OBVIOUS
<1>6. \A m \in T : m < n => <<0 .. m, 0 .. n>> \in StrictSubsetOrdering(Nat)
  BY <1>5 DEF StrictSubsetOrdering
<1>7. \A m \in T : <<0 .. m, 0 .. n>> \notin StrictSubsetOrdering(Nat)
  BY <1>3, <1>4
<1>8. \A m \in T : ~(m < n)
  BY <1>6, <1>7
<1> QED
  BY <1>8

\* A set that has 0, and n + 1 with every n, has all of them.
LEMMA InductionOverNat ==
  ASSUME NEW T, 0 \in T, \A n \in Nat : n \in T => n + 1 \in T
  PROVE  Nat \subseteq T
<1> SUFFICES ASSUME Nat \ T # {} PROVE FALSE
  OBVIOUS
<1>1. PICK n \in Nat \ T : \A m \in Nat \ T : n <= m
  BY LeastNat
<1>2. n # 0
  OBVIOUS
<1>3. n - 1 \in Nat /\ n - 1 \in T
  BY <1>1, <1>2
<1> QED
  BY <1>3

(***************************************************************************)
(* The links between the queues that are not empty, the set NE.            *)
(***************************************************************************)
LinkedIn(NE, link, first) ==
  /\ NE \subseteq Queues
  /\ first \in Int
  /\ IF first = -1 THEN NE = {} ELSE first \in NE
  /\ \A q \in NE :
       /\ q <= first
       /\ link[q] = -1 \/ (link[q] \in NE /\ link[q] < q)
       /\ \A i \in NE : i < q => i <= link[q]

LEMMA QueuesAreNumbers == Queues \subseteq Nat
BY QueuesAssumption DEF Queues

LEMMA LinkHighest ==
  ASSUME NEW NE, NEW link, NEW first, LinkedIn(NE, link, first),
         NEW q \in Queues, q > first,
         NEW new, new[q] = first, \A r \in NE : new[r] = link[r]
  PROVE  LinkedIn(NE \cup {q}, new, q)
<1>1. NE \subseteq Nat /\ q \in Nat /\ first \in Int /\ NE \cup {q} \subseteq Queues
  BY QueuesAreNumbers DEF LinkedIn
<1>2. \A r \in NE : r <= first /\ r < q
  BY <1>1 DEF LinkedIn
<1>3. first = -1 \/ (first \in NE /\ first < q)
  BY <1>1 DEF LinkedIn
<1>4. ASSUME NEW r \in NE \cup {q}
      PROVE  /\ r <= q
             /\ new[r] = -1 \/ (new[r] \in NE \cup {q} /\ new[r] < r)
             /\ \A i \in NE \cup {q} : i < r => i <= new[r]
  <2>1. CASE r = q
    BY <1>1, <1>2, <1>3, <2>1
  <2>2. CASE r \in NE
    <3>1. /\ link[r] = -1 \/ (link[r] \in NE /\ link[r] < r)
          /\ \A i \in NE : i < r => i <= link[r]
      BY <2>2 DEF LinkedIn
    <3>2. r < q
      BY <1>2, <2>2
    <3> QED
      BY <1>1, <2>2, <3>1, <3>2
  <2> QED
    BY <2>1, <2>2
<1> QED
  BY <1>1, <1>4 DEF LinkedIn

\* The links new, where q comes after h, the next higher of NE.
PutBetween(NE, link, new, q, h) ==
  /\ h \in NE /\ h > q /\ \A j \in NE : j > q => j >= h
  /\ new[q] = link[h] /\ new[h] = q
  /\ \A r \in NE : r # h => new[r] = link[r]

LEMMA LinkBetween ==
  ASSUME NEW NE, NEW link, NEW first, LinkedIn(NE, link, first),
         NEW q \in Queues, q \notin NE, ~(q > first),
         NEW new, NEW h, PutBetween(NE, link, new, q, h)
  PROVE  LinkedIn(NE \cup {q}, new, first)
<1> USE DEF PutBetween
<1>1. NE \subseteq Nat /\ q \in Nat /\ first \in Int /\ NE \cup {q} \subseteq Queues
  BY QueuesAreNumbers DEF LinkedIn
<1>2. first \in NE /\ first # -1
  BY DEF LinkedIn
<1>3. /\ link[h] = -1 \/ (link[h] \in NE /\ link[h] < h)
      /\ \A i \in NE : i < h => i <= link[h]
  BY DEF LinkedIn
<1>4. ASSUME NEW r \in NE \cup {q}
      PROVE  /\ r <= first
             /\ new[r] = -1 \/ (new[r] \in NE \cup {q} /\ new[r] < r)
             /\ \A i \in NE \cup {q} : i < r => i <= new[r]
  <2>1. CASE r = q
    <3>1. r <= first
      BY <1>1, <2>1
    <3>2. new[r] = -1 \/ (new[r] \in NE /\ new[r] < r)
      <4> SUFFICES ASSUME link[h] \in NE, link[h] < h PROVE link[h] < q
        BY <1>3, <2>1
      <4>1. link[h] \in Nat /\ h \in Nat /\ link[h] # q
        BY <1>1
      <4>2. ~(link[h] > q)
        BY <4>1
      <4> QED
        BY <1>1, <4>1, <4>2
    <3>3. \A i \in NE : i < r => i <= new[r]
      BY <1>1, <1>3, <2>1
    <3> QED
      BY <1>1, <2>1, <3>1, <3>2, <3>3
  <2>2. CASE r = h
    <3>1. r <= first
      BY <2>2 DEF LinkedIn
    <3>2. \A i \in NE : i < h => i <= q
      BY <1>1
    <3> QED
      BY <1>1, <2>2, <3>1, <3>2
  <2>3. CASE r \in NE /\ r # h
    <3>1. /\ r <= first /\ new[r] = link[r]
          /\ link[r] = -1 \/ (link[r] \in NE /\ link[r] < r)
          /\ \A i \in NE : i < r => i <= link[r]
      BY <2>3 DEF LinkedIn
    <3>2. q < r => q <= link[r]
      <4> SUFFICES ASSUME q < r PROVE q <= link[r]
        OBVIOUS
      <4>1. h < r
        BY <1>1, <2>3
      <4>2. h <= link[r]
        BY <3>1, <4>1
      <4>3. link[r] \in Int /\ h \in Int
        <5>1. link[r] \in NE => link[r] \in Nat
          BY <1>1
        <5> QED
          BY <1>1, <3>1, <5>1
      <4> QED
        BY <1>1, <4>2, <4>3
    <3> QED
      BY <2>3, <3>1, <3>2
  <2> QED
    BY <2>1, <2>2, <2>3
<1> QED
  BY <1>1, <1>2, <1>4 DEF LinkedIn

LEMMA UnlinkHighest ==
  ASSUME NEW NE, NEW link, NEW first \in NE, LinkedIn(NE, link, first)
  PROVE  LinkedIn(NE \ {first}, link, link[first])
<1>1. NE \subseteq Nat /\ NE \ {first} \subseteq Queues
  BY QueuesAreNumbers DEF LinkedIn
<1>2. /\ link[first] = -1 \/ (link[first] \in NE /\ link[first] < first)
      /\ \A i \in NE : i < first => i <= link[first]
      /\ \A i \in NE : i <= first
  BY DEF LinkedIn
<1>3. \A i \in NE \ {first} : i <= link[first]
  BY <1>1, <1>2
<1>4. link[first] = -1 => NE \ {first} = {}
  BY <1>1, <1>3
<1>5. link[first] # -1 => link[first] \in NE \ {first}
  BY <1>1, <1>2
<1>6. ASSUME NEW r \in NE \ {first}
      PROVE  /\ link[r] = -1 \/ (link[r] \in NE \ {first} /\ link[r] < r)
             /\ \A i \in NE \ {first} : i < r => i <= link[r]
  <2>1. /\ r \in NE
        /\ link[r] = -1 \/ (link[r] \in NE /\ link[r] < r)
        /\ \A i \in NE : i < r => i <= link[r]
    BY DEF LinkedIn
  <2>2. r < first
    BY <1>1, <1>2
  <2> QED
    BY <1>1, <2>1, <2>2
<1>7. link[first] \in Int
  <2>1. link[first] \in NE => link[first] \in Nat
    BY <1>1
  <2> QED
    BY <1>2, <2>1
<1>8. IF link[first] = -1 THEN NE \ {first} = {} ELSE link[first] \in NE \ {first}
  BY <1>4, <1>5
<1> HIDE DEF Queues
<1> QED
  BY <1>1, <1>3, <1>6, <1>7, <1>8 DEF LinkedIn
(***************************************************************************)
(* The queues as sequences.                                                *)
(***************************************************************************)
Lists == [Queues -> Seq(Triangs)]

\* The sequences are what the fronts, the tails and the links say.
Fits(Q, front, tail, link) ==
  \A q \in Queues :
    /\ Len(Q[q]) = 0 => front[q] = Null
    /\ Len(Q[q]) > 0 => /\ front[q] = Q[q][1] /\ tail[q] = Q[q][Len(Q[q])]
                        /\ link[Q[q][Len(Q[q])]] = Null
    /\ \A k \in 1 .. Len(Q[q]) - 1 : link[Q[q][k]] = Q[q][k + 1]

\* Every triangle is in one place at most.
Once(Q) ==
  \A q, r \in Queues : \A k \in 1 .. Len(Q[q]), l \in 1 .. Len(Q[r]) :
    Q[q][k] = Q[r][l] => q = r /\ k = l

\* They have the triangles of a set.
In(Q, t) == \E q \in Queues : \E k \in 1 .. Len(Q[q]) : Q[q][k] = t
Have(Q, T) == T \subseteq Triangs /\ \A t \in Triangs : t \in T <=> In(Q, t)

\* R is Q with t added to queue q...
Added(Q, R, q, t) ==
  /\ R \in Lists
  /\ \A r \in Queues : r # q => R[r] = Q[r]
  /\ Len(R[q]) = Len(Q[q]) + 1
  /\ R[q][Len(Q[q]) + 1] = t
  /\ \A k \in 1 .. Len(Q[q]) : R[q][k] = Q[q][k]

\* ...or without the first of queue q.
Taken(Q, R, q) ==
  /\ R \in Lists
  /\ \A r \in Queues : r # q => R[r] = Q[r]
  /\ Len(R[q]) = Len(Q[q]) - 1
  /\ \A k \in 1 .. Len(Q[q]) - 1 : R[q][k] = Q[q][k + 1]

LEMMA ListsRight ==
  ASSUME NEW Q \in Lists, NEW q \in Queues
  PROVE  /\ Q[q] \in Seq(Triangs) /\ Len(Q[q]) \in Nat
         /\ \A k \in 1 .. Len(Q[q]) : Q[q][k] \in Triangs
BY DEF Lists

LEMMA AppendAdds ==
  ASSUME NEW Q \in Lists, NEW q \in Queues, NEW t \in Triangs
  PROVE  Added(Q, [Q EXCEPT ![q] = Append(Q[q], t)], q, t)
<1> DEFINE s == Append(Q[q], t)
           R == [Q EXCEPT ![q] = s]
<1>1. Q[q] \in Seq(Triangs)
  BY DEF Lists
<1>2. /\ s \in Seq(Triangs) /\ Len(s) = Len(Q[q]) + 1 /\ s[Len(Q[q]) + 1] = t
      /\ \A k \in 1 .. Len(Q[q]) : s[k] = Q[q][k]
  BY <1>1, AppendProperties
<1> HIDE DEF s
<1>3. R \in Lists /\ R[q] = s /\ \A r \in Queues : r # q => R[r] = Q[r]
  BY <1>2 DEF Lists
<1> QED
  BY <1>2, <1>3 DEF Added, s

LEMMA TailTakes ==
  ASSUME NEW Q \in Lists, NEW q \in Queues, Len(Q[q]) > 0
  PROVE  Taken(Q, [Q EXCEPT ![q] = Tail(Q[q])], q) /\ Q[q] # << >> /\ Head(Q[q]) = Q[q][1]
<1> DEFINE s == Tail(Q[q])
           R == [Q EXCEPT ![q] = s]
<1>1. Q[q] \in Seq(Triangs) /\ Q[q] # << >>
  BY DEF Lists
<1>2. /\ s \in Seq(Triangs) /\ Len(s) = Len(Q[q]) - 1 /\ Head(Q[q]) = Q[q][1]
      /\ \A k \in 1 .. Len(s) : s[k] = Q[q][k + 1]
  BY <1>1, HeadTailProperties
<1> HIDE DEF s
<1>3. R \in Lists /\ R[q] = s /\ \A r \in Queues : r # q => R[r] = Q[r]
  BY <1>2 DEF Lists
<1> QED
  BY <1>1, <1>2, <1>3 DEF Taken, s

\* A triangle that is added has to be in none of them.
LEMMA AddedOnce ==
  ASSUME NEW Q \in Lists, NEW q \in Queues, NEW t \in Triangs, NEW R, Added(Q, R, q, t),
         Once(Q), ~In(Q, t)
  PROVE  Once(R)
<1> SUFFICES ASSUME NEW p \in Queues, NEW r \in Queues, NEW k \in 1 .. Len(R[p]),
                    NEW l \in 1 .. Len(R[r]), R[p][k] = R[r][l]
             PROVE  p = r /\ k = l
  BY DEF Once
<1>1. ASSUME NEW u \in Queues, NEW i \in 1 .. Len(R[u])
      PROVE  \/ i \in 1 .. Len(Q[u]) /\ R[u][i] = Q[u][i]
             \/ u = q /\ i = Len(Q[q]) + 1 /\ R[u][i] = t
  <2>1. Len(Q[u]) \in Nat
    BY ListsRight
  <2>2. CASE u # q
    BY <2>2 DEF Added
  <2>3. CASE u = q
    BY <2>1, <2>3 DEF Added
  <2> QED
    BY <2>2, <2>3
<1>2. \A u \in Queues : \A i \in 1 .. Len(Q[u]) : Q[u][i] # t
  BY DEF In
<1>3. CASE k \in 1 .. Len(Q[p]) /\ R[p][k] = Q[p][k]
  <2>1. l \in 1 .. Len(Q[r]) /\ R[r][l] = Q[r][l]
    BY <1>1, <1>2, <1>3
  <2>2. Q[p][k] = Q[r][l]
    BY <1>3, <2>1
  <2>3. \A i \in 1 .. Len(Q[p]), j \in 1 .. Len(Q[r]) : Q[p][i] = Q[r][j] => p = r /\ i = j
    BY DEF Once
  <2> QED
    BY <1>3, <2>1, <2>2, <2>3
<1>4. CASE p = q /\ k = Len(Q[q]) + 1 /\ R[p][k] = t
  BY <1>1, <1>2, <1>4
<1> QED
  BY <1>1, <1>3, <1>4

LEMMA AddedHave ==
  ASSUME NEW Q \in Lists, NEW q \in Queues, NEW t \in Triangs, NEW R, Added(Q, R, q, t),
         NEW T, Have(Q, T)
  PROVE  Have(R, T \cup {t})
<1>1. Len(Q[q]) \in Nat
  BY ListsRight
<1>2. ASSUME NEW u \in Triangs, In(Q, u) PROVE In(R, u)
  <2>0. PICK r \in Queues : \E k \in 1 .. Len(Q[r]) : Q[r][k] = u
    BY <1>2 DEF In
  <2>1. PICK k \in 1 .. Len(Q[r]) : Q[r][k] = u
    BY <2>0
  <2>2. k \in 1 .. Len(R[r]) /\ R[r][k] = u
    <3>1. CASE r # q
      BY <2>1, <3>1 DEF Added
    <3>2. CASE r = q
      BY <1>1, <2>1, <3>2 DEF Added
    <3> QED
      BY <3>1, <3>2
  <2> QED
    BY <2>2 DEF In
<1>3. In(R, t)
  <2>1. Len(Q[q]) + 1 \in 1 .. Len(R[q]) /\ R[q][Len(Q[q]) + 1] = t
    BY <1>1 DEF Added
  <2> QED
    BY <2>1 DEF In
<1>4. ASSUME NEW u \in Triangs, In(R, u), u # t PROVE In(Q, u)
  <2>0. PICK r \in Queues : \E k \in 1 .. Len(R[r]) : R[r][k] = u
    BY <1>4 DEF In
  <2>1. PICK k \in 1 .. Len(R[r]) : R[r][k] = u
    BY <2>0
  <2>2. k \in 1 .. Len(Q[r]) /\ Q[r][k] = u
    <3>1. CASE r # q
      BY <2>1, <3>1 DEF Added
    <3>2. CASE r = q
      BY <1>1, <1>4, <2>1, <3>2 DEF Added
    <3> QED
      BY <3>1, <3>2
  <2> QED
    BY <2>2 DEF In
<1>5. ASSUME NEW u \in Triangs PROVE u \in T \cup {t} <=> In(R, u)
  BY <1>2, <1>3, <1>4 DEF Have
<1>6. T \cup {t} \subseteq Triangs
  BY DEF Have
<1> QED
  BY <1>5, <1>6 DEF Have

LEMMA AddedFits ==
  ASSUME NEW Q \in Lists, NEW q \in Queues, NEW t \in Triangs, NEW R, Added(Q, R, q, t),
         Once(Q), ~In(Q, t),
         NEW front, NEW tail, NEW link, Fits(Q, front, tail, link),
         NEW front2, NEW tail2, NEW link2,
         \A r \in Queues : r # q => front2[r] = front[r] /\ tail2[r] = tail[r],
         front2[q] = IF Len(Q[q]) = 0 THEN t ELSE front[q],
         tail2[q] = t, link2[t] = Null,
         Len(Q[q]) > 0 => link2[tail[q]] = t,
         \A u \in Triangs :
           u # t /\ ~(Len(Q[q]) > 0 /\ u = tail[q]) => link2[u] = link[u]
  PROVE  Fits(R, front2, tail2, link2)
<1>1. Len(Q[q]) \in Nat
  BY ListsRight
<1>2. \A u \in Queues : \A i \in 1 .. Len(Q[u]) : Q[u][i] # t /\ Q[u][i] \in Triangs
  BY ListsRight DEF In
<1>3. ASSUME NEW u \in Queues, NEW i \in 1 .. Len(Q[u]), ~(u = q /\ i = Len(Q[q]))
      PROVE  link2[Q[u][i]] = link[Q[u][i]]
  <2>1. Len(Q[q]) > 0 => Q[u][i] # Q[q][Len(Q[q])]
    BY <1>1, <1>3 DEF Once
  <2>2. Len(Q[q]) > 0 => tail[q] = Q[q][Len(Q[q])]
    BY DEF Fits
  <2> QED
    BY <1>2, <2>1, <2>2
<1>4. ASSUME NEW r \in Queues
      PROVE  /\ Len(R[r]) = 0 => front2[r] = Null
             /\ Len(R[r]) > 0 => /\ front2[r] = R[r][1] /\ tail2[r] = R[r][Len(R[r])]
                                 /\ link2[R[r][Len(R[r])]] = Null
             /\ \A k \in 1 .. Len(R[r]) - 1 : link2[R[r][k]] = R[r][k + 1]
  <2>1. CASE r # q
    <3>1. R[r] = Q[r] /\ Len(Q[r]) \in Nat
      BY <2>1, ListsRight DEF Added
    <3>2. \A k \in 1 .. Len(Q[r]) : link2[Q[r][k]] = link[Q[r][k]]
      BY <1>3, <2>1
    <3>3. /\ Len(Q[r]) = 0 => front[r] = Null
          /\ Len(Q[r]) > 0 => /\ front[r] = Q[r][1] /\ tail[r] = Q[r][Len(Q[r])]
                              /\ link[Q[r][Len(Q[r])]] = Null
          /\ \A k \in 1 .. Len(Q[r]) - 1 : link[Q[r][k]] = Q[r][k + 1]
      BY DEF Fits
    <3>4. front2[r] = front[r] /\ tail2[r] = tail[r]
      BY <2>1
    <3> QED
      BY <3>1, <3>2, <3>3, <3>4
  <2>2. CASE r = q
    <3> DEFINE n == Len(Q[q])
    <3>1. /\ Len(R[q]) = n + 1 /\ R[q][n + 1] = t
          /\ \A k \in 1 .. n : R[q][k] = Q[q][k]
      BY DEF Added
    <3>2. n > 0 => front[q] = Q[q][1] /\ tail[q] = Q[q][n]
      BY DEF Fits
    <3>3. \A k \in 1 .. n - 1 : link[Q[q][k]] = Q[q][k + 1]
      BY DEF Fits
    <3>4. \A k \in 1 .. n : k # n => link2[Q[q][k]] = link[Q[q][k]]
      BY <1>3
    <3>5. n \in Nat
      BY <1>1
    <3> HIDE DEF n
    <3>6. front2[q] = R[q][1]
      BY <3>1, <3>2, <3>5 DEF n
    <3>7. ASSUME NEW k \in 1 .. n PROVE link2[R[q][k]] = R[q][k + 1]
      <4>1. CASE k = n
        BY <3>1, <3>2, <3>5, <4>1 DEF n
      <4>2. CASE k # n
        <5>1. k \in 1 .. n - 1 /\ k + 1 \in 1 .. n
          BY <3>5, <4>2
        <5> QED
          BY <3>1, <3>3, <3>4, <4>2, <5>1
      <4> QED
        BY <4>1, <4>2
    <3>8. tail2[q] = R[q][n + 1] /\ link2[R[q][n + 1]] = Null
      BY <3>1
    <3> QED
      BY <2>2, <3>1, <3>5, <3>6, <3>7, <3>8
  <2> QED
    BY <2>1, <2>2
<1> QED
  BY <1>4 DEF Fits

\* The front of q is what was linked to it.
FrontTaken(front, front2, link, q) ==
  /\ \A r \in Queues : r # q => front2[r] = front[r]
  /\ front2[q] = link[front[q]]

\* Nothing was linked to the last one of q.
FrontLeft(front, front2, tail, q) ==
  IF front[q] = tail[q] THEN front2[q] = Null ELSE front2[q] # Null

\* The first of a queue is taken.
LEMMA TakenRight ==
  ASSUME NEW Q \in Lists, NEW q \in Queues, Len(Q[q]) > 0, NEW R, Taken(Q, R, q),
         Once(Q), NEW T, Have(Q, T),
         NEW front, NEW tail, NEW link, Fits(Q, front, tail, link),
         NEW front2, FrontTaken(front, front2, link, q)
  PROVE  /\ Once(R) /\ Have(R, T \ {Q[q][1]}) /\ Fits(R, front2, tail, link)
         /\ FrontLeft(front, front2, tail, q)
<1> USE DEF FrontTaken, FrontLeft
<1> DEFINE n == Len(Q[q])
<1>1. n \in Nat /\ n > 0 /\ 1 \in 1 .. n
  BY ListsRight
<1>2. /\ \A r \in Queues : r # q => R[r] = Q[r]
      /\ Len(R[q]) = n - 1
      /\ \A k \in 1 .. n - 1 : R[q][k] = Q[q][k + 1]
  BY DEF Taken
<1>3. ASSUME NEW r \in Queues, NEW k \in 1 .. Len(R[r])
      PROVE  \/ r # q /\ k \in 1 .. Len(Q[r]) /\ R[r][k] = Q[r][k]
             \/ r = q /\ k + 1 \in 2 .. Len(Q[r]) /\ R[r][k] = Q[r][k + 1]
  BY <1>1, <1>2
<1>4. Once(R)
  <2> SUFFICES ASSUME NEW p \in Queues, NEW r \in Queues, NEW k \in 1 .. Len(R[p]),
                      NEW l \in 1 .. Len(R[r]), R[p][k] = R[r][l]
               PROVE  p = r /\ k = l
    BY DEF Once
  <2>1. CASE p # q /\ r # q
    BY <1>3, <2>1 DEF Once
  <2>2. CASE p = q /\ r = q
    <3>1. /\ k + 1 \in 1 .. Len(Q[p]) /\ R[p][k] = Q[p][k + 1]
          /\ l + 1 \in 1 .. Len(Q[r]) /\ R[r][l] = Q[r][l + 1]
      BY <1>3, <2>2
    <3>2. k + 1 = l + 1
      <4>1. \A i \in 1 .. Len(Q[p]), j \in 1 .. Len(Q[r]) : Q[p][i] = Q[r][j] => i = j
        BY DEF Once
      <4> QED
        BY <3>1, <4>1
    <3> QED
      BY <2>2, <3>2
  <2>3. CASE p = q /\ r # q
    <3>1. /\ k + 1 \in 1 .. Len(Q[p]) /\ R[p][k] = Q[p][k + 1]
          /\ l \in 1 .. Len(Q[r]) /\ R[r][l] = Q[r][l]
      BY <1>3, <2>3
    <3> QED
      BY <2>3, <3>1 DEF Once
  <2>4. CASE p # q /\ r = q
    <3>1. /\ k \in 1 .. Len(Q[p]) /\ R[p][k] = Q[p][k]
          /\ l + 1 \in 1 .. Len(Q[r]) /\ R[r][l] = Q[r][l + 1]
      BY <1>3, <2>4
    <3> QED
      BY <2>4, <3>1 DEF Once
  <2> QED
    BY <2>1, <2>2, <2>3, <2>4
<1>5. Have(R, T \ {Q[q][1]})
  <2>1. ASSUME NEW u \in Triangs, In(Q, u), u # Q[q][1] PROVE In(R, u)
    <3>0. PICK r \in Queues : \E k \in 1 .. Len(Q[r]) : Q[r][k] = u
      BY <2>1 DEF In
    <3>1. PICK k \in 1 .. Len(Q[r]) : Q[r][k] = u
      BY <3>0
    <3>2. CASE r # q
      BY <1>2, <3>1, <3>2 DEF In
    <3>3. CASE r = q
      <4>1. k - 1 \in 1 .. n - 1 /\ (k - 1) + 1 = k
        BY <1>1, <2>1, <3>1, <3>3
      <4>2. R[q][k - 1] = u
        BY <1>2, <3>1, <3>3, <4>1
      <4> QED
        BY <1>2, <4>1, <4>2 DEF In
    <3> QED
      BY <3>2, <3>3
  <2>2. ASSUME NEW u \in Triangs, In(R, u) PROVE In(Q, u) /\ u # Q[q][1]
    <3>0. PICK r \in Queues : \E k \in 1 .. Len(R[r]) : R[r][k] = u
      BY <2>2 DEF In
    <3>1. PICK k \in 1 .. Len(R[r]) : R[r][k] = u
      BY <3>0
    <3>2. CASE r # q
      <4>1. k \in 1 .. Len(Q[r]) /\ Q[r][k] = u
        BY <1>2, <3>1, <3>2
      <4>2. u # Q[q][1]
        BY <1>1, <3>2, <4>1 DEF Once
      <4> QED
        BY <4>1, <4>2 DEF In
    <3>3. CASE r = q
      <4>1. k + 1 \in 2 .. n /\ k + 1 \in 1 .. n /\ Q[q][k + 1] = u
        BY <1>3, <3>1, <3>3
      <4>2. u # Q[q][1]
        BY <1>1, <4>1 DEF Once
      <4> QED
        BY <4>1, <4>2 DEF In
    <3> QED
      BY <3>2, <3>3
  <2>3. ASSUME NEW u \in Triangs PROVE u \in T \ {Q[q][1]} <=> In(R, u)
    BY <2>1, <2>2 DEF Have
  <2>4. T \ {Q[q][1]} \subseteq Triangs
    BY DEF Have
  <2> QED
    BY <2>3, <2>4 DEF Have
<1>6. /\ front[q] = Q[q][1] /\ tail[q] = Q[q][n] /\ link[Q[q][n]] = Null
      /\ \A k \in 1 .. n - 1 : link[Q[q][k]] = Q[q][k + 1]
  BY <1>1 DEF Fits
<1>7. IF n = 1 THEN front2[q] = Null ELSE front2[q] = Q[q][2] /\ Q[q][2] \in Triangs
  <2>1. CASE n = 1
    BY <1>6, <2>1
  <2>2. CASE n # 1
    <3> HIDE DEF n
    <3>1. 1 \in 1 .. n - 1 /\ 1 + 1 = 2 /\ 2 \in 1 .. n
      BY <1>1, <2>2
    <3>2. Q[q][2] \in Triangs
      BY <3>1, ListsRight DEF n
    <3> QED
      BY <1>6, <2>2, <3>1, <3>2
  <2> QED
    BY <2>1, <2>2
<1>8. Fits(R, front2, tail, link)
  <2> SUFFICES ASSUME NEW r \in Queues
               PROVE  /\ Len(R[r]) = 0 => front2[r] = Null
                      /\ Len(R[r]) > 0 => /\ front2[r] = R[r][1] /\ tail[r] = R[r][Len(R[r])]
                                          /\ link[R[r][Len(R[r])]] = Null
                      /\ \A k \in 1 .. Len(R[r]) - 1 : link[R[r][k]] = R[r][k + 1]
    BY DEF Fits
  <2>1. CASE r # q
    <3>1. R[r] = Q[r] /\ front2[r] = front[r]
      BY <1>2, <2>1
    <3> QED
      BY <3>1 DEF Fits
  <2>2. CASE r = q
    <3> HIDE DEF n
    <3>1. CASE n = 1
      BY <1>2, <1>7, <2>2, <3>1
    <3>2. CASE n # 1
      <4>1. n - 1 \in 1 .. n - 1 /\ 1 \in 1 .. n - 1 /\ (n - 1) + 1 = n /\ 1 + 1 = 2
        BY <1>1, <3>2
      <4>2. R[q][n - 1] = Q[q][n] /\ R[q][1] = Q[q][2]
        BY <1>2, <4>1
      <4>3. ASSUME NEW k \in 1 .. (n - 1) - 1 PROVE link[R[q][k]] = R[q][k + 1]
        <5>1. k \in 1 .. n - 1 /\ k + 1 \in 1 .. n - 1
          BY <1>1
        <5>2. R[q][k] = Q[q][k + 1] /\ R[q][k + 1] = Q[q][(k + 1) + 1]
          BY <1>2, <5>1
        <5> QED
          BY <1>6, <5>1, <5>2
      <4> QED
        BY <1>1, <1>2, <1>6, <1>7, <2>2, <3>2, <4>2, <4>3
    <3> QED
      BY <3>1, <3>2
  <2> QED
    BY <2>1, <2>2
<1>9. FrontLeft(front, front2, tail, q)
  <2>1. CASE n = 1
    BY <1>6, <1>7, <2>1
  <2>2. CASE n # 1
    <3>1. Q[q][2] # Null
      BY <1>7, <2>2, TriangsAssumption
    <3>2. Q[q][1] # Q[q][n]
      <4>1. n \in 1 .. n
        BY <1>1
      <4>2. \A i, j \in 1 .. n : Q[q][i] = Q[q][j] => i = j
        BY DEF Once
      <4> HIDE DEF n
      <4> QED
        BY <1>1, <2>2, <4>1, <4>2
    <3> QED
      BY <1>6, <1>7, <2>2, <3>1, <3>2
  <2> QED
    BY <2>1, <2>2
<1> QED
  BY <1>4, <1>5, <1>8, <1>9
(***************************************************************************)
(* Following the links.                                                    *)
(***************************************************************************)
Most == Cardinality(Triangs)

LEMMA MostIsNat == Most \in Nat
BY TriangsAssumption, FS_CardinalityType DEF Most

\* Triangles that are in one place each do not make a longer queue than there
\* are triangles.
LEMMA ShortLists ==
  ASSUME NEW Q \in Lists, Once(Q), NEW q \in Queues
  PROVE  Len(Q[q]) <= Most
<1> DEFINE n == Len(Q[q])
<1>1. n \in Nat /\ Q[q] \in [1 .. n -> Triangs]
  BY DEF Lists
<1>2. IsFiniteSet(1 .. n) /\ Cardinality(1 .. n) = n
  <2>1. 1 \in Int /\ n \in Int
    BY <1>1
  <2> HIDE DEF n
  <2>2. IsFiniteSet(1 .. n) /\ Cardinality(1 .. n) = IF 1 > n THEN 0 ELSE n - 1 + 1
    BY <2>1, FS_Interval
  <2> QED
    BY <1>1, <2>2
<1>3. \A i, j \in 1 .. n : Q[q][i] = Q[q][j] => i = j
  BY DEF Once
<1> HIDE DEF n
<1>4. ~(Cardinality(Triangs) < Cardinality(1 .. n))
  BY <1>1, <1>2, <1>3, TriangsAssumption, FS_PigeonHole
<1> QED
  BY <1>1, <1>2, <1>4, MostIsNat DEF Most, n

Follow(f, n, link) ==
  [t \in Triangs \cup {Null} |->
     IF n = 0 \/ t = Null THEN << >> ELSE <<t>> \o f[n - 1][link[t]]]
ChainBy(link) == CHOOSE f : f = [n \in 0 .. Most |-> Follow(f, n, link)]

LEMMA ChainExists ==
  ASSUME NEW link
  PROVE  ChainBy(link) = [n \in 0 .. Most |-> Follow(ChainBy(link), n, link)]
<1> DEFINE T == {m \in Nat : \E f : f = [n \in 0 .. m |-> Follow(f, n, link)]}
<1>1. 0 \in T
  <2> DEFINE f == [n \in 0 .. 0 |-> [t \in Triangs \cup {Null} |-> << >>]]
  <2>1. f = [n \in 0 .. 0 |-> Follow(f, n, link)]
    BY DEF Follow
  <2> QED
    BY <2>1
<1>2. ASSUME NEW m \in Nat, m \in T PROVE m + 1 \in T
  <2>1. PICK f : f = [n \in 0 .. m |-> Follow(f, n, link)]
    BY <1>2
  <2> DEFINE g == [n \in 0 .. m + 1 |-> IF n <= m THEN f[n] ELSE Follow(f, n, link)]
  <2>2. ASSUME NEW n \in 0 .. m + 1 PROVE g[n] = Follow(g, n, link)
    <3>1. Follow(g, n, link) = Follow(f, n, link)
      <4>1. n = 0 \/ g[n - 1] = f[n - 1]
        OBVIOUS
      <4> HIDE DEF g
      <4> QED
        BY <4>1 DEF Follow
    <3>2. g[n] = Follow(f, n, link)
      BY <2>1
    <3> QED
      BY <3>1, <3>2
  <2>3. g = [n \in 0 .. m + 1 |-> Follow(g, n, link)]
    BY <2>2
  <2> HIDE DEF g
  <2>4. \E h : h = [n \in 0 .. m + 1 |-> Follow(h, n, link)]
    BY <2>3
  <2> QED
    BY <2>4
<1>3. Most \in T
  BY <1>1, <1>2, InductionOverNat, MostIsNat
<1> QED
  BY <1>3 DEF ChainBy

LEMMA PrependRight ==
  ASSUME NEW S, NEW t \in S, NEW r \in Seq(S), NEW m \in Nat, Len(r) = m
  PROVE  /\ <<t>> \o r \in Seq(S) /\ Len(<<t>> \o r) = 1 + m
         /\ \A i \in 1 .. 1 + m : (<<t>> \o r)[i] = IF i <= 1 THEN t ELSE r[i - 1]
<1> DEFINE e == <<t>>
<1>1. e \in Seq(S) /\ Len(e) = 1 /\ e[1] = t
  OBVIOUS
<1> HIDE DEF e
<1>2. /\ e \o r \in Seq(S) /\ Len(e \o r) = 1 + m
      /\ \A i \in 1 .. 1 + m : (e \o r)[i] = IF i <= 1 THEN e[i] ELSE r[i - 1]
  <2>1. /\ e \o r \in Seq(S) /\ Len(e \o r) = Len(e) + Len(r)
        /\ \A i \in 1 .. Len(e) + Len(r) :
             (e \o r)[i] = IF i <= Len(e) THEN e[i] ELSE r[i - Len(e)]
    BY <1>1, ConcatProperties
  <2> DEFINE u == e \o r
  <2> HIDE DEF u
  <2>2. /\ u \in Seq(S) /\ Len(u) = 1 + m
        /\ \A i \in 1 .. 1 + m : u[i] = IF i <= 1 THEN e[i] ELSE r[i - 1]
    BY <1>1, <2>1 DEF u
  <2> QED
    BY <2>2 DEF u
<1>3. \A i \in 1 .. 1 + m : i <= 1 => i = 1
  OBVIOUS
<1> QED
  BY <1>1, <1>2, <1>3 DEF e

\* From the start of a sequence that is linked the links lead through all of it.
Linked(s, link, start) ==
  /\ \A k \in 1 .. Len(s) - 1 : link[s[k]] = s[k + 1]
  /\ Len(s) > 0 => link[s[Len(s)]] = Null
  /\ start = IF Len(s) = 0 THEN Null ELSE s[1]

LEMMA ChainFollows ==
  ASSUME NEW link, NEW s \in Seq(Triangs), Len(s) <= Most,
         NEW start, Linked(s, link, start)
  PROVE  ChainBy(link)[Most][start] = s
<1> DEFINE L == Len(s)
           f == ChainBy(link)
           from(m) == IF m = 0 THEN Null ELSE s[L - m + 1]
           rest(m) == [i \in 1 .. m |-> s[L - m + i]]
           T == {m \in Nat : m <= L => \A n \in 0 .. Most : n >= m => f[n][from(m)] = rest(m)}
<1>1. L \in Nat /\ L <= Most /\ Most \in Nat /\ \A k \in 1 .. L : s[k] \in Triangs
  BY MostIsNat
<1>2. \A n \in 0 .. Most : f[n] = Follow(f, n, link)
  BY ChainExists
<1>3. \A k \in 1 .. L - 1 : link[s[k]] = s[k + 1]
  BY DEF Linked
<1>4. L > 0 => link[s[L]] = Null
  BY DEF Linked
<1>5. start = from(L)
  <2>1. start = IF L = 0 THEN Null ELSE s[1]
    BY DEF Linked
  <2>2. L - L + 1 = 1
    BY <1>1
  <2> QED
    BY <2>1, <2>2
<1>6. rest(L) = s
  <2>1. s = [i \in 1 .. L |-> s[i]]
    OBVIOUS
  <2>2. \A i \in 1 .. L : L - L + i = i
    BY <1>1
  <2> HIDE DEF L
  <2>3. rest(L) = [i \in 1 .. L |-> s[i]]
    BY <2>2
  <2> QED
    BY <2>1, <2>3
<1> HIDE DEF L, f
<1>7. 0 \in T
  <2>1. ASSUME NEW n \in 0 .. Most PROVE f[n][Null] = << >>
    BY <1>2 DEF Follow
  <2>2. rest(0) = << >>
    OBVIOUS
  <2> QED
    BY <2>1, <2>2
<1>8. ASSUME NEW m \in Nat, m \in T PROVE m + 1 \in T
  <2> SUFFICES ASSUME m + 1 <= L, NEW n \in 0 .. Most, n >= m + 1
               PROVE  f[n][from(m + 1)] = rest(m + 1)
    BY <1>8
  <2> DEFINE t == s[L - m]
  <2>1. L - m \in 1 .. L /\ n # 0 /\ n - 1 \in 0 .. Most /\ n - 1 >= m /\ m <= L
    BY <1>1, <1>8
  <2>2. t \in Triangs /\ t # Null
    BY <1>1, <2>1, TriangsAssumption
  <2>3. from(m + 1) = t
    <3>1. L - (m + 1) + 1 = L - m /\ m + 1 # 0
      BY <1>1
    <3> QED
      BY <3>1
  <2>4. link[t] = from(m)
    <3>1. CASE m = 0
      <4>1. L - m = L /\ L > 0
        BY <1>1, <2>1, <3>1
      <4> QED
        BY <1>4, <3>1, <4>1
    <3>2. CASE m # 0
      <4>1. L - m \in 1 .. L - 1
        BY <1>1, <2>1, <3>2
      <4>2. link[t] = s[L - m + 1]
        BY <1>3, <4>1
      <4> QED
        BY <3>2, <4>2
    <3> QED
      BY <3>1, <3>2
  <2>5. f[n - 1][from(m)] = rest(m)
    BY <1>8, <2>1
  <2>6. f[n][t] = <<t>> \o rest(m)
    <3>1. f[n] = Follow(f, n, link)
      BY <1>2
    <3>2. Follow(f, n, link)[t] = <<t>> \o f[n - 1][link[t]]
      BY <2>1, <2>2 DEF Follow
    <3> QED
      BY <2>4, <2>5, <3>1, <3>2
  <2>7. <<t>> \o rest(m) = rest(m + 1)
    <3>1. rest(m) \in Seq(Triangs) /\ Len(rest(m)) = m
      <4>1. \A i \in 1 .. m : L - m + i \in 1 .. L
        BY <1>1, <2>1
      <4> QED
        BY <1>1, <4>1
    <3>2. \A i \in 1 .. m : rest(m)[i] = s[L - m + i]
      OBVIOUS
    <3> HIDE DEF rest
    <3>3. /\ <<t>> \o rest(m) \in Seq(Triangs) /\ Len(<<t>> \o rest(m)) = 1 + m
          /\ \A i \in 1 .. 1 + m : (<<t>> \o rest(m))[i] = IF i <= 1 THEN t ELSE rest(m)[i - 1]
      BY <2>2, <3>1, PrependRight
    <3>4. ASSUME NEW i \in 1 .. 1 + m
          PROVE  (<<t>> \o rest(m))[i] = s[L - (m + 1) + i]
      <4>1. CASE i = 1
        <5>1. L - (m + 1) + 1 = L - m
          BY <1>1
        <5> QED
          BY <3>3, <4>1, <5>1
      <4>2. CASE i # 1
        <5>1. i - 1 \in 1 .. m /\ L - m + (i - 1) = L - (m + 1) + i
          BY <1>1, <4>2
        <5> QED
          BY <3>2, <3>3, <4>2, <5>1
      <4> QED
        BY <4>1, <4>2
    <3> DEFINE u == <<t>> \o rest(m)
    <3>5. u = [i \in 1 .. Len(u) |-> u[i]]
      BY <3>3
    <3> HIDE DEF u
    <3>6. Len(u) = m + 1 /\ \A i \in 1 .. m + 1 : u[i] = s[L - (m + 1) + i]
      BY <3>3, <3>4 DEF u
    <3>7. u = [i \in 1 .. m + 1 |-> s[L - (m + 1) + i]]
      BY <3>5, <3>6
    <3> QED
      BY <3>7 DEF rest, u
  <2> QED
    BY <2>3, <2>6, <2>7
<1>9. L \in T
  BY <1>1, <1>7, <1>8, InductionOverNat
<1>10. f[Most][from(L)] = rest(L)
  BY <1>1, <1>9
<1> QED
  BY <1>5, <1>6, <1>10 DEF f
LEMMA FollowedRight ==
  ASSUME NEW Q \in Lists, Once(Q), NEW front, NEW tail, NEW link,
         Fits(Q, front, tail, link), NEW q \in Queues
  PROVE  ChainBy(link)[Most][front[q]] = Q[q]
<1>1. Q[q] \in Seq(Triangs) /\ Len(Q[q]) <= Most /\ Len(Q[q]) \in Nat
  BY ListsRight, ShortLists
<1>2. /\ \A k \in 1 .. Len(Q[q]) - 1 : link[Q[q][k]] = Q[q][k + 1]
      /\ Len(Q[q]) > 0 => link[Q[q][Len(Q[q])]] = Null
      /\ Len(Q[q]) > 0 => front[q] = Q[q][1]
      /\ Len(Q[q]) = 0 => front[q] = Null
  BY DEF Fits
<1>3. front[q] = IF Len(Q[q]) = 0 THEN Null ELSE Q[q][1]
  BY <1>1, <1>2
<1>4. Linked(Q[q], link, front[q])
  BY <1>2, <1>3 DEF Linked
<1> QED
  BY <1>1, <1>4, ChainFollows

(***************************************************************************)
(* The invariant.                                                          *)
(***************************************************************************)
Waits == [q \in Queues |-> Queue(q)]

Typed ==
  /\ badtriangles \subseteq Triangs
  /\ queuefront \in [Queues -> Triangs \cup {Null}]
  /\ queuetail \in [Queues -> Triangs \cup {Null}]
  /\ nextnonemptyq \in [Queues -> Queues \cup {-1}]
  /\ firstnonemptyq \in Queues \cup {-1}
  /\ nexttriang \in [Triangs -> Triangs \cup {Null}]
  /\ key \in [Triangs -> Keys \cup {0}]
  /\ badtri \in Triangs \cup {Null}

\* The queues have all that are in use, but for the one being split.
QueuesInv ==
  /\ Waits \in Lists /\ Once(Waits)
  /\ Fits(Waits, queuefront, queuetail, nexttriang)
  /\ Have(Waits, badtriangles \ {badtri})

BadInv ==
  /\ Typed
  /\ badtri = Null \/ badtri \in badtriangles
  /\ LinkedIn(Nonempty, nextnonemptyq, firstnonemptyq)
  /\ QueuesInv

\* Every key has a queue, and 0 too, which no triangle is queued with.
LEMMA KeysHaveQueues ==
  ASSUME NEW k \in Keys \cup {0}
  PROVE  QueueNumber(k) \in Queues
<1> DEFINE n == (NumQueues * (k - 600)) \div 400
<1>1. k \in 0 .. 1000 /\ NumQueues \in Nat /\ NumQueues > 0
  BY KeysAssumption, QueuesAssumption
<1>2. 0 \in Queues /\ NumQueues - 1 \in Queues
  BY <1>1 DEF Queues
<1>3. CASE k > 600
  <2>1. NumQueues * (k - 600) \in Nat
    <3>1. k - 600 \in Nat
      BY <1>1, <1>3
    <3>2. \A x, y \in Nat : x * y \in Nat
      OBVIOUS
    <3> QED
      BY <1>1, <3>1, <3>2
  <2>2. n \in Nat
    <3>1. \A x \in Nat : x \div 400 \in Nat
      OBVIOUS
    <3> QED
      BY <2>1, <3>1
  <2> HIDE DEF n
  <2>3. QueueNumber(k) = IF n > NumQueues - 1 THEN NumQueues - 1 ELSE n
    BY <1>3 DEF QueueNumber, n
  <2> QED
    BY <1>1, <1>2, <2>2, <2>3 DEF Queues
<1>4. CASE ~(k > 600)
  <2>1. QueueNumber(k) = 0
    BY <1>4 DEF QueueNumber
  <2> QED
    BY <1>2, <2>1
<1> QED
  BY <1>3, <1>4

LEMMA WaitsFollow ==
  /\ Waits = [q \in Queues |-> ChainBy(nexttriang)[Most][queuefront[q]]]
  /\ Waits' = [q \in Queues |-> ChainBy(nexttriang')[Most][queuefront'[q]]]
BY DEF Waits, Queue, Chain, ChainBy, Follow, Most

LEMMA WaitsNext ==
  ASSUME NEW R \in Lists, Once(R), Fits(R, queuefront', queuetail', nexttriang')
  PROVE  Waits' = R
<1>1. ASSUME NEW q \in Queues PROVE ChainBy(nexttriang')[Most][queuefront'[q]] = R[q]
  BY FollowedRight
<1>2. R = [q \in Queues |-> R[q]]
  BY DEF Lists
<1> QED
  BY <1>1, <1>2, WaitsFollow

\* The queues that have a front are those with something in them.
LEMMA NonemptyRight ==
  ASSUME NEW Q \in Lists, NEW front, NEW tail, NEW link, Fits(Q, front, tail, link),
         NEW q \in Queues
  PROVE  front[q] # Null <=> Len(Q[q]) > 0
<1>1. Len(Q[q]) \in Nat /\ (Len(Q[q]) > 0 => Q[q][1] \in Triangs)
  BY ListsRight
<1>2. /\ Len(Q[q]) = 0 => front[q] = Null
      /\ Len(Q[q]) > 0 => front[q] = Q[q][1]
  BY DEF Fits
<1> QED
  BY <1>1, <1>2, TriangsAssumption

LEMMA BadInvInit == InitQueues => BadInv
<1> SUFFICES ASSUME InitQueues PROVE BadInv
  OBVIOUS
<1> DEFINE Q == [q \in Queues |-> << >>]
<1>1. Typed
  BY DEF InitQueues, Typed
<1>2. Q \in Lists /\ \A q \in Queues : Len(Q[q]) = 0
  BY EmptySeq DEF Lists
<1> HIDE DEF Q
<1>3. Once(Q) /\ Have(Q, {})
  BY <1>2 DEF Once, Have, In
<1>4. Fits(Q, queuefront, queuetail, nexttriang)
  <2>1. \A q \in Queues : queuefront[q] = Null
    BY DEF InitQueues
  <2> QED
    BY <1>2, <2>1 DEF Fits
<1>5. Waits = Q
  <2>1. \A q \in Queues : ChainBy(nexttriang)[Most][queuefront[q]] = Q[q]
    BY <1>2, <1>3, <1>4, FollowedRight
  <2>2. Q = [q \in Queues |-> Q[q]]
    BY <1>2 DEF Lists
  <2> QED
    BY <2>1, <2>2, WaitsFollow
<1>6. QueuesInv
  <2>1. badtriangles \ {badtri} = {}
    BY DEF InitQueues
  <2> QED
    BY <1>2, <1>3, <1>4, <1>5, <2>1 DEF QueuesInv
<1>7. LinkedIn(Nonempty, nextnonemptyq, firstnonemptyq)
  <2>1. Nonempty = {} /\ firstnonemptyq = -1
    BY DEF InitQueues, Nonempty
  <2> QED
    BY <2>1 DEF LinkedIn
<1> QED
  BY <1>1, <1>6, <1>7 DEF InitQueues, BadInv

\* The nonempty queue above q that a new one is linked behind.
LEMMA NextHigherRight ==
  ASSUME BadInv, NEW q \in Queues, q \notin Nonempty, ~(q > firstnonemptyq)
  PROVE  /\ NextHigher(q) \in Nonempty /\ NextHigher(q) > q
         /\ \A j \in Nonempty : j > q => j >= NextHigher(q)
<1> DEFINE T == {i \in Nonempty : i > q}
           P(i) == i > q /\ \A j \in Nonempty : j > q => j >= i
<1>1. Nonempty \subseteq Nat /\ q \in Nat
  BY QueuesAreNumbers DEF Nonempty
<1>2. firstnonemptyq \in Nonempty /\ firstnonemptyq > q
  <2>1. firstnonemptyq # -1
    BY <1>1 DEF BadInv, LinkedIn
  <2>2. firstnonemptyq \in Nonempty
    BY <2>1 DEF BadInv, LinkedIn
  <2> QED
    BY <1>1, <2>2
<1>3. T \in SUBSET Nat /\ T # {}
  BY <1>1, <1>2
<1>4. PICK i \in T : \A j \in T : i <= j
  BY <1>3, LeastNat
<1>5. i \in Nonempty /\ P(i)
  BY <1>1, <1>4
<1>6. NextHigher(q) = CHOOSE i1 \in Nonempty : P(i1)
  BY DEF NextHigher
<1> HIDE DEF P
<1>7. NextHigher(q) \in Nonempty /\ P(NextHigher(q))
  BY <1>5, <1>6
<1> QED
  BY <1>7 DEF P
(***************************************************************************)
(* The steps.                                                              *)
(***************************************************************************)
LEMMA EnqueueRight ==
  ASSUME BadInv, NEW t \in Triangs, NEW q \in Queues, ~In(Waits, t),
         EnqueueBadTriang(t, q)
  PROVE  /\ queuefront' \in [Queues -> Triangs \cup {Null}]
         /\ queuetail' \in [Queues -> Triangs \cup {Null}]
         /\ nexttriang' \in [Triangs -> Triangs \cup {Null}]
         /\ nextnonemptyq' \in [Queues -> Queues \cup {-1}]
         /\ firstnonemptyq' \in Queues \cup {-1}
         /\ LinkedIn(Nonempty', nextnonemptyq', firstnonemptyq')
         /\ Waits' = [Waits EXCEPT ![q] = Append(Waits[q], t)]
         /\ Waits' \in Lists /\ Once(Waits')
         /\ Fits(Waits', queuefront', queuetail', nexttriang')
         /\ Have(Waits', (badtriangles \ {badtri}) \cup {t})
<1> DEFINE R == [Waits EXCEPT ![q] = Append(Waits[q], t)]
           n == Len(Waits[q])
<1>1. /\ Waits \in Lists /\ Once(Waits)
      /\ Fits(Waits, queuefront, queuetail, nexttriang)
      /\ Have(Waits, badtriangles \ {badtri})
      /\ LinkedIn(Nonempty, nextnonemptyq, firstnonemptyq)
  BY DEF BadInv, QueuesInv
<1>2. /\ queuefront \in [Queues -> Triangs \cup {Null}]
      /\ queuetail \in [Queues -> Triangs \cup {Null}]
      /\ nexttriang \in [Triangs -> Triangs \cup {Null}]
      /\ nextnonemptyq \in [Queues -> Queues \cup {-1}]
      /\ firstnonemptyq \in Queues \cup {-1}
  BY DEF BadInv, Typed
<1>3. Added(Waits, R, q, t)
  BY <1>1, AppendAdds
<1>4. R \in Lists /\ Once(R) /\ Have(R, (badtriangles \ {badtri}) \cup {t})
  <2>1. R \in Lists
    BY <1>3 DEF Added
  <2> QED
    BY <1>1, <1>3, <2>1, AddedOnce, AddedHave
<1> HIDE DEF R
<1>5. n \in Nat /\ (q \in Nonempty <=> n > 0)
  BY <1>1, ListsRight, NonemptyRight DEF Nonempty
<1>6. queuetail' = [queuetail EXCEPT ![q] = t]
  BY DEF EnqueueBadTriang
<1>7. n > 0 => queuetail[q] \in Triangs /\ queuetail[q] # t
  <2> SUFFICES ASSUME n > 0 PROVE queuetail[q] \in Triangs /\ queuetail[q] # t
    OBVIOUS
  <2>1. queuetail[q] = Waits[q][n]
    BY <1>1 DEF Fits
  <2>2. n \in 1 .. n
    BY <1>5
  <2>3. Waits[q][n] \in Triangs
    BY <1>1, <2>2, ListsRight
  <2>4. Waits[q][n] # t
    BY <2>2 DEF In
  <2> QED
    BY <2>1, <2>3, <2>4
<1> HIDE DEF n
<1>8. CASE q \in Nonempty
  <2>1. /\ nexttriang' = [nexttriang EXCEPT ![queuetail[q]] = t, ![t] = Null]
        /\ queuefront' = queuefront /\ nextnonemptyq' = nextnonemptyq
        /\ firstnonemptyq' = firstnonemptyq
    BY <1>8 DEF EnqueueBadTriang
  <2>2. n > 0 /\ queuetail[q] \in Triangs /\ queuetail[q] # t
    BY <1>5, <1>7, <1>8
  <2>3. /\ nexttriang'[t] = Null /\ nexttriang'[queuetail[q]] = t
        /\ \A u \in Triangs : u # t /\ u # queuetail[q] => nexttriang'[u] = nexttriang[u]
        /\ nexttriang' \in [Triangs -> Triangs \cup {Null}]
    BY <1>2, <2>1, <2>2
  <2>4. Fits(R, queuefront', queuetail', nexttriang')
    <3>1. queuetail'[q] = t /\ \A r \in Queues : r # q => queuetail'[r] = queuetail[r]
      BY <1>2, <1>6
    <3>2. /\ \A r \in Queues : r # q => /\ queuefront'[r] = queuefront[r]
                                        /\ queuetail'[r] = queuetail[r]
          /\ queuefront'[q] = IF Len(Waits[q]) = 0 THEN t ELSE queuefront[q]
          /\ Len(Waits[q]) > 0 => nexttriang'[queuetail[q]] = t
          /\ \A u \in Triangs :
               u # t /\ ~(Len(Waits[q]) > 0 /\ u = queuetail[q])
                 => nexttriang'[u] = nexttriang[u]
      BY <1>5, <2>1, <2>2, <2>3, <3>1 DEF n
    <3> QED
      BY <1>1, <1>3, <2>3, <3>1, <3>2, AddedFits
  <2>5. Waits' = R
    BY <1>4, <2>4, WaitsNext
  <2>6. Nonempty' = Nonempty
    BY <2>1 DEF Nonempty
  <2> QED
    BY <1>1, <1>2, <1>4, <1>6, <2>1, <2>3, <2>4, <2>5, <2>6 DEF R
<1>9. CASE q \notin Nonempty
  <2>1. /\ nexttriang' = [nexttriang EXCEPT ![t] = Null]
        /\ queuefront' = [queuefront EXCEPT ![q] = t]
        /\ IF q > firstnonemptyq
           THEN /\ nextnonemptyq' = [nextnonemptyq EXCEPT ![q] = firstnonemptyq]
                /\ firstnonemptyq' = q
           ELSE /\ nextnonemptyq' =
                     [nextnonemptyq EXCEPT ![q] = nextnonemptyq[NextHigher(q)],
                                           ![NextHigher(q)] = q]
                /\ firstnonemptyq' = firstnonemptyq
    BY <1>9 DEF EnqueueBadTriang
  <2>2. n = 0
    BY <1>5, <1>9
  <2>3. /\ nexttriang'[t] = Null
        /\ \A u \in Triangs : u # t => nexttriang'[u] = nexttriang[u]
        /\ nexttriang' \in [Triangs -> Triangs \cup {Null}]
    BY <1>2, <2>1
  <2>4. Fits(R, queuefront', queuetail', nexttriang')
    <3>1. queuetail'[q] = t /\ \A r \in Queues : r # q => queuetail'[r] = queuetail[r]
      BY <1>2, <1>6
    <3>2. queuefront'[q] = t /\ \A r \in Queues : r # q => queuefront'[r] = queuefront[r]
      BY <1>2, <2>1
    <3>3. Len(Waits[q]) = 0
      BY <2>2 DEF n
    <3>4. /\ \A r \in Queues : r # q => /\ queuefront'[r] = queuefront[r]
                                        /\ queuetail'[r] = queuetail[r]
          /\ queuefront'[q] = IF Len(Waits[q]) = 0 THEN t ELSE queuefront[q]
          /\ Len(Waits[q]) > 0 => nexttriang'[queuetail[q]] = t
          /\ \A u \in Triangs :
               u # t /\ ~(Len(Waits[q]) > 0 /\ u = queuetail[q])
                 => nexttriang'[u] = nexttriang[u]
      BY <2>3, <3>1, <3>2, <3>3
    <3> QED
      BY <1>1, <1>3, <2>3, <3>1, <3>4, AddedFits
  <2>5. Waits' = R
    BY <1>4, <2>4, WaitsNext
  <2>6. Nonempty' = Nonempty \cup {q} /\ queuefront' \in [Queues -> Triangs \cup {Null}]
    <3>1. t # Null
      BY TriangsAssumption
    <3>2. /\ queuefront' \in [Queues -> Triangs \cup {Null}]
          /\ queuefront'[q] = t /\ \A r \in Queues : r # q => queuefront'[r] = queuefront[r]
      BY <1>2, <2>1
    <3> QED
      BY <3>1, <3>2 DEF Nonempty
  <2>7. /\ LinkedIn(Nonempty \cup {q}, nextnonemptyq', firstnonemptyq')
        /\ nextnonemptyq' \in [Queues -> Queues \cup {-1}]
        /\ firstnonemptyq' \in Queues \cup {-1}
    <3>1. CASE q > firstnonemptyq
      <4>1. /\ firstnonemptyq' = q /\ nextnonemptyq'[q] = firstnonemptyq
            /\ \A r \in Nonempty : nextnonemptyq'[r] = nextnonemptyq[r]
            /\ nextnonemptyq' \in [Queues -> Queues \cup {-1}]
        BY <1>2, <1>9, <2>1, <3>1 DEF Nonempty
      <4> QED
        BY <1>1, <3>1, <4>1, LinkHighest
    <3>2. CASE ~(q > firstnonemptyq)
      <4> DEFINE h == NextHigher(q)
      <4>1. /\ h \in Nonempty /\ h > q /\ \A j \in Nonempty : j > q => j >= h
        BY <1>9, <3>2, NextHigherRight
      <4>2. /\ firstnonemptyq' = firstnonemptyq
            /\ nextnonemptyq' = [nextnonemptyq EXCEPT ![q] = nextnonemptyq[h], ![h] = q]
        BY <2>1, <3>2
      <4> HIDE DEF h
      <4>3. h \in Queues /\ h # q
        BY <1>9, <4>1 DEF Nonempty
      <4>4. /\ nextnonemptyq'[q] = nextnonemptyq[h] /\ nextnonemptyq'[h] = q
            /\ \A r \in Nonempty : r # h => nextnonemptyq'[r] = nextnonemptyq[r]
            /\ nextnonemptyq' \in [Queues -> Queues \cup {-1}]
        <5>1. nextnonemptyq[h] \in Queues \cup {-1}
          BY <1>2, <4>3
        <5> HIDE DEF Queues
        <5> QED
          BY <1>2, <1>9, <4>2, <4>3, <5>1 DEF Nonempty
      <4>5. PutBetween(Nonempty, nextnonemptyq, nextnonemptyq', q, h)
        BY <4>1, <4>4 DEF PutBetween
      <4>6. LinkedIn(Nonempty \cup {q}, nextnonemptyq', firstnonemptyq)
        BY <1>1, <1>9, <3>2, <4>5, LinkBetween
      <4> QED
        BY <1>2, <4>2, <4>4, <4>6
    <3> QED
      BY <3>1, <3>2
  <2>8. queuetail' \in [Queues -> Triangs \cup {Null}]
    BY <1>2, <1>6
  <2> QED
    BY <1>4, <2>3, <2>4, <2>5, <2>6, <2>7, <2>8 DEF R
<1> QED
  BY <1>8, <1>9

LEMMA DequeueRight ==
  ASSUME BadInv, DequeueBadTriang
  PROVE  /\ BadInv'
         /\ firstnonemptyq \in Queues /\ Waits[firstnonemptyq] # << >>
         /\ badtri' = Head(Waits[firstnonemptyq])
         /\ Waits' = [Waits EXCEPT ![firstnonemptyq] = Tail(Waits[firstnonemptyq])]
<1> DEFINE f == firstnonemptyq
           R == [Waits EXCEPT ![f] = Tail(Waits[f])]
           result == queuefront[f]
<1>1. /\ Waits \in Lists /\ Once(Waits)
      /\ Fits(Waits, queuefront, queuetail, nexttriang)
      /\ Have(Waits, badtriangles \ {badtri})
      /\ LinkedIn(Nonempty, nextnonemptyq, firstnonemptyq)
      /\ Typed
  BY DEF BadInv, QueuesInv
<1>2. /\ badtri = Null /\ f >= 0 /\ badtri' = result
      /\ queuefront' = [queuefront EXCEPT ![f] = nexttriang[result]]
      /\ firstnonemptyq' = IF result = queuetail[f] THEN nextnonemptyq[f] ELSE f
      /\ badtriangles' = badtriangles /\ queuetail' = queuetail /\ nextnonemptyq' = nextnonemptyq
      /\ nexttriang' = nexttriang /\ key' = key
  BY DEF DequeueBadTriang, Take
<1>3. f \in Nonempty /\ f \in Queues
  <2>1. f # -1
    BY <1>2
  <2> QED
    BY <1>1, <2>1 DEF LinkedIn, Nonempty
<1> HIDE DEF f
<1>4. Len(Waits[f]) > 0
  BY <1>1, <1>3, NonemptyRight DEF Nonempty
<1>5. Taken(Waits, R, f) /\ Waits[f] # << >> /\ Head(Waits[f]) = Waits[f][1]
  BY <1>1, <1>3, <1>4, TailTakes
<1> HIDE DEF R
<1>6. R \in Lists
  BY <1>5 DEF Taken
<1>7. result = Waits[f][1] /\ result \in Triangs
  <2>1. 1 \in 1 .. Len(Waits[f])
    BY <1>1, <1>3, <1>4, ListsRight
  <2>2. Waits[f][1] \in Triangs
    BY <1>1, <1>3, <2>1, ListsRight
  <2> QED
    BY <1>1, <1>3, <1>4, <2>2 DEF Fits
<1>8. /\ queuefront \in [Queues -> Triangs \cup {Null}]
      /\ nexttriang \in [Triangs -> Triangs \cup {Null}]
      /\ nextnonemptyq \in [Queues -> Queues \cup {-1}]
  BY <1>1 DEF Typed
<1>9. /\ queuefront' \in [Queues -> Triangs \cup {Null}]
      /\ queuefront'[f] = nexttriang[queuefront[f]]
      /\ \A r \in Queues : r # f => queuefront'[r] = queuefront[r]
  BY <1>2, <1>3, <1>7, <1>8
<1>10. /\ Once(R) /\ Have(R, (badtriangles \ {badtri}) \ {Waits[f][1]})
       /\ Fits(R, queuefront', queuetail, nexttriang)
       /\ IF queuefront[f] = queuetail[f] THEN queuefront'[f] = Null
                                           ELSE queuefront'[f] # Null
  <2>1. FrontTaken(queuefront, queuefront', nexttriang, f)
    BY <1>9 DEF FrontTaken
  <2>2. /\ Waits \in Lists /\ f \in Queues /\ Len(Waits[f]) > 0
        /\ Taken(Waits, R, f) /\ Once(Waits) /\ Have(Waits, badtriangles \ {badtri})
        /\ Fits(Waits, queuefront, queuetail, nexttriang)
    BY <1>1, <1>3, <1>4, <1>5
  <2>3. ASSUME NEW Q, Q = Waits, NEW T, T = badtriangles \ {badtri}, NEW g, g = f,
               NEW front2, front2 = queuefront'
        PROVE  /\ Once(R) /\ Have(R, T \ {Q[g][1]})
               /\ Fits(R, front2, queuetail, nexttriang)
               /\ FrontLeft(queuefront, front2, queuetail, g)
    <3>1. /\ Q \in Lists /\ g \in Queues /\ Len(Q[g]) > 0
          /\ Taken(Q, R, g) /\ Once(Q) /\ Have(Q, T)
          /\ Fits(Q, queuefront, queuetail, nexttriang)
          /\ FrontTaken(queuefront, front2, nexttriang, g)
      BY <2>1, <2>2, <2>3
    <3>2. Once(R) /\ Have(R, T \ {Q[g][1]})
      BY <3>1, TakenRight
    <3>3. Fits(R, front2, queuetail, nexttriang)
      BY <3>1, TakenRight
    <3>4. FrontLeft(queuefront, front2, queuetail, g)
      BY <3>1, TakenRight
    <3> QED
      BY <3>2, <3>3, <3>4
  <2>4. FrontLeft(queuefront, queuefront', queuetail, f)
    BY <2>3
  <2> QED
    BY <2>3, <2>4 DEF FrontLeft
<1>11. Waits' = R
  BY <1>2, <1>6, <1>10, WaitsNext
<1>12. badtriangles' \ {badtri'} = (badtriangles \ {badtri}) \ {Waits[f][1]} /\ badtri' \in badtriangles'
  <2>1. Null \notin badtriangles
    BY <1>1, TriangsAssumption DEF Typed
  <2>2. Waits[f][1] \in badtriangles \ {badtri}
    <3>1. 1 \in 1 .. Len(Waits[f])
      BY <1>1, <1>3, <1>4, ListsRight
    <3>2. In(Waits, Waits[f][1])
      BY <1>3, <3>1 DEF In
    <3> QED
      BY <1>1, <1>7, <3>2 DEF Have
  <2> QED
    BY <1>2, <1>7, <2>1, <2>2
<1>13. QueuesInv'
  BY <1>2, <1>6, <1>10, <1>11, <1>12 DEF QueuesInv
<1>14. LinkedIn(Nonempty', nextnonemptyq, firstnonemptyq')
  <2>1. CASE result = queuetail[f]
    <3>1. Nonempty' = Nonempty \ {f}
      BY <1>3, <1>9, <1>10, <2>1 DEF Nonempty
    <3>2. firstnonemptyq' = nextnonemptyq[f]
      BY <1>2, <2>1
    <3>3. LinkedIn(Nonempty \ {f}, nextnonemptyq, nextnonemptyq[f])
      BY <1>1, <1>3, UnlinkHighest DEF f
    <3> QED
      BY <3>1, <3>2, <3>3
  <2>2. CASE result # queuetail[f]
    <3>1. Nonempty' = Nonempty
      BY <1>3, <1>9, <1>10, <2>2 DEF Nonempty
    <3>2. firstnonemptyq' = f
      BY <1>2, <2>2
    <3> QED
      BY <1>1, <3>1, <3>2 DEF f
  <2> QED
    BY <2>1, <2>2
<1>15. firstnonemptyq' \in Queues \cup {-1}
  BY <1>2, <1>3, <1>8
<1>16. Typed'
  BY <1>1, <1>2, <1>7, <1>9, <1>15 DEF Typed
<1>17. BadInv'
  BY <1>2, <1>12, <1>13, <1>14, <1>16 DEF BadInv
<1> QED
  BY <1>2, <1>3, <1>5, <1>7, <1>11, <1>17 DEF R, f
LEMMA NotHeldNotIn ==
  ASSUME BadInv, NEW t \in Triangs, t \notin badtriangles \ {badtri}
  PROVE  ~In(Waits, t)
BY DEF BadInv, QueuesInv, Have

\* What was not in use is: it waits with the others.
LEMMA EnqueueBadTriRight ==
  ASSUME BadInv, NEW t \in Triangs \ badtriangles, NEW k \in Keys,
         badtriangles' = badtriangles \cup {t}, key' = [key EXCEPT ![t] = k],
         EnqueueBadTriang(t, QueueNumber(k)), badtri' = badtri
  PROVE  /\ BadInv'
         /\ Waits' = [Waits EXCEPT ![QueueNumber(k)] = Append(Waits[QueueNumber(k)], t)]
<1> DEFINE q == QueueNumber(k)
<1>1. q \in Queues
  BY KeysHaveQueues
<1> HIDE DEF q
<1>2. ~In(Waits, t)
  BY NotHeldNotIn
<1>3. EnqueueBadTriang(t, q)
  BY DEF q
<1>4. /\ queuefront' \in [Queues -> Triangs \cup {Null}]
      /\ queuetail' \in [Queues -> Triangs \cup {Null}]
      /\ nexttriang' \in [Triangs -> Triangs \cup {Null}]
      /\ nextnonemptyq' \in [Queues -> Queues \cup {-1}]
      /\ firstnonemptyq' \in Queues \cup {-1}
      /\ LinkedIn(Nonempty', nextnonemptyq', firstnonemptyq')
      /\ Waits' = [Waits EXCEPT ![q] = Append(Waits[q], t)]
      /\ Waits' \in Lists /\ Once(Waits')
      /\ Fits(Waits', queuefront', queuetail', nexttriang')
      /\ Have(Waits', (badtriangles \ {badtri}) \cup {t})
  BY <1>1, <1>2, <1>3, EnqueueRight
<1>5. badtriangles' \ {badtri'} = (badtriangles \ {badtri}) \cup {t}
  BY TriangsAssumption DEF BadInv
<1>6. Typed'
  BY <1>4 DEF BadInv, Typed
<1>7. BadInv'
  BY <1>4, <1>5, <1>6 DEF BadInv, QueuesInv
<1> QED
  BY <1>4, <1>7 DEF q

\* What was split waits once more.
LEMMA PutBackRight ==
  ASSUME BadInv, PutBack
  PROVE  /\ BadInv' /\ QueueNumber(key[badtri]) \in Queues
         /\ Waits' = [Waits EXCEPT ![QueueNumber(key[badtri])] =
                        Append(Waits[QueueNumber(key[badtri])], badtri)]
<1> DEFINE q == QueueNumber(key[badtri])
<1>1. badtri \in Triangs /\ badtri \in badtriangles /\ Null \notin badtriangles /\ badtri # Null
  BY TriangsAssumption DEF BadInv, Typed, PutBack
<1>2. q \in Queues
  <2>1. key[badtri] \in Keys \cup {0}
    BY <1>1 DEF BadInv, Typed
  <2> QED
    BY <2>1, KeysHaveQueues
<1> HIDE DEF q
<1>3. ~In(Waits, badtri)
  BY <1>1, NotHeldNotIn
<1>4. /\ EnqueueBadTriang(badtri, q) /\ badtri' = Null
      /\ badtriangles' = badtriangles /\ key' = key
  BY DEF PutBack, q
<1>5. /\ queuefront' \in [Queues -> Triangs \cup {Null}]
      /\ queuetail' \in [Queues -> Triangs \cup {Null}]
      /\ nexttriang' \in [Triangs -> Triangs \cup {Null}]
      /\ nextnonemptyq' \in [Queues -> Queues \cup {-1}]
      /\ firstnonemptyq' \in Queues \cup {-1}
      /\ LinkedIn(Nonempty', nextnonemptyq', firstnonemptyq')
      /\ Waits' = [Waits EXCEPT ![q] = Append(Waits[q], badtri)]
      /\ Waits' \in Lists /\ Once(Waits')
      /\ Fits(Waits', queuefront', queuetail', nexttriang')
      /\ Have(Waits', (badtriangles \ {badtri}) \cup {badtri})
  BY <1>1, <1>2, <1>3, <1>4, EnqueueRight
<1>6. badtriangles' \ {badtri'} = (badtriangles \ {badtri}) \cup {badtri}
  BY <1>1, <1>4
<1>7. Typed'
  BY <1>4, <1>5 DEF BadInv, Typed
<1>8. BadInv'
  BY <1>4, <1>5, <1>6, <1>7 DEF BadInv, QueuesInv
<1> QED
  BY <1>2, <1>5, <1>8 DEF q

\* What was split is dropped, and nothing that waits is touched.
LEMMA DropRight ==
  ASSUME BadInv, Drop
  PROVE  BadInv' /\ Waits' = Waits
<1>1. /\ badtri # Null /\ badtri' = Null /\ badtriangles' = badtriangles \ {badtri}
      /\ queuefront' = queuefront /\ queuetail' = queuetail
      /\ nextnonemptyq' = nextnonemptyq /\ firstnonemptyq' = firstnonemptyq
      /\ nexttriang' = nexttriang /\ key' = key
  BY DEF Drop
<1>2. Waits' = Waits
  BY <1>1, WaitsFollow
<1>3. badtriangles' \ {badtri'} = badtriangles \ {badtri}
  BY <1>1, TriangsAssumption DEF BadInv, Typed
<1>4. Typed'
  BY <1>1 DEF BadInv, Typed
<1>5. QueuesInv'
  BY <1>1, <1>2, <1>3 DEF BadInv, QueuesInv
<1>6. LinkedIn(Nonempty', nextnonemptyq', firstnonemptyq')
  BY <1>1 DEF BadInv, Nonempty
<1> QED
  BY <1>1, <1>2, <1>4, <1>5, <1>6 DEF BadInv

LEMMA BadInvNext == BadInv /\ [QueuesNext]_queueVars => BadInv'
<1> SUFFICES ASSUME BadInv, [QueuesNext]_queueVars PROVE BadInv'
  OBVIOUS
<1>1. CASE EnqueueBadTri
  <2>1. PICK t \in Triangs \ badtriangles, k \in Keys :
          /\ badtriangles' = badtriangles \cup {t}
          /\ key' = [key EXCEPT ![t] = k]
          /\ EnqueueBadTriang(t, QueueNumber(k))
          /\ badtri' = badtri
    BY <1>1 DEF EnqueueBadTri
  <2> QED
    BY <2>1, EnqueueBadTriRight
<1>2. CASE DequeueBadTriang
  BY <1>2, DequeueRight
<1>3. CASE PutBack
  BY <1>3, PutBackRight
<1>4. CASE Drop
  BY <1>4, DropRight
<1>5. CASE UNCHANGED queueVars
  <2>1. Waits' = Waits
    BY <1>5, WaitsFollow DEF queueVars
  <2>2. QueuesInv'
    BY <1>5, <2>1 DEF queueVars, BadInv, QueuesInv
  <2>3. Typed'
    BY <1>5 DEF queueVars, BadInv, Typed
  <2>4. LinkedIn(Nonempty', nextnonemptyq', firstnonemptyq')
    BY <1>5 DEF queueVars, BadInv, Nonempty
  <2> QED
    BY <1>5, <2>2, <2>3, <2>4 DEF queueVars, BadInv
<1> QED
  BY <1>1, <1>2, <1>3, <1>4, <1>5 DEF QueuesNext

LEMMA BadInvShows == BadInv => QueuesTypeOK /\ LinkedInOrder /\ NeverEmptyHanded
<1> SUFFICES ASSUME BadInv PROVE QueuesTypeOK /\ LinkedInOrder /\ NeverEmptyHanded
  OBVIOUS
<1>1. QueuesTypeOK
  <2>1. \A k \in Keys : QueueNumber(k) \in Queues
    BY KeysHaveQueues
  <2> QED
    BY <2>1 DEF BadInv, Typed, QueuesTypeOK
<1>2. LinkedIn(Nonempty, nextnonemptyq, firstnonemptyq) /\ Nonempty \subseteq Nat
  BY QueuesAreNumbers DEF BadInv, Nonempty
<1>3. LinkedInOrder
  <2>1. firstnonemptyq = -1 <=> Nonempty = {}
    BY <1>2 DEF LinkedIn
  <2>2. ASSUME NEW q \in Nonempty
        PROVE  /\ q =< firstnonemptyq
               /\ nextnonemptyq[q] \in {i \in Nonempty : i < q} \cup {-1}
               /\ \A i \in Nonempty : i < q => i =< nextnonemptyq[q]
    BY <1>2 DEF LinkedIn
  <2> QED
    BY <2>1, <2>2 DEF LinkedInOrder
<1>4. NeverEmptyHanded
  <2> SUFFICES ASSUME badtriangles # {}, badtri = Null PROVE firstnonemptyq >= 0
    BY DEF NeverEmptyHanded
  <2>1. PICK t \in badtriangles : TRUE
    OBVIOUS
  <2>2. t \in Triangs /\ t # badtri
    BY TriangsAssumption DEF BadInv, Typed
  <2>3. In(Waits, t)
    BY <2>1, <2>2 DEF BadInv, QueuesInv, Have
  <2>4. PICK q \in Queues : \E k \in 1 .. Len(Waits[q]) : Waits[q][k] = t
    BY <2>3 DEF In
  <2>5. Len(Waits[q]) > 0
    BY <2>4, ListsRight DEF BadInv, QueuesInv
  <2>6. q \in Nonempty
    BY <2>5, NonemptyRight DEF BadInv, QueuesInv, Nonempty
  <2> QED
    BY <1>2, <2>6 DEF LinkedIn
<1> QED
  BY <1>1, <1>3, <1>4

(***************************************************************************)
(* Whatever is found bad, put back and dropped, in any order: the queues   *)
(* that are not empty are linked from the highest to the lowest, and while *)
(* there are bad triangles and none is split, the loop finds one          *)
(* (enqueuebadtriang, dequeuebadtriang, enforcequality).                   *)
(***************************************************************************)
THEOREM QueuesAlwaysRight == QueuesSpec => [](QueuesTypeOK /\ LinkedInOrder /\ NeverEmptyHanded)
<1>1. InitQueues => BadInv
  BY BadInvInit
<1>2. BadInv /\ [QueuesNext]_queueVars => BadInv'
  BY BadInvNext
<1>3. BadInv => QueuesTypeOK /\ LinkedInOrder /\ NeverEmptyHanded
  BY BadInvShows
<1> QED
  BY <1>1, <1>2, <1>3, PTL DEF QueuesSpec
(***************************************************************************)
(* The promise of TriangleQueue.                                           *)
(***************************************************************************)
LEMMA WaitingRight ==
  ASSUME BadInv, NEW t \in Triangs, t \in QueuesPromise!Waiting
  PROVE  In(Waits, t)
<1>1. PICK p \in Queues : t \in {Waits[p][k] : k \in DOMAIN Waits[p]}
  BY DEF QueuesPromise!Waiting, Waits
<1>2. DOMAIN Waits[p] = 1 .. Len(Waits[p])
  BY DEF BadInv, QueuesInv, Lists
<1> QED
  BY <1>1, <1>2 DEF In

\* A triangle that is found bad neither waits nor is split.
LEMMA EnqueueImplements == BadInv /\ EnqueueBadTri => QueuesPromise!Enqueue
<1> SUFFICES ASSUME BadInv, EnqueueBadTri PROVE QueuesPromise!Enqueue
  OBVIOUS
<1>1. PICK t \in Triangs \ badtriangles, k \in Keys :
        /\ badtriangles' = badtriangles \cup {t}
        /\ key' = [key EXCEPT ![t] = k]
        /\ EnqueueBadTriang(t, QueueNumber(k))
        /\ badtri' = badtri
  BY DEF EnqueueBadTri
<1>2. t \notin QueuesPromise!Waiting
  BY NotHeldNotIn, WaitingRight
<1>3. t # badtri
  BY TriangsAssumption DEF BadInv
<1>4. QueueNumber(k) \in Queues
  BY KeysHaveQueues
<1>5. Waits' = [Waits EXCEPT ![QueueNumber(k)] = Append(Waits[QueueNumber(k)], t)]
  BY <1>1, EnqueueBadTriRight
<1>6. QueuesPromise!Wait(t, QueueNumber(k))
  BY <1>4, <1>5 DEF QueuesPromise!Wait, Waits
<1> QED
  BY <1>1, <1>2, <1>3, <1>4, <1>6 DEF QueuesPromise!Enqueue

\* The first nonempty queue is the highest that has something.
LEMMA DequeueImplements == BadInv /\ DequeueBadTriang => QueuesPromise!Dequeue
<1> SUFFICES ASSUME BadInv, DequeueBadTriang PROVE QueuesPromise!Dequeue
  OBVIOUS
<1>1. /\ firstnonemptyq \in Queues /\ Waits[firstnonemptyq] # << >>
      /\ badtri' = Head(Waits[firstnonemptyq])
      /\ Waits' = [Waits EXCEPT ![firstnonemptyq] = Tail(Waits[firstnonemptyq])]
  BY DequeueRight
<1>2. ASSUME NEW higher \in Queues, higher > firstnonemptyq
      PROVE  Waits[higher] = << >>
  <2>1. higher \notin Nonempty
    BY <1>1, <1>2, QueuesAreNumbers DEF BadInv, LinkedIn
  <2>2. Waits[higher] \in Seq(Triangs) /\ Len(Waits[higher]) \in Nat
    BY ListsRight DEF BadInv, QueuesInv
  <2>3. ~(Len(Waits[higher]) > 0)
    BY <2>1, NonemptyRight DEF BadInv, QueuesInv, Nonempty
  <2> QED
    BY <2>2, <2>3, EmptySeq
<1>3. badtri = Null
  BY DEF DequeueBadTriang
<1> QED
  BY <1>1, <1>2, <1>3 DEF QueuesPromise!Dequeue, Waits

LEMMA PutBackImplements == BadInv /\ PutBack => QueuesPromise!PutBack
<1> SUFFICES ASSUME BadInv, PutBack PROVE QueuesPromise!PutBack
  OBVIOUS
<1>1. /\ QueueNumber(key[badtri]) \in Queues
      /\ Waits' = [Waits EXCEPT ![QueueNumber(key[badtri])] =
                     Append(Waits[QueueNumber(key[badtri])], badtri)]
  BY PutBackRight
<1>2. QueuesPromise!Wait(badtri, QueueNumber(key[badtri]))
  BY <1>1 DEF QueuesPromise!Wait, Waits
<1>3. badtri # Null /\ badtri' = Null
  BY DEF PutBack
<1> QED
  BY <1>1, <1>2, <1>3 DEF QueuesPromise!PutBack

LEMMA DropImplements == BadInv /\ Drop => QueuesPromise!Drop
<1> SUFFICES ASSUME BadInv, Drop PROVE QueuesPromise!Drop
  OBVIOUS
<1>1. Waits' = Waits
  BY DropRight
<1>2. badtri # Null /\ badtri' = Null
  BY DEF Drop
<1> QED
  BY <1>1, <1>2 DEF QueuesPromise!Drop, Waits

\* Nothing waits at first.
LEMMA InitImplements == InitQueues => QueuesPromise!Init
<1> SUFFICES ASSUME InitQueues PROVE QueuesPromise!Init
  OBVIOUS
<1>1. ASSUME NEW q \in Queues PROVE Waits[q] = << >>
  <2>1. BadInv /\ queuefront[q] = Null
    BY BadInvInit DEF InitQueues
  <2>2. Waits[q] \in Seq(Triangs) /\ Len(Waits[q]) \in Nat
    BY <2>1, ListsRight DEF BadInv, QueuesInv
  <2>3. ~(Len(Waits[q]) > 0)
    BY <2>1, NonemptyRight DEF BadInv, QueuesInv
  <2> QED
    BY <2>2, <2>3, EmptySeq
<1> QED
  BY <1>1 DEF QueuesPromise!Init, InitQueues, Waits

(***************************************************************************)
(* The 64 linked lists are a queue for each priority, and what is taken    *)
(* has waited longest among those of the highest priority that waits       *)
(* (enqueuebadtriang, dequeuebadtriang): every step of theirs is one of    *)
(* TriangleQueue.                                                          *)
(***************************************************************************)
THEOREM ImplementsQueues == QueuesSpec => IsPriorityQueue
<1>1. InitQueues => BadInv
  BY BadInvInit
<1>2. BadInv /\ [QueuesNext]_queueVars => BadInv'
  BY BadInvNext
<1>3. InitQueues => QueuesPromise!Init
  BY InitImplements
<1>4. BadInv /\ [QueuesNext]_queueVars => [QueuesPromise!Next]_(QueuesPromise!vars)
  <2> SUFFICES ASSUME BadInv, [QueuesNext]_queueVars PROVE [QueuesPromise!Next]_(QueuesPromise!vars)
    OBVIOUS
  <2>1. CASE EnqueueBadTri
    BY <2>1, EnqueueImplements DEF QueuesPromise!Next
  <2>2. CASE DequeueBadTriang
    BY <2>2, DequeueImplements DEF QueuesPromise!Next
  <2>3. CASE PutBack
    BY <2>3, PutBackImplements DEF QueuesPromise!Next
  <2>4. CASE Drop
    BY <2>4, DropImplements DEF QueuesPromise!Next
  <2>5. CASE UNCHANGED queueVars
    <3>1. Waits' = Waits
      BY <2>5, WaitsFollow DEF queueVars
    <3> QED
      BY <2>5, <3>1 DEF queueVars, QueuesPromise!vars, Waits
  <2> QED
    BY <2>1, <2>2, <2>3, <2>4, <2>5 DEF QueuesNext
<1> QED
  BY <1>1, <1>2, <1>3, <1>4, QueuesAlwaysRight, PTL
     DEF QueuesSpec, IsPriorityQueue, QueuesPromise!Spec

(***************************************************************************)
(* The places of a binary heap.                                            *)
(***************************************************************************)
LEMMA ParentRight ==
  ASSUME NEW j \in Nat, j # 0
  PROVE  /\ Parent(j) \in Nat /\ Parent(j) < j
         /\ j = 2 * Parent(j) + 1 \/ j = 2 * Parent(j) + 2
BY DEF Parent

LEMMA ParentOfChild ==
  ASSUME NEW i \in Nat
  PROVE  Parent(2 * i + 1) = i /\ Parent(2 * i + 2) = i
BY DEF Parent

\* i and the places above it: the least set that has i and is closed.
Upwards(C) == \A x \in C : x # 0 => Parent(x) \in C
From(i) == {x \in Nat : \A C \in SUBSET Nat : i \in C /\ Upwards(C) => x \in C}

LEMMA FromRight ==
  ASSUME NEW i \in Nat
  PROVE  /\ i \in From(i) /\ Upwards(From(i)) /\ From(i) \in SUBSET Nat
         /\ \A C \in SUBSET Nat : i \in C /\ Upwards(C) => From(i) \subseteq C
<1>1. ASSUME NEW x \in From(i), x # 0 PROVE Parent(x) \in From(i)
  <2>1. x \in Nat /\ Parent(x) \in Nat
    BY <1>1, ParentRight DEF From
  <2>2. ASSUME NEW C \in SUBSET Nat, i \in C, Upwards(C) PROVE Parent(x) \in C
    BY <1>1, <2>2 DEF From, Upwards
  <2> QED
    BY <2>1, <2>2 DEF From
<1>2. Upwards(From(i))
  BY <1>1 DEF Upwards
<1> QED
  BY <1>2 DEF From

AboveStep(f, i) == IF i = 0 THEN {} ELSE {Parent(i)} \cup f[Parent(i)]

LEMMA AboveIs == Above = [i \in Nat |-> AboveStep(Above, i)]
<1> DEFINE f == [i \in Nat |-> From(i) \ {i}]
<1>1. ASSUME NEW i \in Nat PROVE f[i] = AboveStep(f, i)
  <2>1. CASE i = 0
    <3>1. Upwards({0})
      BY DEF Upwards
    <3>2. From(0) = {0}
      BY <3>1, FromRight
    <3> QED
      BY <2>1, <3>2 DEF AboveStep
  <2>2. CASE i # 0
    <3> DEFINE q == Parent(i)
    <3>1. q \in Nat /\ q < i
      BY <2>2, ParentRight
    <3> HIDE DEF q
    <3>2. From(i) \subseteq {i} \cup From(q)
      <4>1. Upwards({i} \cup From(q))
        BY <3>1, FromRight DEF Upwards, q
      <4>2. i \in {i} \cup From(q) /\ {i} \cup From(q) \in SUBSET Nat
        BY <3>1, FromRight
      <4> QED
        BY <4>1, <4>2, FromRight
    <3>3. From(q) \subseteq From(i)
      <4>1. q \in From(i)
        BY <2>2, FromRight DEF Upwards, q
      <4> QED
        BY <3>1, <4>1, FromRight
    <3>4. i \notin From(q)
      <4>1. Upwards(0 .. q)
        BY <3>1, ParentRight DEF Upwards
      <4>2. From(q) \subseteq 0 .. q
        BY <3>1, <4>1, FromRight
      <4> QED
        BY <3>1, <4>2
    <3>5. q \in From(q) /\ i \in From(i)
      BY <3>1, FromRight
    <3>6. f[i] = {q} \cup f[q]
      BY <3>1, <3>2, <3>3, <3>4, <3>5
    <3> QED
      BY <2>2, <3>6 DEF AboveStep, q
  <2> QED
    BY <2>1, <2>2
<1>2. f = [i \in Nat |-> AboveStep(f, i)]
  BY <1>1
<1>3. \E g : g = [i \in Nat |-> AboveStep(g, i)]
  BY <1>2
<1>4. Above = CHOOSE g : g = [i \in Nat |-> AboveStep(g, i)]
  BY DEF Above, AboveStep
<1> QED
  BY <1>3, <1>4
\* What is above a place: a chain from its parent up to the root.
Chained(i) ==
  /\ Above[i] \subseteq 0 .. i - 1
  /\ \A a \in Above[i] : a # 0 => Parent(a) \in Above[i]
  /\ i # 0 => Parent(i) \in Above[i]
  /\ \A a \in Above[i] : \E j \in Above[i] \cup {i} : j # 0 /\ Parent(j) = a
  /\ \A j \in Above[i] \cup {i}, a \in Above[i] : a < j => a <= Parent(j)

LEMMA ChainedStep ==
  ASSUME NEW i \in Nat, i # 0, Chained(Parent(i))
  PROVE  Chained(i)
<1> DEFINE q == Parent(i)
<1>1. q \in Nat /\ q < i
  BY ParentRight
<1>2. Above[i] = {q} \cup Above[q]
  BY AboveIs DEF AboveStep
<1>3. /\ Above[q] \subseteq 0 .. q - 1
      /\ \A a \in Above[q] : a # 0 => Parent(a) \in Above[q]
      /\ q # 0 => Parent(q) \in Above[q]
      /\ \A a \in Above[q] : \E j \in Above[q] \cup {q} : j # 0 /\ Parent(j) = a
      /\ \A j \in Above[q] \cup {q}, a \in Above[q] : a < j => a <= Parent(j)
  BY DEF Chained
<1>4. Parent(i) = q
  OBVIOUS
<1> HIDE DEF q
<1>5. Above[i] \subseteq 0 .. i - 1
  BY <1>1, <1>2, <1>3
<1>6. ASSUME NEW a \in Above[i], a # 0 PROVE Parent(a) \in Above[i]
  BY <1>2, <1>3, <1>6
<1>7. ASSUME NEW a \in Above[i]
      PROVE  \E j \in Above[i] \cup {i} : j # 0 /\ Parent(j) = a
  <2>1. CASE a = q
    BY <1>4, <2>1
  <2>2. CASE a \in Above[q]
    BY <1>2, <1>3, <2>2
  <2> QED
    BY <1>2, <2>1, <2>2
<1>8. ASSUME NEW j \in Above[i] \cup {i}, NEW a \in Above[i], a < j
      PROVE  a <= Parent(j)
  <2>1. CASE j = i
    <3>1. a <= q
      BY <1>1, <1>2, <1>3
    <3> QED
      BY <1>4, <2>1, <3>1
  <2>2. CASE j \in Above[q] \cup {q}
    <3>1. a \in Above[q]
      BY <1>1, <1>2, <1>3, <1>8, <2>2
    <3> QED
      BY <1>3, <1>8, <2>2, <3>1
  <2> QED
    BY <1>2, <2>1, <2>2
<1>9. q \in Above[i]
  BY <1>2
<1> QED
  BY <1>4, <1>5, <1>6, <1>7, <1>8, <1>9 DEF Chained

LEMMA AboveRight ==
  ASSUME NEW i \in Nat
  PROVE  Chained(i)
<1> DEFINE T == {k \in Nat : ~Chained(k)}
<1>1. Chained(0)
  <2>1. Above[0] = {}
    BY AboveIs DEF AboveStep
  <2> QED
    BY <2>1 DEF Chained
<1>2. ASSUME T # {} PROVE FALSE
  <2>1. PICK k \in T : \A m \in T : k <= m
    BY <1>2, LeastNat
  <2>2. k \in Nat /\ k # 0 /\ ~Chained(k)
    BY <1>1
  <2>3. Parent(k) \in Nat /\ Parent(k) < k
    BY <2>2, ParentRight
  <2>4. Chained(Parent(k))
    BY <2>1, <2>2, <2>3
  <2> QED
    BY <2>2, <2>4, ChainedStep
<1> QED
  BY <1>2

(***************************************************************************)
(* An event goes up.  Above its place are the events in Later(...), which  *)
(* are due later than it; it ends in the topmost of their places.          *)
(***************************************************************************)
LaterOf(h, i, e, when) ==
  {a \in Above[i] : \A b \in Above[i] : b >= a => when[h[b]] > when[e]}
TopOf(h, i, e, when) ==
  LET later == LaterOf(h, i, e, when) IN
  IF later = {} THEN i ELSE CHOOSE a \in later : \A b \in later : a <= b

LEMMA RiseIs ==
  ASSUME NEW h, NEW i, NEW e, NEW when
  PROVE  RiseIn(h, i, e, when) =
           [heap |-> [j \in DOMAIN h \cup {i} |->
                       IF j = TopOf(h, i, e, when) THEN e
                       ELSE IF j = i \/ j \in LaterOf(h, i, e, when) THEN h[Parent(j)]
                       ELSE h[j]],
            at |-> TopOf(h, i, e, when)]
BY DEF RiseIn, TopOf, LaterOf

\* X are the places of the events that move, from i up to top.
Rising(X, h, i, e, when, top) ==
  /\ X \subseteq 0 .. i /\ i \in X /\ top \in X
  /\ \A j \in X : top <= j
  /\ \A j \in X : j # top => j # 0 /\ Parent(j) \in X /\ Parent(j) # i
  /\ \A j, k \in X : j # top /\ k # top /\ Parent(j) = Parent(k) => j = k
  /\ \A a \in X : a # i => /\ when[h[a]] > when[e]
                           /\ \E j \in X : j # top /\ j # 0 /\ Parent(j) = a
  /\ top # 0 => Parent(top) \notin X /\ when[h[Parent(top)]] <= when[e]

LEMMA RisingRight ==
  ASSUME NEW h, NEW i \in Nat, NEW e, NEW when,
         when[e] \in Int, \A a \in 0 .. i - 1 : when[h[a]] \in Int
  PROVE  Rising(LaterOf(h, i, e, when) \cup {i}, h, i, e, when, TopOf(h, i, e, when))
<1> DEFINE L == LaterOf(h, i, e, when)
           X == L \cup {i}
           top == TopOf(h, i, e, when)
<1>1. /\ Above[i] \subseteq 0 .. i - 1
      /\ \A a \in Above[i] : a # 0 => Parent(a) \in Above[i]
      /\ i # 0 => Parent(i) \in Above[i]
      /\ \A a \in Above[i] : \E j \in Above[i] \cup {i} : j # 0 /\ Parent(j) = a
      /\ \A j \in Above[i] \cup {i}, a \in Above[i] : a < j => a <= Parent(j)
  BY AboveRight DEF Chained
<1>2. /\ L \subseteq Above[i]
      /\ \A a \in Above[i] :
           a \in L <=> \A b \in Above[i] : b >= a => when[h[b]] > when[e]
  BY DEF LaterOf
<1>3. IF L = {} THEN top = i ELSE top \in L /\ \A b \in L : top <= b
  <2>1. CASE L = {}
    BY <2>1 DEF TopOf
  <2>2. CASE L # {}
    <3>1. L \in SUBSET Nat
      BY <1>1, <1>2
    <3>2. \E a \in L : \A b \in L : a <= b
      BY <2>2, <3>1, LeastNat
    <3>3. top = CHOOSE a \in L : \A b \in L : a <= b
      BY <2>2 DEF TopOf
    <3> QED
      BY <2>2, <3>2, <3>3
  <2> QED
    BY <2>1, <2>2
<1> HIDE DEF L, top
<1>4. /\ X \subseteq 0 .. i /\ i \in X /\ top \in X
      /\ \A j \in X : top <= j
  BY <1>1, <1>2, <1>3
<1>5. ASSUME NEW j \in X, NEW a \in Above[i], top <= a PROVE a \in L
  <2>1. top \in L
    BY <1>1, <1>3, <1>5
  <2>2. \A b \in Above[i] : b >= a => b >= top
    BY <1>1, <1>4, <1>5
  <2>3. \A b \in Above[i] : b >= a => when[h[b]] > when[e]
    BY <1>2, <2>1, <2>2
  <2> QED
    BY <1>2, <2>3
<1>6. ASSUME NEW j \in X, j # top
      PROVE  j # 0 /\ Parent(j) \in X /\ Parent(j) # i
  <2>1. top < j /\ j \in Nat /\ top \in Nat /\ j <= i
    BY <1>4, <1>6
  <2>2. top \in Above[i] /\ j \in Above[i] \cup {i}
    BY <1>2, <1>4, <2>1
  <2>3. top <= Parent(j) /\ Parent(j) \in Above[i]
    BY <1>1, <2>1, <2>2
  <2>4. Parent(j) \in L
    BY <1>5, <2>3
  <2> QED
    BY <1>1, <2>1, <2>3, <2>4
<1>7. ASSUME NEW a \in X, a # i
      PROVE  /\ when[h[a]] > when[e]
             /\ \E j \in X : j # top /\ j # 0 /\ Parent(j) = a
  <2>1. a \in L /\ a \in Above[i] /\ a \in Nat
    BY <1>1, <1>2, <1>7
  <2>2. when[h[a]] > when[e]
    BY <1>2, <2>1
  <2>3. PICK j \in Above[i] \cup {i} : j # 0 /\ Parent(j) = a
    BY <1>1, <2>1
  <2>4. j \in Nat /\ a < j
    BY <1>1, <2>3, ParentRight
  <2>5. top <= a /\ top \in Nat
    BY <1>4, <1>7
  <2>6. j \in X
    BY <1>5, <2>3, <2>4, <2>5, <2>1
  <2> QED
    BY <2>2, <2>3, <2>4, <2>5, <2>6
<1>8. ASSUME top # 0
      PROVE  Parent(top) \notin X /\ when[h[Parent(top)]] <= when[e]
  <2> DEFINE q == Parent(top)
  <2>1. top \in Nat /\ q \in Nat /\ q < top /\ top <= i
    BY <1>4, <1>8, ParentRight
  <2>2. q \in Above[i]
    BY <1>1, <1>2, <1>3, <1>8
  <2> HIDE DEF q
  <2>3. q \notin X
    BY <1>4, <2>1
  <2>4. PICK b \in Above[i] : b >= q /\ ~(when[h[b]] > when[e])
    BY <1>2, <2>2, <2>3
  <2>5. ~(b < top)  => FALSE
    <3>1. SUFFICES ASSUME top <= b PROVE FALSE
      BY <1>1, <2>1
    <3>2. b \in L
      BY <1>4, <1>5, <3>1
    <3>3. b >= b
      BY <1>1
    <3> QED
      BY <1>2, <2>4, <3>2, <3>3
  <2>6. b <= q
    BY <1>1, <1>2, <1>4, <2>5 DEF q
  <2>7. b = q
    BY <1>1, <2>1, <2>4, <2>6
  <2>8. when[h[q]] \in Int
    BY <1>1, <2>2
  <2> QED
    BY <2>3, <2>4, <2>7, <2>8 DEF q
<1>9. ASSUME NEW j \in X, NEW k \in X, Parent(j) = Parent(k), j < k
      PROVE  j = 0 \/ k = 0
  <2>1. j \in Nat /\ k \in Nat /\ k <= i
    BY <1>4
  <2>2. j \in Above[i] /\ k \in Above[i] \cup {i}
    BY <1>2, <1>9, <2>1
  <2>3. j <= Parent(j)
    BY <1>1, <1>9, <2>2
  <2>4. j # 0 => Parent(j) < j /\ Parent(j) \in Nat
    BY <2>1, ParentRight
  <2> QED
    BY <2>1, <2>3, <2>4
<1>10. ASSUME NEW j \in X, NEW k \in X, Parent(j) = Parent(k), j # top, k # top
       PROVE  j = k
  <2>1. j \in Nat /\ k \in Nat /\ j # 0 /\ k # 0
    BY <1>4, <1>6, <1>10
  <2>2. ~(j < k) /\ ~(k < j)
    BY <1>9, <1>10, <2>1
  <2> QED
    BY <2>1, <2>2
<1> QED
  BY <1>4, <1>6, <1>7, <1>8, <1>10 DEF Rising, L, top
\* A heap of n events that are in order but for the one at place i: those
\* below it are no earlier than the one above it.
OrderBut(h, n, when, i) ==
  \A j \in 1 .. n - 1 :
    /\ j # i /\ Parent(j) # i => when[h[Parent(j)]] <= when[h[j]]
    /\ Parent(j) = i /\ i # 0 => when[h[Parent(i)]] <= when[h[j]]

\* The event at place i is perhaps later than those below it.
OrderDownTo(h, n, when, i) ==
  \A j \in 1 .. n - 1 :
    /\ Parent(j) # i => when[h[Parent(j)]] <= when[h[j]]
    /\ Parent(j) = i /\ i # 0 => when[h[Parent(i)]] <= when[h[j]]

Order(h, n, when) == \A j \in 1 .. n - 1 : when[h[Parent(j)]] <= when[h[j]]

\* Of the first n places, what an event does that goes up from place i to top.
Risen(g, h, n, X, top, e) ==
  \A j \in 0 .. n - 1 :
    g[j] = IF j = top THEN e ELSE IF j \in X THEN h[Parent(j)] ELSE h[j]

LEMMA RisenInOrder ==
  ASSUME NEW n \in Nat, NEW h, NEW g, NEW when, NEW e, NEW X, NEW top,
         NEW i \in 0 .. n - 1,
         \A a \in 0 .. n - 1 : a # i => when[h[a]] \in Int,
         when[e] \in Int,
         OrderBut(h, n, when, i), Rising(X, h, i, e, when, top),
         Risen(g, h, n, X, top, e)
  PROVE  OrderDownTo(g, n, when, top) /\ (top # i => Order(g, n, when))
<1>1. /\ X \subseteq 0 .. i /\ i \in X /\ top \in X /\ \A j \in X : top <= j
      /\ \A j \in X : j # top => j # 0 /\ Parent(j) \in X /\ Parent(j) # i
      /\ \A a \in X : a # i => when[h[a]] > when[e]
      /\ top # 0 => Parent(top) \notin X /\ when[h[Parent(top)]] <= when[e]
  BY DEF Rising
<1>2. \A j \in 1 .. n - 1 : j # i /\ Parent(j) # i => when[h[Parent(j)]] <= when[h[j]]
  BY DEF OrderBut
<1>3. \A j \in 1 .. n - 1 : Parent(j) = i /\ i # 0 => when[h[Parent(i)]] <= when[h[j]]
  BY DEF OrderBut
<1>4. \A j \in 0 .. n - 1 :
        g[j] = IF j = top THEN e ELSE IF j \in X THEN h[Parent(j)] ELSE h[j]
  BY DEF Risen
<1>5. \A j \in 1 .. n - 1 : Parent(j) \in 0 .. n - 1 /\ Parent(j) < j
  BY ParentRight
<1>6. top \in 0 .. n - 1
  BY <1>1
<1>7. ASSUME top # 0
      PROVE  /\ Parent(top) \in 0 .. n - 1 /\ g[Parent(top)] = h[Parent(top)]
             /\ when[g[Parent(top)]] <= when[g[top]]
             /\ when[h[Parent(top)]] \in Int
  <2>1. Parent(top) \in 0 .. n - 1 /\ Parent(top) < top /\ Parent(top) \notin X
    BY <1>1, <1>5, <1>6, <1>7
  <2>2. g[Parent(top)] = h[Parent(top)] /\ g[top] = e
    BY <1>4, <1>6, <2>1
  <2> QED
    BY <1>1, <1>7, <2>1, <2>2
<1>8. ASSUME NEW j \in 1 .. n - 1, j \in X
      PROVE  when[g[Parent(j)]] <= when[g[j]]
  <2>1. CASE j = top
    BY <1>7, <2>1
  <2>2. CASE j # top
    <3> DEFINE p == Parent(j)
    <3>1. p \in X /\ p # i /\ p \in 0 .. n - 1 /\ g[j] = h[p]
      BY <1>1, <1>4, <1>5, <1>8, <2>2
    <3>2. when[h[p]] > when[e] /\ when[h[p]] \in Int
      BY <1>1, <3>1
    <3> HIDE DEF p
    <3>3. CASE p = top
      <4>1. g[p] = e
        BY <1>4, <3>1, <3>3
      <4> QED
        BY <3>1, <3>2, <4>1 DEF p
    <3>4. CASE p # top
      <4>1. p # 0 /\ Parent(p) \in X /\ Parent(p) # i /\ g[p] = h[Parent(p)]
        BY <1>1, <1>4, <3>1, <3>4
      <4>2. when[h[Parent(p)]] <= when[h[p]]
        BY <1>2, <3>1, <4>1
      <4> QED
        BY <3>1, <4>1, <4>2 DEF p
    <3> QED
      BY <3>3, <3>4
  <2> QED
    BY <2>1, <2>2
<1>9. ASSUME NEW j \in 1 .. n - 1, j \notin X
      PROVE  /\ Parent(j) # top \/ top # i => when[g[Parent(j)]] <= when[g[j]]
             /\ Parent(j) = top /\ top = i /\ top # 0 => when[g[Parent(top)]] <= when[g[j]]
  <2> DEFINE p == Parent(j)
  <2>1. p \in 0 .. n - 1 /\ p < j /\ g[j] = h[j] /\ j # i /\ j # top
    BY <1>1, <1>4, <1>5, <1>9
  <2>2. when[h[j]] \in Int
    BY <2>1
  <2>3. Parent(j) = p
    OBVIOUS
  <2> HIDE DEF p
  <2>4. CASE p \notin X
    <3>1. g[p] = h[p] /\ p # i /\ p # top
      BY <1>1, <1>4, <2>1, <2>4
    <3>2. when[h[p]] <= when[h[j]]
      BY <1>2, <2>1, <2>3, <3>1
    <3> QED
      BY <2>1, <2>3, <3>1, <3>2
  <2>5. CASE p = top
    <3>1. g[p] = e
      BY <1>4, <2>1, <2>5
    <3>2. CASE top # i
      <4>1. when[h[p]] > when[e] /\ when[h[p]] \in Int
        BY <1>1, <2>1, <2>5, <3>2
      <4>2. when[h[p]] <= when[h[j]]
        BY <1>2, <2>1, <2>3, <2>5, <3>2
      <4>3. when[e] <= when[h[j]]
        BY <2>2, <4>1, <4>2
      <4> QED
        BY <2>1, <2>3, <3>1, <3>2, <4>3
    <3>3. CASE top = i
      <4>1. top # 0 => when[h[Parent(i)]] <= when[h[j]]
        BY <1>3, <2>3, <2>5, <3>3
      <4>2. top # 0 => g[Parent(top)] = h[Parent(top)]
        BY <1>7
      <4> QED
        BY <2>1, <2>3, <2>5, <3>3, <4>1, <4>2
    <3> QED
      BY <3>2, <3>3
  <2>6. CASE p \in X /\ p # top
    <3>1. p # 0 /\ Parent(p) \in X /\ Parent(p) # i /\ g[p] = h[Parent(p)]
      BY <1>1, <1>4, <2>1, <2>6
    <3>2. Parent(p) \in 0 .. n - 1
      BY <1>5, <2>1, <3>1
    <3>3. when[h[Parent(p)]] <= when[h[j]]
      <4>1. CASE p = i
        BY <1>3, <2>3, <3>1, <4>1
      <4>2. CASE p # i
        <5>1. when[h[Parent(p)]] <= when[h[p]]
          BY <1>2, <2>1, <3>1, <4>2
        <5>2. when[h[p]] <= when[h[j]]
          BY <1>2, <2>1, <2>3, <4>2
        <5>3. when[h[Parent(p)]] \in Int /\ when[h[p]] \in Int
          BY <2>1, <3>1, <3>2, <4>2
        <5> QED
          BY <2>2, <5>1, <5>2, <5>3
      <4> QED
        BY <4>1, <4>2
    <3> QED
      BY <2>1, <2>3, <2>6, <3>1, <3>3
  <2> QED
    BY <2>4, <2>5, <2>6
<1>10. ASSUME NEW j \in 1 .. n - 1, Parent(j) = top, top # 0, top # i \/ j \in X
       PROVE  when[g[Parent(top)]] <= when[g[j]]
  <2>1. when[g[top]] <= when[g[j]]
    BY <1>8, <1>9, <1>10
  <2>2. when[g[Parent(top)]] <= when[g[top]]
    BY <1>7, <1>10
  <2>3. g[top] = e /\ when[g[Parent(top)]] \in Int
    BY <1>4, <1>6, <1>7, <1>10
  <2>4. when[g[j]] \in Int
    <3>1. CASE j \in X
      <4>1. j # top
        BY <1>5, <1>10
      <4>2. g[j] = h[top] /\ top # i
        BY <1>1, <1>4, <1>10, <3>1, <4>1
      <4> QED
        BY <1>6, <4>2
    <3>2. CASE j \notin X
      <4>1. g[j] = h[j] /\ j # i
        BY <1>1, <1>4, <3>2
      <4> QED
        BY <4>1
    <3> QED
      BY <3>1, <3>2
  <2> QED
    BY <2>1, <2>2, <2>3, <2>4
<1>11. OrderDownTo(g, n, when, top)
  BY <1>8, <1>9, <1>10 DEF OrderDownTo
<1>12. top # i => Order(g, n, when)
  BY <1>8, <1>9 DEF Order
<1> QED
  BY <1>11, <1>12
\* What is at the first n places of h, but at place i.
At(h, n) == {h[j] : j \in 0 .. n - 1}
OneEach(h, n) == \A j, k \in 0 .. n - 1 : h[j] = h[k] => j = k

\* An event that was not in the heap joins those that were, from place i up.
LEMMA RisenKeepsOthers ==
  ASSUME NEW n \in Nat, NEW h, NEW g, NEW when, NEW e, NEW X, NEW top,
         NEW i \in 0 .. n - 1,
         \A j, k \in (0 .. n - 1) \ {i} : h[j] = h[k] => j = k,
         \A j \in (0 .. n - 1) \ {i} : h[j] # e,
         Rising(X, h, i, e, when, top), Risen(g, h, n, X, top, e)
  PROVE  /\ OneEach(g, n)
         /\ At(g, n) = {h[j] : j \in (0 .. n - 1) \ {i}} \cup {e}
<1>1. /\ X \subseteq 0 .. i /\ i \in X /\ top \in X
      /\ \A j \in X : j # top => j # 0 /\ Parent(j) \in X /\ Parent(j) # i
      /\ \A j, k \in X : j # top /\ k # top /\ Parent(j) = Parent(k) => j = k
      /\ \A a \in X : a # i => \E j \in X : j # top /\ j # 0 /\ Parent(j) = a
  BY DEF Rising
<1>2. \A j \in 0 .. n - 1 :
        g[j] = IF j = top THEN e ELSE IF j \in X THEN h[Parent(j)] ELSE h[j]
  BY DEF Risen
<1> DEFINE Others == (0 .. n - 1) \ {i}
           Origin(j) == IF j \in X THEN Parent(j) ELSE j
<1>3. ASSUME NEW j \in 0 .. n - 1, j # top
      PROVE  Origin(j) \in Others /\ g[j] = h[Origin(j)]
  <2>1. CASE j \in X
    <3>a. Parent(j) \in X /\ Parent(j) # i
      BY <1>1, <1>3, <2>1
    <3>b. Parent(j) \in 0 .. i
      BY <1>1, <3>a
    <3>1. Parent(j) \in Others
      BY <3>a, <3>b
    <3> QED
      BY <1>2, <1>3, <2>1, <3>1
  <2>2. CASE j \notin X
    BY <1>1, <1>2, <1>3, <2>2
  <2> QED
    BY <2>1, <2>2
<1>4. \A j, k \in 0 .. n - 1 : j # top /\ k # top /\ Origin(j) = Origin(k) => j = k
  BY <1>1
<1>5. top \in 0 .. n - 1 /\ g[top] = e
  BY <1>1, <1>2
<1>6. \A j \in 0 .. n - 1 : j # top => g[j] # e
  BY <1>3
<1>7. ASSUME NEW a \in Others PROVE h[a] \in At(g, n)
  <2>1. \E j \in 0 .. n - 1 : j # top /\ Origin(j) = a
    BY <1>1
  <2> QED
    BY <1>3, <2>1 DEF At
<1> HIDE DEF Origin
<1>8. OneEach(g, n)
  <2>1. ASSUME NEW j \in 0 .. n - 1, NEW k \in 0 .. n - 1, g[j] = g[k] PROVE j = k
    <3>1. CASE j = top \/ k = top
      BY <1>5, <1>6, <2>1, <3>1
    <3>2. CASE j # top /\ k # top
      BY <1>3, <1>4, <2>1, <3>2
    <3> QED
      BY <3>1, <3>2
  <2> QED
    BY <2>1 DEF OneEach
<1>9. At(g, n) \subseteq {h[j] : j \in Others} \cup {e}
  BY <1>3, <1>5 DEF At
<1>10. e \in At(g, n)
  BY <1>5 DEF At
<1> QED
  BY <1>7, <1>8, <1>9, <1>10

(***************************************************************************)
(* An event goes down.                                                     *)
(***************************************************************************)
Falls(h, n, e, j) == 2 * j + 1 < n /\ due[h[Child(h, n, j)]] < due[e]
PathStep(h, n, e, p, j) == {j} \cup IF Falls(h, n, e, j) THEN p[Child(h, n, j)] ELSE {}
PathOf(h, n, e) == CHOOSE p : p = [j \in 0 .. n |-> PathStep(h, n, e, p, j)]

LEMMA HeapifyIs ==
  ASSUME NEW h, NEW n, NEW i
  PROVE  eventheapify(h, n, i) =
           [j \in 0 .. n - 1 |->
              IF j \notin PathOf(h, n, h[i])[i] THEN h[j]
              ELSE IF Falls(h, n, h[i], j) THEN h[Child(h, n, j)] ELSE h[i]]
BY DEF eventheapify, PathOf, PathStep, Falls

LEMMA ChildRight ==
  ASSUME NEW h, NEW n \in Nat, NEW i \in Nat, 2 * i + 1 < n,
         \A a \in 0 .. n - 1 : due[h[a]] \in Int
  PROVE  /\ Child(h, n, i) \in 1 .. n - 1 /\ i < Child(h, n, i)
         /\ Parent(Child(h, n, i)) = i
         /\ \A j \in 1 .. n - 1 :
              Parent(j) = i => due[h[Child(h, n, i)]] <= due[h[j]]
<1>1. Parent(2 * i + 1) = i /\ Parent(2 * i + 2) = i
  BY ParentOfChild
<1>2. \A j \in 1 .. n - 1 : Parent(j) = i => j = 2 * i + 1 \/ j = 2 * i + 2
  BY ParentRight
<1>3. CASE 2 * i + 2 < n /\ due[h[2 * i + 2]] < due[h[2 * i + 1]]
  <2>1. Child(h, n, i) = 2 * i + 2
    BY <1>3 DEF Child
  <2>2. due[h[2 * i + 2]] \in Int /\ due[h[2 * i + 1]] \in Int
    BY <1>3
  <2>3. \A j \in 1 .. n - 1 : Parent(j) = i => due[h[2 * i + 2]] <= due[h[j]]
    BY <1>2, <1>3, <2>2
  <2> QED
    BY <1>1, <1>3, <2>1, <2>3
<1>4. CASE ~(2 * i + 2 < n /\ due[h[2 * i + 2]] < due[h[2 * i + 1]])
  <2>1. Child(h, n, i) = 2 * i + 1
    BY <1>4 DEF Child
  <2>2. due[h[2 * i + 1]] \in Int
    OBVIOUS
  <2>3. 2 * i + 2 < n => due[h[2 * i + 2]] \in Int
    OBVIOUS
  <2>4. \A j \in 1 .. n - 1 : Parent(j) = i => due[h[2 * i + 1]] <= due[h[j]]
    BY <1>2, <1>4, <2>2, <2>3
  <2> QED
    BY <1>1, <2>1, <2>4
<1> QED
  BY <1>3, <1>4

\* The places that an event at i falls through: the least set that has i and
\* is closed.
Downwards(h, n, e, C) == \A x \in C : Falls(h, n, e, x) => Child(h, n, x) \in C
Below(h, n, e, i) ==
  {x \in 0 .. n : \A C \in SUBSET (0 .. n) : i \in C /\ Downwards(h, n, e, C) => x \in C}

LEMMA PathIs ==
  ASSUME NEW h, NEW n \in Nat, NEW e, \A a \in 0 .. n - 1 : due[h[a]] \in Int
  PROVE  PathOf(h, n, e) = [j \in 0 .. n |-> PathStep(h, n, e, PathOf(h, n, e), j)]
<1> DEFINE f == [j \in 0 .. n |-> Below(h, n, e, j)]
           c(j) == Child(h, n, j)
           falls(j) == Falls(h, n, e, j)
<1>1. \A j \in 0 .. n : falls(j) => c(j) \in 0 .. n
  <2>1. ASSUME NEW j \in 0 .. n, falls(j) PROVE c(j) \in 0 .. n
    <3>1. 2 * j + 1 < n /\ j \in Nat
      BY <2>1 DEF Falls
    <3>2. c(j) \in 1 .. n - 1
      BY <3>1, ChildRight
    <3> QED
      BY <3>2
  <2> QED
    BY <2>1
<1> HIDE DEF c, falls
<1>2. \A x \in 0 .. n, C \in SUBSET (0 .. n) :
        x \in C /\ (\A y \in C : falls(y) => c(y) \in C) => Below(h, n, e, x) \subseteq C
  BY DEF Below, Downwards, c, falls
<1>3. ASSUME NEW x \in 0 .. n
      PROVE  /\ x \in Below(h, n, e, x) /\ Below(h, n, e, x) \in SUBSET (0 .. n)
             /\ \A y \in Below(h, n, e, x) : falls(y) => c(y) \in Below(h, n, e, x)
  <2>1. x \in Below(h, n, e, x) /\ Below(h, n, e, x) \in SUBSET (0 .. n)
    BY DEF Below
  <2>2. ASSUME NEW y \in Below(h, n, e, x), falls(y),
               NEW C \in SUBSET (0 .. n), x \in C, Downwards(h, n, e, C)
        PROVE  c(y) \in C
    <3>1. y \in C
      BY <2>2 DEF Below
    <3> QED
      BY <2>2, <3>1 DEF Downwards, c, falls
  <2>3. ASSUME NEW y \in Below(h, n, e, x), falls(y)
        PROVE  c(y) \in Below(h, n, e, x)
    <3>1. c(y) \in 0 .. n
      BY <1>1, <2>1, <2>3
    <3> QED
      BY <2>2, <2>3, <3>1 DEF Below
  <2> QED
    BY <2>1, <2>3
<1>4. ASSUME NEW j \in 0 .. n PROVE f[j] = PathStep(h, n, e, f, j)
  <2>1. CASE falls(j)
    <3> DEFINE B == Below(h, n, e, c(j))
    <3>1. c(j) \in 0 .. n
      BY <1>1, <2>1
    <3>2. f[j] \subseteq {j} \cup B
      <4>1. {j} \cup B \in SUBSET (0 .. n)
        BY <1>3, <3>1
      <4>2. \A y \in {j} \cup B : falls(y) => c(y) \in {j} \cup B
        BY <1>3, <3>1
      <4> QED
        BY <1>2, <4>1, <4>2
    <3>3. B \subseteq f[j]
      <4>1. c(j) \in Below(h, n, e, j) /\ Below(h, n, e, j) \in SUBSET (0 .. n)
        BY <1>3, <2>1
      <4>2. B \subseteq Below(h, n, e, j)
        BY <1>2, <1>3, <3>1, <4>1
      <4> QED
        BY <4>2
    <3>4. j \in f[j]
      BY <1>3
    <3>5. f[c(j)] = B
      BY <3>1
    <3>6. f[j] = {j} \cup f[c(j)]
      BY <3>2, <3>3, <3>4, <3>5
    <3> HIDE DEF f
    <3> QED
      BY <2>1, <3>6 DEF PathStep, falls, c
  <2>2. CASE ~falls(j)
    <3>1. {j} \in SUBSET (0 .. n) /\ j \in {j} /\ \A y \in {j} : falls(y) => c(y) \in {j}
      BY <2>2
    <3>2. Below(h, n, e, j) \subseteq {j}
      BY <1>2, <3>1
    <3>3. f[j] = {j}
      BY <1>3, <3>2
    <3> HIDE DEF f
    <3> QED
      BY <2>2, <3>3 DEF PathStep, falls
  <2> QED
    BY <2>1, <2>2
<1>5. f = [j \in 0 .. n |-> PathStep(h, n, e, f, j)]
  BY <1>4
<1>6. \E p : p = [j \in 0 .. n |-> PathStep(h, n, e, p, j)]
  BY <1>5
<1>7. PathOf(h, n, e) = CHOOSE p : p = [j \in 0 .. n |-> PathStep(h, n, e, p, j)]
  BY DEF PathOf
<1> HIDE DEF f
<1> QED
  BY <1>6, <1>7
\* The places an event falls through are a chain from i down to the only one
\* where it stays.
Falling(P, h, n, e, i) ==
  /\ P \subseteq i .. n - 1 /\ i \in P
  /\ \A j \in P : Falls(h, n, e, j) => Child(h, n, j) \in P
  /\ \A j \in P : j # i => /\ Parent(j) \in P /\ Falls(h, n, e, Parent(j))
                           /\ Child(h, n, Parent(j)) = j
  /\ \E l \in P : ~Falls(h, n, e, l)
  /\ \A j, k \in P : ~Falls(h, n, e, j) /\ ~Falls(h, n, e, k) => j = k

LEMMA FallingStep ==
  ASSUME NEW h, NEW n \in Nat, NEW e, NEW i \in 0 .. n - 1, NEW P, NEW c, NEW C,
         \A a \in 0 .. n - 1 : due[h[a]] \in Int,
         Falls(h, n, e, i), c = Child(h, n, i), Falling(C, h, n, e, c), P = {i} \cup C
  PROVE  Falling(P, h, n, e, i)
<1>1. c \in 1 .. n - 1 /\ i < c /\ Parent(c) = i
  BY ChildRight DEF Falls
<1>2. /\ C \subseteq c .. n - 1 /\ c \in C
      /\ \A j \in C : Falls(h, n, e, j) => Child(h, n, j) \in C
      /\ \A j \in C : j # c => /\ Parent(j) \in C /\ Falls(h, n, e, Parent(j))
                               /\ Child(h, n, Parent(j)) = j
      /\ \E l \in C : ~Falls(h, n, e, l)
      /\ \A j, k \in C : ~Falls(h, n, e, j) /\ ~Falls(h, n, e, k) => j = k
  BY DEF Falling
<1>3. P \subseteq i .. n - 1 /\ i \in P
  BY <1>1, <1>2
<1>4. \A j \in P : Falls(h, n, e, j) => Child(h, n, j) \in P
  BY <1>2
<1>5. ASSUME NEW j \in P, j # i
      PROVE  Parent(j) \in P /\ Falls(h, n, e, Parent(j)) /\ Child(h, n, Parent(j)) = j
  <2>1. CASE j = c
    BY <1>1, <2>1
  <2>2. CASE j # c
    BY <1>2, <1>5, <2>2
  <2> QED
    BY <2>1, <2>2
<1>6. \E l \in P : ~Falls(h, n, e, l)
  BY <1>2
<1>7. \A j, k \in P : ~Falls(h, n, e, j) /\ ~Falls(h, n, e, k) => j = k
  BY <1>2
<1> QED
  BY <1>3, <1>4, <1>5, <1>6, <1>7 DEF Falling

LEMMA PathRight ==
  ASSUME NEW h, NEW n \in Nat, NEW e, NEW i \in 0 .. n - 1,
         \A a \in 0 .. n - 1 : due[h[a]] \in Int
  PROVE  Falling(PathOf(h, n, e)[i], h, n, e, i)
<1> DEFINE p == PathOf(h, n, e)
           T == {m \in Nat : \E j \in 0 .. n - 1 : m = n - j /\ ~Falling(p[j], h, n, e, j)}
<1>1. \A j \in 0 .. n - 1 :
        p[j] = {j} \cup IF Falls(h, n, e, j) THEN p[Child(h, n, j)] ELSE {}
  <2>1. p = [j \in 0 .. n |-> PathStep(h, n, e, p, j)]
    BY PathIs
  <2> HIDE DEF p
  <2>2. \A j \in 0 .. n : p[j] = PathStep(h, n, e, p, j)
    BY <2>1
  <2> QED
    BY <2>2 DEF PathStep
<1> HIDE DEF p
<1>2. ASSUME T # {} PROVE FALSE
  <2>1. PICK m \in T : \A k \in T : m <= k
    BY <1>2, LeastNat
  <2>2. PICK j \in 0 .. n - 1 : m = n - j /\ ~Falling(p[j], h, n, e, j)
    BY <2>1
  <2>3. CASE Falls(h, n, e, j)
    <3> DEFINE c == Child(h, n, j)
    <3>1. c \in 1 .. n - 1 /\ j < c
      BY <2>3, ChildRight DEF Falls
    <3> HIDE DEF c
    <3>2. n - c \in Nat /\ n - c < m
      BY <2>2, <3>1
    <3>3. n - c \notin T
      BY <2>1, <3>2
    <3>4. Falling(p[c], h, n, e, c)
      BY <3>1, <3>2, <3>3
    <3>5. p[j] = {j} \cup p[c]
      BY <1>1, <2>3 DEF c
    <3>6. Falling(p[j], h, n, e, j)
      BY <2>3, <3>4, <3>5, FallingStep DEF c
    <3> QED
      BY <2>2, <3>6
  <2>4. CASE ~Falls(h, n, e, j)
    <3>1. p[j] = {j}
      BY <1>1, <2>4
    <3>2. Falling({j}, h, n, e, j)
      BY <2>4 DEF Falling
    <3> QED
      BY <2>2, <3>1, <3>2
  <2> QED
    BY <2>3, <2>4
<1>3. n - i \in Nat
  OBVIOUS
<1>4. n - i \notin T
  BY <1>2
<1> QED
  BY <1>3, <1>4 DEF p

\* What becomes of the first n places when the event at i falls through P.
Fallen(g, h, n, P, e) ==
  \A j \in 0 .. n - 1 :
    g[j] = IF j \notin P THEN h[j] ELSE IF Falls(h, n, e, j) THEN h[Child(h, n, j)] ELSE e

LEMMA FallenInOrder ==
  ASSUME NEW h, NEW g, NEW n \in Nat, NEW P, NEW i \in 0 .. n - 1,
         \A a \in 0 .. n - 1 : due[h[a]] \in Int,
         OrderDownTo(h, n, due, i), Falling(P, h, n, h[i], i), Fallen(g, h, n, P, h[i])
  PROVE  Order(g, n, due)
<1> DEFINE e == h[i]
           c(j) == Child(h, n, j)
           falls(j) == Falls(h, n, e, j)
<1>1. /\ P \subseteq i .. n - 1 /\ i \in P
      /\ \A j \in P : falls(j) => c(j) \in P
      /\ \A j \in P : j # i => Parent(j) \in P /\ falls(Parent(j)) /\ c(Parent(j)) = j
  BY DEF Falling
<1>2. \A j \in 1 .. n - 1 : Parent(j) # i => due[h[Parent(j)]] <= due[h[j]]
  BY DEF OrderDownTo
<1>3. \A j \in 1 .. n - 1 : Parent(j) = i /\ i # 0 => due[h[Parent(i)]] <= due[h[j]]
  BY DEF OrderDownTo
<1>4. \A j \in 0 .. n - 1 :
        g[j] = IF j \notin P THEN h[j] ELSE IF falls(j) THEN h[c(j)] ELSE e
  BY DEF Fallen
<1>5. \A j \in 0 .. n - 1 : falls(j) <=> 2 * j + 1 < n /\ due[h[c(j)]] < due[e]
  BY DEF Falls
<1>6. ASSUME NEW j \in 0 .. n - 1, 2 * j + 1 < n
      PROVE  /\ c(j) \in 1 .. n - 1 /\ j < c(j) /\ Parent(c(j)) = j
             /\ \A k \in 1 .. n - 1 : Parent(k) = j => due[h[c(j)]] <= due[h[k]]
  BY <1>6, ChildRight
<1>7. \A j \in 1 .. n - 1 :
        Parent(j) \in 0 .. n - 1 /\ Parent(j) < j /\ 2 * Parent(j) + 1 < n
  BY ParentRight
<1>8. due[e] \in Int
  OBVIOUS
<1> HIDE DEF c, falls, e
<1>9. ASSUME NEW j \in 1 .. n - 1 PROVE due[g[Parent(j)]] <= due[g[j]]
  <2> DEFINE q == Parent(j)
  <2>1. q \in 0 .. n - 1 /\ q < j /\ 2 * q + 1 < n /\ Parent(j) = q
    BY <1>7
  <2> HIDE DEF q
  <2>2. c(q) \in 1 .. n - 1 /\ due[h[c(q)]] <= due[h[j]]
    BY <1>6, <2>1
  <2>3. due[h[c(q)]] \in Int /\ due[h[j]] \in Int /\ due[h[q]] \in Int
    BY <2>1, <2>2
  <2>4. CASE j \in P /\ j # i
    <3>1. q \in P /\ falls(q) /\ c(q) = j /\ g[q] = h[j]
      BY <1>1, <1>4, <2>1, <2>4
    <3>2. CASE falls(j)
      <4>1. 2 * j + 1 < n
        BY <1>5, <3>2
      <4>2. c(j) \in 1 .. n - 1 /\ Parent(c(j)) = j
        BY <1>6, <4>1
      <4>3. due[h[j]] <= due[h[c(j)]]
        BY <1>2, <2>4, <4>2
      <4>4. g[j] = h[c(j)]
        BY <1>4, <2>4, <3>2
      <4> QED
        BY <2>1, <3>1, <4>3, <4>4
    <3>3. CASE ~falls(j)
      <4>1. due[h[j]] < due[e]
        BY <1>5, <2>1, <3>1
      <4>2. g[j] = e
        BY <1>4, <2>4, <3>3
      <4> QED
        BY <1>8, <2>1, <2>3, <3>1, <4>1, <4>2
    <3> QED
      BY <3>2, <3>3
  <2>5. CASE j = i
    <3>1. q \notin P /\ g[q] = h[q]
      BY <1>1, <1>4, <2>1, <2>5
    <3>2. CASE falls(j)
      <4>1. 2 * j + 1 < n
        BY <1>5, <3>2
      <4>2. c(j) \in 1 .. n - 1 /\ Parent(c(j)) = j
        BY <1>6, <4>1
      <4>3. due[h[q]] <= due[h[c(j)]]
        BY <1>3, <2>1, <2>5, <4>2
      <4>4. g[j] = h[c(j)]
        BY <1>1, <1>4, <2>5, <3>2
      <4> QED
        BY <2>1, <3>1, <4>3, <4>4
    <3>3. CASE ~falls(j)
      <4>1. g[j] = h[j]
        BY <1>1, <1>4, <2>5, <3>3 DEF e
      <4>2. due[h[q]] <= due[h[j]]
        BY <1>2, <2>1, <2>5
      <4> QED
        BY <2>1, <3>1, <4>1, <4>2
    <3> QED
      BY <3>2, <3>3
  <2>6. CASE j \notin P
    <3>1. g[j] = h[j]
      BY <1>4, <2>6
    <3>2. CASE q \notin P
      <4>1. g[q] = h[q] /\ q # i
        BY <1>1, <1>4, <2>1, <3>2
      <4>2. due[h[q]] <= due[h[j]]
        BY <1>2, <2>1, <4>1
      <4> QED
        BY <2>1, <3>1, <4>1, <4>2
    <3>3. CASE q \in P /\ falls(q)
      <4>1. g[q] = h[c(q)]
        BY <1>4, <2>1, <3>3
      <4> QED
        BY <2>1, <2>2, <3>1, <4>1
    <3>4. CASE q \in P /\ ~falls(q)
      <4>1. g[q] = e
        BY <1>4, <2>1, <3>4
      <4>2. ~(due[h[c(q)]] < due[e])
        BY <1>5, <2>1, <3>4
      <4>3. due[e] <= due[h[j]]
        BY <1>8, <2>2, <2>3, <4>2
      <4> QED
        BY <2>1, <3>1, <4>1, <4>3
    <3> QED
      BY <3>2, <3>3, <3>4
  <2> QED
    BY <2>4, <2>5, <2>6
<1> QED
  BY <1>9 DEF Order

LEMMA FallenKeepsAll ==
  ASSUME NEW h, NEW g, NEW n \in Nat, NEW P, NEW i \in 0 .. n - 1,
         \A a \in 0 .. n - 1 : due[h[a]] \in Int,
         OneEach(h, n), Falling(P, h, n, h[i], i), Fallen(g, h, n, P, h[i])
  PROVE  OneEach(g, n) /\ At(g, n) = At(h, n)
<1> DEFINE e == h[i]
           c(j) == Child(h, n, j)
           falls(j) == Falls(h, n, e, j)
           from(j) == IF j \notin P THEN j ELSE IF falls(j) THEN c(j) ELSE i
<1>1. /\ P \subseteq i .. n - 1 /\ i \in P
      /\ \A j \in P : falls(j) => c(j) \in P
      /\ \A j \in P : j # i => Parent(j) \in P /\ falls(Parent(j)) /\ c(Parent(j)) = j
      /\ \E l \in P : ~falls(l)
      /\ \A j, k \in P : ~falls(j) /\ ~falls(k) => j = k
  BY DEF Falling
<1>2. \A j \in 0 .. n - 1 : g[j] = h[from(j)]
  BY DEF Fallen
<1>3. ASSUME NEW j \in 0 .. n - 1, falls(j)
      PROVE  c(j) \in 1 .. n - 1 /\ j < c(j) /\ Parent(c(j)) = j
  <2>1. 2 * j + 1 < n
    BY <1>3 DEF Falls
  <2> QED
    BY <2>1, ChildRight
<1>4. \A j, k \in 0 .. n - 1 : h[j] = h[k] => j = k
  BY DEF OneEach
<1> HIDE DEF c, falls, e
<1>5. \A j \in 0 .. n - 1 : from(j) \in 0 .. n - 1
  BY <1>1, <1>3
<1>6. ASSUME NEW j \in 0 .. n - 1, NEW k \in 0 .. n - 1, from(j) = from(k) PROVE j = k
  <2>1. \A m \in P : falls(m) => c(m) \in P /\ c(m) # i /\ Parent(c(m)) = m
    BY <1>1, <1>3
  <2>2. CASE j \notin P /\ k \notin P
    BY <1>6, <2>2
  <2>3. CASE j \in P /\ k \in P
    BY <1>1, <1>6, <2>1, <2>3
  <2>4. CASE ~(j \in P <=> k \in P)
    BY <1>1, <1>6, <2>1, <2>4
  <2> QED
    BY <2>2, <2>3, <2>4
<1>7. ASSUME NEW j \in 0 .. n - 1 PROVE \E k \in 0 .. n - 1 : from(k) = j
  <2>1. CASE j \notin P
    BY <2>1
  <2>2. CASE j = i
    BY <1>1, <2>2
  <2>3. CASE j \in P /\ j # i
    <3>1. Parent(j) \in P /\ falls(Parent(j)) /\ c(Parent(j)) = j
      BY <1>1, <2>3
    <3>2. Parent(j) \in i .. n - 1
      BY <1>1, <3>1
    <3>3. Parent(j) \in 0 .. n - 1
      BY <3>2
    <3> QED
      BY <3>1, <3>3
  <2> QED
    BY <2>1, <2>2, <2>3
<1> HIDE DEF from
<1>8. OneEach(g, n)
  <2>1. ASSUME NEW j \in 0 .. n - 1, NEW k \in 0 .. n - 1, g[j] = g[k] PROVE j = k
    BY <1>2, <1>4, <1>5, <1>6, <2>1
  <2> QED
    BY <2>1 DEF OneEach
<1>9. At(g, n) = At(h, n)
  BY <1>2, <1>5, <1>7 DEF At
<1> QED
  BY <1>8, <1>9
(***************************************************************************)
(* The operations of the heap.                                             *)
(***************************************************************************)
IsHeap(h, n, when) ==
  /\ h \in [0 .. n - 1 -> Events]
  /\ OneEach(h, n)
  /\ \A j \in 0 .. n - 1 : when[h[j]] \in Times
  /\ Order(h, n, when)

LEMMA TimesAreNumbers == \A t \in Times : t \in Int /\ t # 0
BY TimesAssumption

\* An event that is put in the heap.
LEMMA InsertRight ==
  ASSUME NEW h, NEW n \in Nat, NEW e \in Events, NEW when,
         IsHeap(h, n, when), e \notin At(h, n), when[e] \in Times
  PROVE  /\ IsHeap(RiseIn(h, n, e, when).heap, n + 1, when)
         /\ At(RiseIn(h, n, e, when).heap, n + 1) = At(h, n) \cup {e}
<1> DEFINE g == RiseIn(h, n, e, when).heap
           X == LaterOf(h, n, e, when) \cup {n}
           top == TopOf(h, n, e, when)
<1>1. /\ h \in [0 .. n - 1 -> Events]
      /\ \A j, k \in 0 .. n - 1 : h[j] = h[k] => j = k
      /\ \A j \in 0 .. n - 1 : when[h[j]] \in Times
      /\ Order(h, n, when)
  BY DEF IsHeap, OneEach
<1>2. \A t \in Times : t \in Int
  BY TimesAreNumbers
<1>3. (0 .. n) \ {n} = 0 .. n - 1 /\ (n + 1) - 1 = n /\ 0 .. n = (0 .. n - 1) \cup {n}
  OBVIOUS
<1>4. Rising(X, h, n, e, when, top)
  BY <1>1, <1>2, RisingRight
<1>5. g = [j \in 0 .. n |-> IF j = top THEN e
                            ELSE IF j = n \/ j \in LaterOf(h, n, e, when) THEN h[Parent(j)]
                            ELSE h[j]]
  <2>1. DOMAIN h \cup {n} = 0 .. n
    BY <1>1, <1>3
  <2>2. g = [j \in DOMAIN h \cup {n} |->
               IF j = top THEN e
               ELSE IF j = n \/ j \in LaterOf(h, n, e, when) THEN h[Parent(j)]
               ELSE h[j]]
    BY RiseIs
  <2> QED
    BY <2>1, <2>2
<1> HIDE DEF g, top
<1>6. Risen(g, h, n + 1, X, top, e)
  BY <1>3, <1>5 DEF Risen
<1> HIDE DEF X
<1>7. \A j \in 1 .. n : Parent(j) \in 0 .. n - 1
  BY ParentRight
<1>8. OrderBut(h, n + 1, when, n)
  <2>1. \A j \in 1 .. n : j # n => when[h[Parent(j)]] <= when[h[j]]
    BY <1>1 DEF Order
  <2> QED
    BY <1>3, <1>7, <2>1 DEF OrderBut
<1>9. \A a \in 0 .. n : a # n => when[h[a]] \in Int
  BY <1>1, <1>2, <1>3
<1>10. n \in 0 .. n /\ n + 1 \in Nat /\ when[e] \in Int
  <2>1. when[e] \in Int
    BY <1>2
  <2> QED
    BY <2>1
<1>11. OrderDownTo(g, n + 1, when, top) /\ (top # n => Order(g, n + 1, when))
  BY <1>3, <1>4, <1>6, <1>8, <1>9, <1>10, RisenInOrder
<1>12. Order(g, n + 1, when)
  <2>1. CASE top = n
    <3>1. \A j \in 1 .. n : Parent(j) # top
      BY <1>7, <2>1
    <3> QED
      BY <1>3, <1>11, <3>1 DEF OrderDownTo, Order
  <2> QED
    BY <1>11, <2>1
<1>13. \A j \in (0 .. n) \ {n} : h[j] # e
  BY <1>3 DEF At
<1>14. /\ OneEach(g, n + 1)
       /\ At(g, n + 1) = {h[j] : j \in (0 .. n) \ {n}} \cup {e}
  BY <1>1, <1>3, <1>4, <1>6, <1>10, <1>13, RisenKeepsOthers
<1>15. At(g, n + 1) = At(h, n) \cup {e}
  BY <1>3, <1>14 DEF At
<1>16. \A j \in 0 .. n : g[j] \in At(h, n) \cup {e}
  BY <1>3, <1>15 DEF At
<1>17. At(h, n) \subseteq Events /\ \A a \in At(h, n) : when[a] \in Times
  BY <1>1 DEF At
<1>18. g \in [0 .. n -> Events] /\ \A j \in 0 .. n : when[g[j]] \in Times
  BY <1>5, <1>16, <1>17
<1> QED
  BY <1>3, <1>12, <1>14, <1>15, <1>18 DEF IsHeap, g

\* The last event, which takes the place of the one at i and goes up.
LEMMA ReplaceRight ==
  ASSUME NEW h, NEW n \in Nat, NEW i \in 0 .. n - 1, IsHeap(h, n + 1, due),
         NEW g, NEW top, NEW risen, risen = RiseIn(h, i, h[n], due),
         g = risen.heap, top = risen.at
  PROVE  /\ OneEach(g, n) /\ At(g, n) = At(h, n + 1) \ {h[i]}
         /\ OrderDownTo(g, n, due, top) /\ top \in 0 .. n - 1
<1> DEFINE e == h[n]
           X == LaterOf(h, i, e, due) \cup {i}
<1>1. (n + 1) - 1 = n /\ 0 .. n - 1 \subseteq 0 .. n /\ n \in 0 .. n
  OBVIOUS
<1>2. /\ h \in [0 .. n -> Events]
      /\ \A j, k \in 0 .. n : h[j] = h[k] => j = k
      /\ \A j \in 0 .. n : due[h[j]] \in Times
      /\ \A j \in 1 .. n : due[h[Parent(j)]] <= due[h[j]]
  BY <1>1 DEF IsHeap, OneEach, Order
<1>3. \A j \in 0 .. n : due[h[j]] \in Int
  BY <1>2, TimesAreNumbers
<1>4. top = TopOf(h, i, e, due)
  BY RiseIs
<1>5. g = [j \in 0 .. n |-> IF j = top THEN e
                            ELSE IF j = i \/ j \in LaterOf(h, i, e, due) THEN h[Parent(j)]
                            ELSE h[j]]
  <2>1. DOMAIN h \cup {i} = 0 .. n
    BY <1>2
  <2>2. g = [j \in DOMAIN h \cup {i} |->
               IF j = top THEN e
               ELSE IF j = i \/ j \in LaterOf(h, i, e, due) THEN h[Parent(j)]
               ELSE h[j]]
    BY <1>4, RiseIs
  <2> QED
    BY <2>1, <2>2
<1>6. due[e] \in Int /\ i \in Nat /\ \A a \in 0 .. i - 1 : due[h[a]] \in Int
  BY <1>1, <1>3
<1>7. Rising(X, h, i, e, due, top)
  BY <1>4, <1>6, RisingRight
<1>8. Risen(g, h, n, X, top, e)
  BY <1>5 DEF Risen
<1>9. top \in 0 .. n - 1
  BY <1>7 DEF Rising
<1> HIDE DEF X, e
<1>10. OrderBut(h, n, due, i)
  <2>1. ASSUME NEW j \in 1 .. n - 1, Parent(j) = i, i # 0
        PROVE  due[h[Parent(i)]] <= due[h[j]]
    <3>1. due[h[Parent(i)]] <= due[h[i]] /\ due[h[i]] <= due[h[j]]
      BY <1>2, <2>1
    <3>2. Parent(i) \in 0 .. n
      BY <2>1, ParentRight
    <3>3. due[h[Parent(i)]] \in Int /\ due[h[i]] \in Int /\ due[h[j]] \in Int
      BY <1>3, <3>2
    <3> QED
      BY <3>1, <3>3
  <2> QED
    BY <1>2, <2>1 DEF OrderBut
<1>11. OrderDownTo(g, n, due, top)
  <2>1. \A a \in 0 .. n - 1 : a # i => due[h[a]] \in Int
    BY <1>1, <1>3
  <2> QED
    BY <1>6, <1>7, <1>8, <1>10, <2>1, RisenInOrder
<1>12. \A j \in (0 .. n - 1) \ {i} : h[j] # e
  <2>1. \A j \in 0 .. n - 1 : h[j] # h[n]
    BY <1>1, <1>2
  <2> QED
    BY <2>1 DEF e
<1>13. \A j, k \in (0 .. n - 1) \ {i} : h[j] = h[k] => j = k
  BY <1>1, <1>2
<1>14. OneEach(g, n) /\ At(g, n) = {h[j] : j \in (0 .. n - 1) \ {i}} \cup {e}
  BY <1>7, <1>8, <1>12, <1>13, RisenKeepsOthers
<1>15. {h[j] : j \in (0 .. n - 1) \ {i}} \cup {e} = {h[j] : j \in 0 .. n} \ {h[i]}
  <2>1. 0 .. n = (0 .. n - 1) \cup {n} /\ i # n
    OBVIOUS
  <2>2. \A j \in 0 .. n : j # i => h[j] # h[i]
    BY <1>1, <1>2
  <2> QED
    BY <2>1, <2>2 DEF e
<1> QED
  BY <1>1, <1>9, <1>11, <1>14, <1>15 DEF At

\* An event that is taken out of the heap.
LEMMA DeleteRight ==
  ASSUME NEW h, NEW n \in Nat, NEW i \in 0 .. n, IsHeap(h, n + 1, due),
         NEW g, NEW risen, risen = RiseIn(h, i, h[n], due),
         g = eventheapify(risen.heap, n, risen.at)
  PROVE  IsHeap(g, n, due) /\ At(g, n) = At(h, n + 1) \ {h[i]}
<1> DEFINE r == risen.heap
           top == risen.at
           P == PathOf(r, n, r[top])[top]
<1>1. (n + 1) - 1 = n /\ 0 .. n - 1 \subseteq 0 .. n /\ n \in 0 .. n
  OBVIOUS
<1>2. /\ h \in [0 .. n -> Events]
      /\ \A j, k \in 0 .. n : h[j] = h[k] => j = k
      /\ \A j \in 0 .. n : due[h[j]] \in Times
      /\ \A j \in 1 .. n : due[h[Parent(j)]] <= due[h[j]]
  BY <1>1 DEF IsHeap, OneEach, Order
<1>3. g = [j \in 0 .. n - 1 |->
             IF j \notin P THEN r[j]
             ELSE IF Falls(r, n, r[top], j) THEN r[Child(r, n, j)] ELSE r[top]]
  BY HeapifyIs
<1> HIDE DEF P
<1>4. OneEach(g, n) /\ At(g, n) = At(h, n + 1) \ {h[i]} /\ Order(g, n, due)
  <2>1. CASE i < n
    <3>1. i \in 0 .. n - 1
      BY <2>1
    <3>2. /\ OneEach(r, n) /\ At(r, n) = At(h, n + 1) \ {h[i]}
          /\ OrderDownTo(r, n, due, top) /\ top \in 0 .. n - 1
      BY <3>1, ReplaceRight
    <3>3. \A a \in 0 .. n - 1 : due[r[a]] \in Int
      <4>1. \A a \in 0 .. n - 1 : r[a] \in At(h, n + 1)
        BY <3>2 DEF At
      <4>2. \A e \in At(h, n + 1) : due[e] \in Times
        BY <1>1, <1>2 DEF At
      <4> QED
        BY <4>1, <4>2, TimesAreNumbers
    <3> HIDE DEF r, top
    <3>4. Falling(P, r, n, r[top], top)
      BY <3>2, <3>3, PathRight DEF P
    <3>5. Fallen(g, r, n, P, r[top])
      BY <1>3 DEF Fallen
    <3>6. Order(g, n, due)
      BY <3>2, <3>3, <3>4, <3>5, FallenInOrder
    <3>7. OneEach(g, n) /\ At(g, n) = At(r, n)
      BY <3>2, <3>3, <3>4, <3>5, FallenKeepsAll
    <3> QED
      BY <3>2, <3>6, <3>7
  <2>2. CASE i = n
    <3>1. top = n /\ \A j \in 0 .. n - 1 : r[j] = h[j]
      <4> DEFINE L == LaterOf(h, n, h[n], due)
      <4>1. L = {}
        <5>1. n # 0 => Parent(n) \in 0 .. n - 1 /\ Parent(n) \in Above[n]
          BY ParentRight, AboveRight DEF Chained
        <5>2. Above[n] \subseteq 0 .. n - 1 /\ \A a \in Above[n] : a <= Parent(n)
          BY AboveRight DEF Chained
        <5>3. Above[n] # {} => n # 0
          BY <5>2
        <5>4. n # 0 => ~(due[h[Parent(n)]] > due[h[n]])
          <6>1. n # 0 => n \in 1 .. n /\ Parent(n) \in 0 .. n
            BY <5>1
          <6>2. n # 0 => due[h[Parent(n)]] <= due[h[n]]
            BY <1>2, <6>1
          <6>3. n # 0 => due[h[Parent(n)]] \in Int /\ due[h[n]] \in Int
            BY <1>1, <1>2, <6>1, TimesAreNumbers
          <6> QED
            BY <6>2, <6>3
        <5> QED
          BY <5>1, <5>2, <5>3, <5>4 DEF LaterOf
      <4>2. top = n
        BY <2>2, <4>1, RiseIs DEF TopOf
      <4>3. r = [j \in DOMAIN h \cup {n} |->
                   IF j = TopOf(h, n, h[n], due) THEN h[n]
                   ELSE IF j = n \/ j \in L THEN h[Parent(j)] ELSE h[j]]
        BY <2>2, RiseIs
      <4>4. TopOf(h, n, h[n], due) = n
        BY <4>1 DEF TopOf
      <4>5. \A j \in 0 .. n - 1 : j \in DOMAIN h \cup {n} /\ j # n
        BY <1>2
      <4> HIDE DEF L, r
      <4>6. \A j \in 0 .. n - 1 : r[j] = h[j]
        BY <4>1, <4>3, <4>4, <4>5
      <4> QED
        BY <4>2, <4>6
    <3>2. \A a \in 0 .. n - 1 : due[r[a]] \in Int
      BY <1>1, <1>2, <3>1, TimesAreNumbers
    <3> HIDE DEF r
    <3>3. P = {n}
      <4>1. ~Falls(r, n, r[top], n)
        BY DEF Falls
      <4>2. PathOf(r, n, r[top])
              = [j \in 0 .. n |-> PathStep(r, n, r[top], PathOf(r, n, r[top]), j)]
        BY <3>2, PathIs
      <4>3. PathOf(r, n, r[top])[n] = PathStep(r, n, r[top], PathOf(r, n, r[top]), n)
        BY <1>1, <4>2
      <4> QED
        BY <3>1, <4>1, <4>3 DEF PathStep, P
    <3>4. \A j \in 0 .. n - 1 : g[j] = h[j]
      <4>1. \A j \in 0 .. n - 1 : j \notin P
        BY <3>3
      <4> QED
        BY <1>3, <3>1, <4>1
    <3>5. OneEach(g, n)
      BY <1>1, <1>2, <3>4 DEF OneEach
    <3>6. Order(g, n, due)
      <4>1. \A j \in 1 .. n - 1 : Parent(j) \in 0 .. n - 1 /\ j \in 1 .. n /\ j \in 0 .. n - 1
        BY ParentRight
      <4> QED
        BY <1>2, <3>4, <4>1 DEF Order
    <3>7. At(g, n) = At(h, n + 1) \ {h[n]}
      <4>1. 0 .. n = (0 .. n - 1) \cup {n}
        OBVIOUS
      <4>2. \A j \in 0 .. n - 1 : h[j] # h[n]
        BY <1>1, <1>2
      <4> QED
        BY <1>1, <3>4, <4>1, <4>2 DEF At
    <3> QED
      BY <2>2, <3>5, <3>6, <3>7
  <2> QED
    BY <2>1, <2>2
<1>5. \A e \in At(h, n + 1) : e \in Events /\ due[e] \in Times
  BY <1>1, <1>2 DEF At
<1>6. \A j \in 0 .. n - 1 : g[j] \in At(h, n + 1)
  BY <1>4 DEF At
<1>7. g \in [0 .. n - 1 -> Events] /\ \A j \in 0 .. n - 1 : due[g[j]] \in Times
  BY <1>3, <1>5, <1>6
<1> QED
  BY <1>4, <1>7 DEF IsHeap
(***************************************************************************)
(* The invariant: the heap is in order, its events know their places, and  *)
(* every event waits, is free, or is handled, and is one of these only.    *)
(***************************************************************************)
HeapInv ==
  /\ heapsize \in Nat /\ IsHeap(heap, heapsize, due)
  /\ due \in [Events -> Times \cup {0}]
  /\ PlacesKnown
  /\ freeevents \in Seq(Events)
  /\ \A k, l \in 1 .. Len(freeevents) : freeevents[k] = freeevents[l] => k = l
  /\ \A k \in 1 .. Len(freeevents) : freeevents[k] \notin Waiting /\ freeevents[k] # nextevent
  /\ circles \subseteq Waiting
  /\ nextevent \in (Events \ Waiting) \cup {Null}

LEMMA SizeIs == ASSUME NEW n \in Nat PROVE Cardinality(0 .. n - 1) = n
<1>1. IsFiniteSet(0 .. n - 1) /\ Cardinality(0 .. n - 1) = IF 0 > n - 1 THEN 0 ELSE (n - 1) - 0 + 1
  BY FS_Interval
<1> QED
  BY <1>1

LEMMA HeapIs ==
  ASSUME HeapInv
  PROVE  /\ heapsize \in Nat /\ DOMAIN heap = 0 .. heapsize - 1
         /\ Waiting = At(heap, heapsize) /\ Waiting \subseteq Events
         /\ \A e \in Waiting : due[e] \in Times
BY DEF HeapInv, IsHeap, Waiting, At

\* Every event that was moved learns its place, and so all that wait know it.
LEMMA PlacesLearned ==
  ASSUME HeapInv, LearnPlaces, NEW n \in Nat, IsHeap(heap', n, due')
  PROVE  PlacesKnown'
<1>1. DOMAIN heap' = 0 .. n - 1 /\ \A i \in 0 .. n - 1 : heap'[i] \in Events
  BY DEF IsHeap
<1>2. \A i, j \in 0 .. n - 1 : heap'[i] = heap'[j] => i = j
  BY DEF IsHeap, OneEach
<1>3. \A i \in 0 .. n - 1 : due'[heap'[i]] # 0
  BY TimesAreNumbers DEF IsHeap
<1>4. \A i \in DOMAIN heap : heapposition[heap[i]] = i
  BY DEF HeapInv, PlacesKnown
<1>5. ASSUME NEW i \in DOMAIN heap' PROVE heapposition'[heap'[i]] = i
  <2> DEFINE e == heap'[i]
  <2>1. e \in Events
    BY <1>1, <1>5
  <2>2. heapposition'[e] = IF Moved(e) THEN CHOOSE k \in DOMAIN heap' : heap'[k] = e
                           ELSE IF due'[e] = 0 THEN 0 ELSE heapposition[e]
    BY <2>1 DEF LearnPlaces
  <2>3. CASE Moved(e)
    <3>1. (CHOOSE k \in DOMAIN heap' : heap'[k] = e) = i
      BY <1>1, <1>2
    <3> QED
      BY <2>2, <2>3, <3>1
  <2>4. CASE ~Moved(e)
    <3>1. i \in DOMAIN heap /\ heap[i] = e
      BY <2>4 DEF Moved
    <3>2. heapposition[e] = i
      BY <1>4, <3>1
    <3> QED
      BY <1>1, <1>3, <2>2, <2>4, <3>2
  <2> QED
    BY <2>3, <2>4
<1> QED
  BY <1>5 DEF PlacesKnown

\* What the two operations do to the heap and to those that wait.
LEMMA InsertStep ==
  ASSUME HeapInv, NEW e \in Events, e \notin Waiting, NEW t \in Times,
         due' = [due EXCEPT ![e] = t], eventheapinsert(e)
  PROVE  /\ (heapsize \in Nat)' /\ IsHeap(heap, heapsize, due)'
         /\ due' \in [Events -> Times \cup {0}] /\ PlacesKnown'
         /\ Waiting' = Waiting \cup {e}
         /\ due'[e] = t /\ \A f \in Waiting : due'[f] = due[f]
<1> DEFINE n == heapsize
<1>1. /\ n \in Nat /\ IsHeap(heap, n, due) /\ Waiting = At(heap, n)
      /\ Waiting \subseteq Events /\ due \in [Events -> Times \cup {0}]
  BY HeapIs DEF HeapInv
<1>2. /\ due' \in [Events -> Times \cup {0}] /\ due'[e] = t
      /\ \A f \in Waiting : due'[f] = due[f]
  BY <1>1
<1>3. heap' = RiseIn(heap, n, e, due').heap /\ LearnPlaces
  BY DEF eventheapinsert
<1> HIDE DEF n
<1>4. IsHeap(heap, n, due')
  <2>1. \A j \in 0 .. n - 1 : heap[j] \in Waiting
    BY <1>1 DEF At
  <2>2. \A j \in 1 .. n - 1 : Parent(j) \in 0 .. n - 1 /\ j \in 0 .. n - 1
    BY <1>1, ParentRight
  <2>3. Order(heap, n, due')
    BY <1>1, <1>2, <2>1, <2>2 DEF IsHeap, Order
  <2> QED
    BY <1>1, <1>2, <2>1, <2>3 DEF IsHeap
<1>5. IsHeap(heap', n + 1, due') /\ At(heap', n + 1) = At(heap, n) \cup {e}
  <2> DEFINE when == due'
             h == heap
  <2>1. when[e] \in Times /\ e \notin At(h, n) /\ IsHeap(h, n, when)
    BY <1>1, <1>2, <1>4
  <2>2. heap' = RiseIn(h, n, e, when).heap
    BY <1>3
  <2> HIDE DEF when, h
  <2>3. /\ IsHeap(RiseIn(h, n, e, when).heap, n + 1, when)
        /\ At(RiseIn(h, n, e, when).heap, n + 1) = At(h, n) \cup {e}
    BY <1>1, <2>1, InsertRight
  <2> QED
    BY <2>2, <2>3 DEF when, h
<1>6. DOMAIN heap' = 0 .. (n + 1) - 1 /\ n + 1 \in Nat
  BY <1>1, <1>5 DEF IsHeap
<1>7. heapsize' = n + 1
  BY <1>6, SizeIs DEF heapsize
<1>8. Waiting' = At(heap', n + 1)
  BY <1>6 DEF Waiting, At
<1>9. PlacesKnown'
  BY <1>3, <1>5, <1>6, PlacesLearned
<1> QED
  BY <1>1, <1>2, <1>5, <1>6, <1>7, <1>8, <1>9

LEMMA DeleteStep ==
  ASSUME HeapInv, NEW i \in DOMAIN heap, eventheapdelete(i)
  PROVE  /\ (heapsize \in Nat)' /\ IsHeap(heap, heapsize, due)'
         /\ due' \in [Events -> Times \cup {0}] /\ PlacesKnown'
         /\ Waiting' = Waiting \ {heap[i]}
         /\ \A f \in Waiting' : due'[f] = due[f]
<1> DEFINE n == heapsize - 1
           risen == RiseIn(heap, i, heap[n], due)
<1>1. /\ heapsize \in Nat /\ IsHeap(heap, heapsize, due) /\ Waiting = At(heap, heapsize)
      /\ DOMAIN heap = 0 .. heapsize - 1
      /\ Waiting \subseteq Events /\ due \in [Events -> Times \cup {0}]
  BY HeapIs DEF HeapInv
<1>2. n \in Nat /\ n + 1 = heapsize /\ i \in 0 .. n
  BY <1>1
<1>3. /\ heap' = eventheapify(risen.heap, n, risen.at)
      /\ due' = [due EXCEPT ![heap[i]] = 0] /\ LearnPlaces
  BY DEF eventheapdelete
<1> HIDE DEF n, risen
<1>4. IsHeap(heap', n, due) /\ At(heap', n) = Waiting \ {heap[i]}
  <2>1. risen = RiseIn(heap, i, heap[n], due)
    BY DEF risen
  <2> QED
    BY <1>1, <1>2, <1>3, <2>1, DeleteRight
<1>5. DOMAIN heap' = 0 .. n - 1
  BY <1>4 DEF IsHeap
<1>6. heapsize' = n
  BY <1>2, <1>5, SizeIs DEF heapsize
<1>7. Waiting' = At(heap', n)
  BY <1>5 DEF Waiting, At
<1>8. \A f \in Waiting' : f \in Events /\ due'[f] = due[f]
  BY <1>1, <1>3, <1>4, <1>7
<1>9. IsHeap(heap', n, due')
  <2>1. \A j \in 0 .. n - 1 : heap'[j] \in Waiting'
    BY <1>7 DEF At
  <2>2. \A j \in 1 .. n - 1 : Parent(j) \in 0 .. n - 1 /\ j \in 0 .. n - 1
    BY <1>2, ParentRight
  <2>3. Order(heap', n, due')
    BY <1>4, <1>8, <2>1, <2>2 DEF IsHeap, Order
  <2> QED
    BY <1>4, <1>8, <2>1, <2>3 DEF IsHeap
<1>10. due' \in [Events -> Times \cup {0}]
  BY <1>1, <1>3
<1>11. PlacesKnown'
  BY <1>2, <1>3, <1>9, PlacesLearned
<1> QED
  BY <1>2, <1>4, <1>6, <1>7, <1>8, <1>9, <1>10, <1>11
(***************************************************************************)
(* In the beginning the vertices are inserted one after the other.         *)
(***************************************************************************)
BuildStep(b, i) == IF i = 0 THEN << >> ELSE RiseIn(b[i - 1], i - 1, i - 1, due).heap
IsBuilt(b, n) == b = [i \in 0 .. n |-> BuildStep(b, i)]

LEMMA BuiltExists ==
  ASSUME NEW n \in Nat
  PROVE  \E b : IsBuilt(b, n)
<1> DEFINE T == {m \in Nat : ~\E b : IsBuilt(b, m)}
<1>1. ASSUME T # {} PROVE FALSE
  <2>1. PICK m \in T : \A k \in T : m <= k
    BY <1>1, LeastNat
  <2>2. m \in Nat /\ ~\E b : IsBuilt(b, m)
    BY <2>1
  <2>3. CASE m = 0
    <3> DEFINE b == [i \in 0 .. 0 |-> << >>]
    <3>1. \A i \in 0 .. 0 : BuildStep(b, i) = << >>
      BY DEF BuildStep
    <3>2. b = [i \in 0 .. 0 |-> BuildStep(b, i)]
      BY <3>1
    <3>3. IsBuilt(b, 0)
      BY <3>2 DEF IsBuilt
    <3> QED
      BY <2>2, <2>3, <3>3
  <2>4. CASE m # 0
    <3>1. m - 1 \in Nat /\ m - 1 < m
      BY <2>2, <2>4
    <3>2. m - 1 \notin T
      BY <2>1, <3>1
    <3>3. PICK c : IsBuilt(c, m - 1)
      BY <3>1, <3>2
    <3> DEFINE b == [i \in 0 .. m |-> IF i = m THEN RiseIn(c[m - 1], m - 1, m - 1, due).heap
                                     ELSE c[i]]
    <3>4. \A i \in 0 .. m - 1 : c[i] = BuildStep(c, i)
      BY <3>3 DEF IsBuilt
    <3>5. \A i \in 0 .. m - 1 : i \in 0 .. m /\ i # m /\ b[i] = c[i]
      BY <2>2
    <3>6. ASSUME NEW i \in 0 .. m PROVE b[i] = BuildStep(b, i)
      <4>1. CASE i = m
        <5>1. b[m] = RiseIn(c[m - 1], m - 1, m - 1, due).heap
          BY <2>2
        <5>2. b[m - 1] = c[m - 1]
          BY <3>1, <3>5
        <5> HIDE DEF b
        <5> QED
          BY <2>4, <4>1, <5>1, <5>2 DEF BuildStep
      <4>2. CASE i # m
        <5>1. i \in 0 .. m - 1 /\ (i # 0 => i - 1 \in 0 .. m - 1)
          BY <2>2, <4>2
        <5>2. b[i] = c[i] /\ c[i] = BuildStep(c, i)
          BY <3>4, <3>5, <5>1
        <5>3. i # 0 => b[i - 1] = c[i - 1]
          BY <3>5, <5>1
        <5> HIDE DEF b
        <5> QED
          BY <5>2, <5>3 DEF BuildStep
      <4> QED
        BY <4>1, <4>2
    <3>7. b = [i \in 0 .. m |-> BuildStep(b, i)]
      BY <3>6
    <3>8. IsBuilt(b, m)
      BY <3>7 DEF IsBuilt
    <3> QED
      BY <2>2, <3>8
  <2> QED
    BY <2>3, <2>4
<1> QED
  BY <1>1

LEMMA BuiltRight ==
  ASSUME NEW b, NEW n \in Nat, n <= MaxEvents, IsBuilt(b, n),
         \A e \in 0 .. n - 1 : due[e] \in Times
  PROVE  IsHeap(b[n], n, due) /\ At(b[n], n) = 0 .. n - 1
<1> DEFINE Right(m) == IsHeap(b[m], m, due) /\ At(b[m], m) = 0 .. m - 1
           T == {m \in 0 .. n : ~Right(m)}
<1>1. \A i \in 0 .. n : b[i] = BuildStep(b, i)
  BY DEF IsBuilt
<1>2. MaxEvents \in Int
  BY SitesAssumption DEF MaxEvents
<1> HIDE DEF Right
<1>3. ASSUME T # {} PROVE FALSE
  <2>1. T \in SUBSET Nat
    OBVIOUS
  <2>2. PICK m \in T : \A k \in T : m <= k
    BY <1>3, <2>1, LeastNat
  <2>3. m \in 0 .. n /\ ~Right(m)
    BY <2>2
  <2>4. CASE m = 0
    <3>1. b[0] = << >>
      BY <1>1 DEF BuildStep
    <3>2. 0 .. 0 - 1 = {} /\ 1 .. 0 - 1 = {}
      OBVIOUS
    <3>3. << >> \in [{} -> Events]
      OBVIOUS
    <3>4. IsHeap(<< >>, 0, due)
      BY <3>2, <3>3 DEF IsHeap, OneEach, Order
    <3>5. At(<< >>, 0) = {}
      BY <3>2 DEF At
    <3> QED
      BY <2>3, <2>4, <3>1, <3>2, <3>4, <3>5 DEF Right
  <2>5. CASE m # 0
    <3> DEFINE k == m - 1
    <3>1. k \in 0 .. n - 1 /\ k \in 0 .. n /\ k < m /\ k + 1 = m /\ k \in Nat
      BY <2>3, <2>5
    <3> HIDE DEF k
    <3>2. k \notin T
      BY <2>1, <2>2, <3>1
    <3>3. IsHeap(b[k], k, due) /\ At(b[k], k) = 0 .. k - 1
      BY <3>1, <3>2 DEF Right
    <3>4. k \in Events /\ k \notin 0 .. k - 1 /\ due[k] \in Times
      BY <1>2, <3>1 DEF Events
    <3>5. b[m] = RiseIn(b[k], k, k, due).heap
      BY <1>1, <2>3, <2>5 DEF BuildStep, k
    <3>6. IsHeap(b[m], k + 1, due) /\ At(b[m], k + 1) = (0 .. k - 1) \cup {k}
      <4> DEFINE h == b[k]
      <4>1. IsHeap(h, k, due) /\ At(h, k) = 0 .. k - 1 /\ b[m] = RiseIn(h, k, k, due).heap
        BY <3>3, <3>5
      <4> HIDE DEF h
      <4> QED
        BY <3>1, <3>4, <4>1, InsertRight
    <3>7. (0 .. k - 1) \cup {k} = 0 .. m - 1
      BY <3>1
    <3> QED
      BY <2>3, <3>1, <3>6, <3>7 DEF Right
  <2> QED
    BY <2>4, <2>5
<1>4. Right(n)
  <2>1. n \in 0 .. n /\ n \notin T
    BY <1>3
  <2> QED
    BY <2>1
<1> QED
  BY <1>4 DEF Right

LEMMA HeapInitially == ASSUME InitHeap PROVE HeapInv
<1>1. Sites \in Nat /\ MaxEvents \in Nat /\ Sites <= MaxEvents
  BY SitesAssumption DEF MaxEvents
<1>2. PICK t \in [0 .. Sites - 1 -> Times] : due = [e \in Events |-> IF e < Sites THEN t[e] ELSE 0]
  BY DEF InitHeap
<1>3. \A e \in 0 .. Sites - 1 : e \in Events /\ due[e] \in Times
  BY <1>1, <1>2 DEF Events
<1>4. due \in [Events -> Times \cup {0}]
  <2>1. \A e \in Events : e < Sites => e \in 0 .. Sites - 1
    BY <1>1 DEF Events
  <2> QED
    BY <1>2, <2>1
<1>5. PICK b : IsBuilt(b, Sites) /\ heap = b[Sites]
  <2> DEFINE c == CHOOSE b : IsBuilt(b, Sites)
  <2>1. IsBuilt(c, Sites)
    BY <1>1, BuiltExists
  <2>2. heap = c[Sites]
    BY DEF InitHeap, IsBuilt, BuildStep
  <2> QED
    BY <2>1, <2>2
<1>6. IsHeap(heap, Sites, due) /\ At(heap, Sites) = 0 .. Sites - 1
  BY <1>1, <1>3, <1>5, BuiltRight
<1>7. DOMAIN heap = 0 .. Sites - 1 /\ heapsize = Sites
  BY <1>1, <1>6, SizeIs DEF IsHeap, heapsize
<1>8. Waiting = 0 .. Sites - 1
  BY <1>6, <1>7 DEF Waiting, At
<1>9. PlacesKnown
  <2>1. ASSUME NEW i \in DOMAIN heap PROVE heapposition[heap[i]] = i
    <3>1. heap[i] \in 0 .. Sites - 1
      BY <1>8 DEF Waiting
    <3>2. heap[i] \in Events /\ ~(heap[i] >= Sites)
      BY <1>1, <1>3, <3>1
    <3>3. heapposition[heap[i]] = CHOOSE k \in DOMAIN heap : heap[k] = heap[i]
      BY <3>2 DEF InitHeap
    <3>4. \A k \in DOMAIN heap : heap[k] = heap[i] => k = i
      BY <1>6, <1>7 DEF IsHeap, OneEach
    <3> QED
      BY <3>3, <3>4
  <2> QED
    BY <2>1 DEF PlacesKnown
<1>10. freeevents = [i \in 1 .. MaxEvents - Sites |-> Sites + i - 1]
  BY DEF InitHeap
<1>11. /\ freeevents \in Seq(Events) /\ Len(freeevents) = MaxEvents - Sites
       /\ \A k \in 1 .. Len(freeevents) : freeevents[k] = Sites + k - 1
  <2>1. MaxEvents - Sites \in Nat
    BY <1>1
  <2>2. \A k \in 1 .. MaxEvents - Sites : Sites + k - 1 \in Events
    BY <1>1 DEF Events
  <2> QED
    BY <1>10, <2>1, <2>2
<1>12. \A k, l \in 1 .. Len(freeevents) : freeevents[k] = freeevents[l] => k = l
  BY <1>1, <1>11
<1>13. nextevent = Null /\ circles = {}
  BY DEF InitHeap
<1>14. \A k \in 1 .. Len(freeevents) : freeevents[k] \notin Waiting /\ freeevents[k] # nextevent
  <2>1. \A k \in 1 .. Len(freeevents) : freeevents[k] \in Events
    BY <1>11
  <2>2. \A k \in 1 .. Len(freeevents) : freeevents[k] \notin Waiting
    BY <1>1, <1>8, <1>11
  <2> QED
    BY <1>13, <2>1, <2>2, NullIsNoEvent
<1> QED
  BY <1>1, <1>4, <1>6, <1>7, <1>9, <1>11, <1>12, <1>13, <1>14 DEF HeapInv
(***************************************************************************)
(* Every step keeps the invariant, and is a step of the event queue.       *)
(***************************************************************************)
AbstractDue == [e \in Waiting |-> due[e]]

LEMMA NextEventStep ==
  ASSUME HeapInv, NextEvent
  PROVE  HeapInv' /\ HeapPromise!TakeFirst
<1>1. /\ heapsize \in Nat /\ DOMAIN heap = 0 .. heapsize - 1 /\ Waiting \subseteq Events
      /\ Waiting = At(heap, heapsize) /\ \A e \in Waiting : due[e] \in Times
  BY HeapIs
<1>2. /\ heapsize > 0 /\ nextevent = Null /\ nextevent' = heap[0]
      /\ circles' = circles \ {heap[0]} /\ eventheapdelete(0)
      /\ freeevents' = freeevents
  BY DEF NextEvent
<1>3. 0 \in DOMAIN heap
  BY <1>1, <1>2
<1>4. heap[0] \in Waiting /\ heap[0] \in Events
  BY <1>1, <1>3 DEF Waiting
<1>5. /\ (heapsize \in Nat)' /\ IsHeap(heap, heapsize, due)'
      /\ due' \in [Events -> Times \cup {0}] /\ PlacesKnown'
      /\ Waiting' = Waiting \ {heap[0]}
      /\ \A f \in Waiting' : due'[f] = due[f]
  BY <1>2, <1>3, DeleteStep
<1>6. HeapInv'
  <2>1. /\ freeevents' \in Seq(Events)
        /\ \A k, l \in 1 .. Len(freeevents') : freeevents'[k] = freeevents'[l] => k = l
        /\ \A k \in 1 .. Len(freeevents') :
             freeevents'[k] \notin Waiting' /\ freeevents'[k] # nextevent'
    BY <1>2, <1>4, <1>5 DEF HeapInv
  <2>2. circles' \subseteq Waiting'
    BY <1>2, <1>5 DEF HeapInv
  <2>3. nextevent' \in (Events \ Waiting') \cup {Null}
    BY <1>2, <1>4, <1>5
  <2> QED
    BY <1>5, <2>1, <2>2, <2>3 DEF HeapInv
<1>7. ASSUME NEW f \in Waiting PROVE due[heap[0]] <= due[f]
  <2> DEFINE T == {j \in DOMAIN heap : ~(due[heap[0]] <= due[heap[j]])}
  <2>1. ASSUME T # {} PROVE FALSE
    <3>1. T \in SUBSET Nat
      BY <1>1
    <3>2. PICK j \in T : \A k \in T : j <= k
      BY <2>1, <3>1, LeastNat
    <3>3. j \in DOMAIN heap /\ ~(due[heap[0]] <= due[heap[j]]) /\ j \in 0 .. heapsize - 1
      BY <1>1, <3>2
    <3>4. due[heap[0]] \in Int /\ due[heap[j]] \in Int
      BY <1>1, <1>4, <3>3, TimesAreNumbers DEF Waiting
    <3>5. j # 0
      BY <3>3, <3>4
    <3>6. Parent(j) \in 0 .. heapsize - 1 /\ Parent(j) < j
      BY <1>1, <3>3, <3>5, ParentRight
    <3>7. due[heap[0]] <= due[heap[Parent(j)]]
      BY <1>1, <3>2, <3>3, <3>6
    <3>8. due[heap[Parent(j)]] <= due[heap[j]]
      BY <1>1, <3>3, <3>5 DEF HeapInv, IsHeap, Order
    <3>9. due[heap[Parent(j)]] \in Int
      BY <1>1, <3>6, TimesAreNumbers DEF Waiting
    <3> QED
      BY <3>3, <3>4, <3>7, <3>8, <3>9
  <2>2. PICK j \in DOMAIN heap : f = heap[j]
    BY DEF Waiting
  <2>3. j \notin T
    BY <2>1
  <2> QED
    BY <2>2, <2>3
<1>8. HeapPromise!TakeFirst
  <2>1. AbstractDue' = [f \in DOMAIN AbstractDue \ {heap[0]} |-> AbstractDue[f]]
    <3>1. AbstractDue' = [f \in Waiting' |-> due'[f]]
      BY DEF AbstractDue
    <3>2. \A f \in Waiting' : due'[f] = AbstractDue[f]
      BY <1>5 DEF AbstractDue
    <3> QED
      BY <1>5, <3>1, <3>2 DEF AbstractDue
  <2>2. heap[0] \in DOMAIN AbstractDue /\ \A f \in DOMAIN AbstractDue :
          AbstractDue[heap[0]] <= AbstractDue[f]
    BY <1>4, <1>7 DEF AbstractDue
  <2> QED
    BY <1>2, <2>1, <2>2 DEF HeapPromise!TakeFirst, HeapPromise!Without, AbstractDue
<1> QED
  BY <1>6, <1>8

\* An event that becomes free.
LEMMA FreeRight ==
  ASSUME HeapInv, NEW e \in Events, Free(e),
         \A k \in 1 .. Len(freeevents) : freeevents[k] # e
  PROVE  /\ freeevents' \in Seq(Events)
         /\ \A k, l \in 1 .. Len(freeevents') : freeevents'[k] = freeevents'[l] => k = l
         /\ \A k \in 1 .. Len(freeevents') :
              freeevents'[k] = e \/ \E l \in 1 .. Len(freeevents) : freeevents'[k] = freeevents[l]
<1>1. /\ freeevents \in Seq(Events) /\ freeevents' = <<e>> \o freeevents
      /\ \A k, l \in 1 .. Len(freeevents) : freeevents[k] = freeevents[l] => k = l
  BY DEF HeapInv, Free
<1>2. Len(freeevents') = Len(freeevents) + 1 /\ Len(freeevents) \in Nat
      /\ freeevents' \in Seq(Events)
  BY <1>1
<1>3. \A k \in 1 .. Len(freeevents') :
        freeevents'[k] = IF k = 1 THEN e ELSE freeevents[k - 1]
  BY <1>1, <1>2
<1>4. \A k \in 1 .. Len(freeevents') : k # 1 => k - 1 \in 1 .. Len(freeevents)
  BY <1>2
<1>5. ASSUME NEW k \in 1 .. Len(freeevents'), NEW l \in 1 .. Len(freeevents'),
             freeevents'[k] = freeevents'[l]
      PROVE  k = l
  <2>1. CASE k = 1 \/ l = 1
    BY <1>3, <1>4, <1>5, <2>1
  <2>2. CASE k # 1 /\ l # 1
    <3>1. k - 1 \in 1 .. Len(freeevents) /\ l - 1 \in 1 .. Len(freeevents)
      BY <1>4, <2>2
    <3>2. freeevents[k - 1] = freeevents[l - 1]
      BY <1>3, <1>5, <2>2
    <3>3. \A i, j \in 1 .. Len(freeevents) : freeevents[i] = freeevents[j] => i = j
      BY <1>1
    <3>4. k - 1 = l - 1
      BY <3>1, <3>2, <3>3
    <3> QED
      BY <3>4
  <2> QED
    BY <2>1, <2>2
<1> QED
  BY <1>2, <1>3, <1>4, <1>5

LEMMA DeadEventStep ==
  ASSUME HeapInv, check4deadevent
  PROVE  HeapInv' /\ HeapPromise!CallOff
<1>1. PICK e \in circles : /\ circles' = circles \ {e} /\ Free(e)
                           /\ eventheapdelete(heapposition[e])
  BY DEF check4deadevent
<1>2. nextevent' = nextevent
  BY DEF check4deadevent
<1>3. e \in Waiting /\ e \in Events
  BY <1>1, HeapIs DEF HeapInv
<1>4. heapposition[e] \in DOMAIN heap /\ heap[heapposition[e]] = e
  <2>1. PICK i \in DOMAIN heap : heap[i] = e
    BY <1>3 DEF Waiting
  <2>2. heapposition[e] = i
    BY <2>1 DEF HeapInv, PlacesKnown
  <2> QED
    BY <2>1, <2>2
<1>5. /\ (heapsize \in Nat)' /\ IsHeap(heap, heapsize, due)'
      /\ due' \in [Events -> Times \cup {0}] /\ PlacesKnown'
      /\ Waiting' = Waiting \ {e}
      /\ \A f \in Waiting' : due'[f] = due[f]
  BY <1>1, <1>4, DeleteStep
<1>6. /\ \A k \in 1 .. Len(freeevents) : freeevents[k] \notin Waiting /\ freeevents[k] # nextevent
      /\ circles \subseteq Waiting /\ nextevent \in (Events \ Waiting) \cup {Null}
  BY DEF HeapInv
<1>7. /\ freeevents' \in Seq(Events)
      /\ \A k, l \in 1 .. Len(freeevents') : freeevents'[k] = freeevents'[l] => k = l
      /\ \A k \in 1 .. Len(freeevents') :
           freeevents'[k] = e \/ \E l \in 1 .. Len(freeevents) : freeevents'[k] = freeevents[l]
  <2>1. \A k \in 1 .. Len(freeevents) : freeevents[k] # e
    BY <1>3, <1>6
  <2> QED
    BY <1>1, <1>3, <2>1, FreeRight
<1>8. e # nextevent
  BY <1>3, <1>6, NullIsNoEvent
<1>9. \A k \in 1 .. Len(freeevents') :
        freeevents'[k] \notin Waiting' /\ freeevents'[k] # nextevent'
  BY <1>2, <1>5, <1>6, <1>7, <1>8
<1>10. circles' \subseteq Waiting' /\ nextevent' \in (Events \ Waiting') \cup {Null}
  BY <1>1, <1>2, <1>5, <1>6
<1>11. HeapPromise!CallOff
  <2>1. AbstractDue' = [f \in DOMAIN AbstractDue \ {e} |-> AbstractDue[f]]
    <3>1. AbstractDue' = [f \in Waiting' |-> due'[f]]
      BY DEF AbstractDue
    <3>2. \A f \in Waiting' : due'[f] = AbstractDue[f]
      BY <1>5 DEF AbstractDue
    <3> QED
      BY <1>5, <3>1, <3>2 DEF AbstractDue
  <2>2. e \in DOMAIN AbstractDue
    BY <1>3 DEF AbstractDue
  <2> QED
    BY <1>2, <2>1, <2>2 DEF HeapPromise!CallOff, HeapPromise!Without, AbstractDue
<1> QED
  BY <1>5, <1>7, <1>9, <1>10, <1>11 DEF HeapInv

\* When the heap stays as it is, so do those that wait.
LEMMA HeapStays ==
  ASSUME heap' = heap, due' = due, heapposition' = heapposition, HeapInv
  PROVE  /\ (heapsize \in Nat)' /\ IsHeap(heap, heapsize, due)'
         /\ due' \in [Events -> Times \cup {0}] /\ PlacesKnown'
         /\ Waiting' = Waiting /\ AbstractDue' = AbstractDue
<1>1. heapsize' = heapsize /\ Waiting' = Waiting
  BY DEF heapsize, Waiting
<1>2. PlacesKnown'
  BY DEF PlacesKnown, HeapInv
<1>3. AbstractDue' = AbstractDue
  BY <1>1 DEF AbstractDue
<1> QED
  BY <1>1, <1>2, <1>3 DEF HeapInv

LEMMA FreeEventStep ==
  ASSUME HeapInv, FreeEvent
  PROVE  HeapInv' /\ HeapPromise!Finish
<1>1. /\ nextevent # Null /\ Free(nextevent) /\ nextevent' = Null
      /\ heap' = heap /\ due' = due /\ heapposition' = heapposition
      /\ circles' = circles
  BY DEF FreeEvent
<1>2. nextevent \in Events \ Waiting
  BY <1>1 DEF HeapInv
<1>3. /\ (heapsize \in Nat)' /\ IsHeap(heap, heapsize, due)'
      /\ due' \in [Events -> Times \cup {0}] /\ PlacesKnown'
      /\ Waiting' = Waiting /\ AbstractDue' = AbstractDue
  BY <1>1, HeapStays
<1>4. \A k \in 1 .. Len(freeevents) : freeevents[k] \notin Waiting /\ freeevents[k] # nextevent
  BY DEF HeapInv
<1>5. /\ freeevents' \in Seq(Events)
      /\ \A k, l \in 1 .. Len(freeevents') : freeevents'[k] = freeevents'[l] => k = l
      /\ \A k \in 1 .. Len(freeevents') :
           \/ freeevents'[k] = nextevent
           \/ \E l \in 1 .. Len(freeevents) : freeevents'[k] = freeevents[l]
  BY <1>1, <1>2, <1>4, FreeRight
<1>6. \A k \in 1 .. Len(freeevents') :
        freeevents'[k] \notin Waiting' /\ freeevents'[k] # nextevent'
  <2>1. ASSUME NEW k \in 1 .. Len(freeevents')
        PROVE  freeevents'[k] \notin Waiting' /\ freeevents'[k] # nextevent'
    <3>1. freeevents'[k] \in Events
      BY <1>5
    <3>2. freeevents'[k] \notin Waiting
      BY <1>2, <1>4, <1>5
    <3> QED
      BY <1>1, <1>3, <3>1, <3>2, NullIsNoEvent
  <2> QED
    BY <2>1
<1>7. circles' \subseteq Waiting' /\ nextevent' \in (Events \ Waiting') \cup {Null}
  BY <1>1, <1>3 DEF HeapInv
<1>8. HeapPromise!Finish
  BY <1>1, <1>3 DEF HeapPromise!Finish, AbstractDue
<1> QED
  BY <1>3, <1>5, <1>6, <1>7, <1>8 DEF HeapInv

LEMMA NewCircleStep ==
  ASSUME HeapInv, NewCircle
  PROVE  HeapInv' /\ HeapPromise!Add
<1> DEFINE e == Head(freeevents)
<1>1. /\ nextevent = Null /\ freeevents # << >> /\ nextevent' = nextevent
      /\ freeevents' = Tail(freeevents) /\ circles' = circles \cup {e} /\ eventheapinsert(e)
  BY DEF NewCircle
<1>2. PICK t \in Times : due' = [due EXCEPT ![e] = t]
  BY DEF NewCircle
<1>3. /\ freeevents \in Seq(Events) /\ circles \subseteq Waiting
      /\ \A k, l \in 1 .. Len(freeevents) : freeevents[k] = freeevents[l] => k = l
      /\ \A k \in 1 .. Len(freeevents) : freeevents[k] \notin Waiting /\ freeevents[k] # nextevent
  BY DEF HeapInv
<1>4. /\ Len(freeevents) \in Nat \ {0} /\ e = freeevents[1] /\ e \in Events
      /\ freeevents' \in Seq(Events) /\ Len(freeevents') = Len(freeevents) - 1
      /\ \A k \in 1 .. Len(freeevents') : freeevents'[k] = freeevents[k + 1]
  BY <1>1, <1>3
<1>5. 1 \in 1 .. Len(freeevents)
  BY <1>4
<1>6. e \notin Waiting
  BY <1>3, <1>4, <1>5
<1>7. \A k \in 1 .. Len(freeevents') : k + 1 \in 1 .. Len(freeevents) /\ k + 1 # 1
  BY <1>4
<1> HIDE DEF e
<1>8. /\ (heapsize \in Nat)' /\ IsHeap(heap, heapsize, due)'
      /\ due' \in [Events -> Times \cup {0}] /\ PlacesKnown'
      /\ Waiting' = Waiting \cup {e}
      /\ due'[e] = t /\ \A f \in Waiting : due'[f] = due[f]
  BY <1>1, <1>2, <1>4, <1>6, InsertStep
<1>9. \A k, l \in 1 .. Len(freeevents') : freeevents'[k] = freeevents'[l] => k = l
  <2>1. ASSUME NEW k \in 1 .. Len(freeevents'), NEW l \in 1 .. Len(freeevents'),
               freeevents'[k] = freeevents'[l]
        PROVE  k = l
    <3>1. k + 1 = l + 1
      BY <1>3, <1>4, <1>7, <2>1
    <3> QED
      BY <3>1
  <2> QED
    BY <2>1
<1>10. \A k \in 1 .. Len(freeevents') :
         freeevents'[k] \notin Waiting' /\ freeevents'[k] # nextevent'
  <2>1. ASSUME NEW k \in 1 .. Len(freeevents')
        PROVE  freeevents'[k] \notin Waiting' /\ freeevents'[k] # nextevent'
    <3>1. freeevents'[k] \notin Waiting /\ freeevents'[k] # nextevent
      BY <1>3, <1>4, <1>7
    <3>2. freeevents'[k] # e
      BY <1>3, <1>4, <1>5, <1>7
    <3> QED
      BY <1>1, <1>8, <3>1, <3>2
  <2> QED
    BY <2>1
<1>11. circles' \subseteq Waiting' /\ nextevent' \in (Events \ Waiting') \cup {Null}
  BY <1>1, <1>3, <1>8
<1>12. HeapPromise!Add
  <2>1. AbstractDue' = [f \in DOMAIN AbstractDue \cup {e} |->
                          IF f = e THEN t ELSE AbstractDue[f]]
    <3>1. AbstractDue' = [f \in Waiting' |-> due'[f]]
      BY DEF AbstractDue
    <3>2. \A f \in Waiting' : due'[f] = IF f = e THEN t ELSE AbstractDue[f]
      BY <1>8 DEF AbstractDue
    <3>3. DOMAIN AbstractDue = Waiting
      BY DEF AbstractDue
    <3> QED
      BY <1>8, <3>1, <3>2, <3>3
  <2>2. e \in Events \ (DOMAIN AbstractDue \cup {nextevent})
    BY <1>1, <1>4, <1>6, NullIsNoEvent DEF AbstractDue
  <2> QED
    BY <1>1, <2>1, <2>2 DEF HeapPromise!Add, AbstractDue
<1> QED
  BY <1>4, <1>8, <1>9, <1>10, <1>11, <1>12 DEF HeapInv

LEMMA HeapStep ==
  ASSUME HeapInv, [HeapNext]_heapVars
  PROVE  HeapInv' /\ [HeapPromise!Next]_(HeapPromise!vars)
<1>1. CASE NextEvent
  BY <1>1, NextEventStep DEF HeapPromise!Next
<1>2. CASE check4deadevent
  BY <1>2, DeadEventStep DEF HeapPromise!Next
<1>3. CASE FreeEvent
  BY <1>3, FreeEventStep DEF HeapPromise!Next
<1>4. CASE NewCircle
  BY <1>4, NewCircleStep DEF HeapPromise!Next
<1>5. CASE UNCHANGED heapVars
  <2>1. /\ heap' = heap /\ due' = due /\ heapposition' = heapposition
        /\ freeevents' = freeevents /\ circles' = circles /\ nextevent' = nextevent
    BY <1>5 DEF heapVars
  <2>2. /\ (heapsize \in Nat)' /\ IsHeap(heap, heapsize, due)'
        /\ due' \in [Events -> Times \cup {0}] /\ PlacesKnown'
        /\ Waiting' = Waiting /\ AbstractDue' = AbstractDue
    BY <2>1, HeapStays
  <2>3. HeapInv'
    BY <2>1, <2>2 DEF HeapInv
  <2>4. UNCHANGED HeapPromise!vars
    BY <2>1, <2>2 DEF HeapPromise!vars, AbstractDue
  <2> QED
    BY <2>3, <2>4
<1> QED
  BY <1>1, <1>2, <1>3, <1>4, <1>5 DEF HeapNext

\* The heap's order, the places that its events know, and where every event
\* is: these hold always (triangle.c:10258-10268, 10316-10318, 10349-10368).
THEOREM HeapAlwaysRight == HeapSpec => []HeapInv
<1>1. HeapInv /\ [HeapNext]_heapVars => HeapInv'
  BY HeapStep
<1> QED
  BY <1>1, HeapInitially, PTL DEF HeapSpec

\* The event heap gives the sweep always the event that is due first, and an
\* event that is called off is found by the place it knows, and no other goes
\* in its stead (triangle.c:10258, 10316, 10504-10508, 10349-10364).
THEOREM ImplementsEventQueue == HeapSpec => IsEventQueue
<1>1. InitHeap => HeapPromise!Init
  <2>1. ASSUME InitHeap PROVE HeapPromise!Init
    <3>1. HeapInv /\ nextevent = Null
      BY <2>1, HeapInitially DEF InitHeap
    <3>2. Waiting \in SUBSET Events /\ AbstractDue \in [Waiting -> Times]
      BY <3>1, HeapIs DEF AbstractDue
    <3> QED
      BY <3>1, <3>2 DEF HeapPromise!Init, AbstractDue
  <2> QED
    BY <2>1
<1>2. HeapInv /\ [HeapNext]_heapVars => [HeapPromise!Next]_(HeapPromise!vars)
  BY HeapStep
<1>3. HeapInv => InOrder /\ PlacesKnown
  <2>1. ASSUME HeapInv PROVE InOrder
    <3>1. heapsize \in Nat /\ DOMAIN heap = 0 .. heapsize - 1
      BY <2>1, HeapIs
    <3>2. \A i \in DOMAIN heap : i > 0 => i \in 1 .. heapsize - 1
      BY <3>1
    <3> QED
      BY <2>1, <3>2 DEF HeapInv, IsHeap, Order, InOrder
  <2> QED
    BY <2>1 DEF HeapInv
<1> QED
  BY <1>1, <1>2, <1>3, HeapAlwaysRight, PTL DEF HeapSpec, IsEventQueue, HeapPromise!Spec
=============================================================================
