-------------------------- MODULE VertexSortProofs --------------------------
(***************************************************************************)
(* Proofs about quicksort and the median search, for arrays of every size  *)
(* and with any choice of the pivots: they stay in their parts of the      *)
(* array, lose no vertex, and in the end have sorted or halved it.         *)
(*                                                                         *)
(* Every call has a part of the array to itself.  What is in a part        *)
(* belongs there: nothing before it is larger, nothing after it smaller.   *)
(* So a call may move its vertices as it likes, and when its part has been *)
(* split, two of its vertices are in order unless they are in one half.    *)
(***************************************************************************)
EXTENDS VertexSort, Functions, SequenceTheorems, FiniteSetTheorems,
        WellFoundedInduction, TLAPS

CallSet == [first : 0 .. Size, size : 2 .. Size, median : 0 .. Size]
Part(call) == call.first .. call.first + call.size - 1

ArrayInv ==
  /\ given \in [0 .. Size - 1 -> Places]
  /\ Size \in Nat
  /\ sortarray \in [0 .. Size - 1 -> Places]
  /\ median \in 0 .. Size - 1
  /\ doing \in {"begin", "split"}
  /\ left \in Int /\ right \in Int

\* The calls' parts come one after the other...
Follow(cs) ==
  \A k, l \in 1 .. Len(cs) : k < l => cs[k].first + cs[k].size <= cs[l].first

\* ...and have at least two vertices each.
Apart(cs) ==
  /\ cs \in Seq(CallSet)
  /\ \A k \in 1 .. Len(cs) : cs[k].first + cs[k].size <= Size
  /\ Follow(cs)

\* Their parts are in that of another.
Within(cs, call) ==
  \A k \in 1 .. Len(cs) : /\ call.first <= cs[k].first
                          /\ cs[k].first + cs[k].size <= call.first + call.size

\* The median search makes one call at most, and the place where it has to
\* halve the array is in the call's part.
Halves(cs) ==
  IF median = 0 THEN \A k \in 1 .. Len(cs) : cs[k].median = 0
  ELSE /\ Len(cs) <= 1
       /\ \A k \in 1 .. Len(cs) : /\ cs[k].median \in 1 .. cs[k].size - 1
                                  /\ cs[k].first + cs[k].median = median

\* Nothing before the n vertices from f on is larger than one of them, and
\* nothing after them, in the array of N, is smaller.
Belong(array, f, n, N) ==
  \A x \in f .. f + n - 1 : /\ \A i \in 0 .. f - 1 : array[i] <= array[x]
                            /\ \A j \in f + n .. N - 1 : array[x] <= array[j]

\* What is in a part belongs there.
InPlace(array, cs) == \A k \in 1 .. Len(cs) : Belong(array, cs[k].first, cs[k].size, Size)

\* Two vertices that have to be in order.
Ordered(i, j) == i < j /\ (median = 0 \/ (i < median /\ median <= j))

\* They are in order unless a call still has them both.
InOrder(array, cs) ==
  \A i, j \in 0 .. Size - 1 :
    Ordered(i, j) => \/ array[i] <= array[j]
                     \/ \E k \in 1 .. Len(cs) : i \in Part(cs[k]) /\ j \in Part(cs[k])

\* How far a part is split: what the left search has passed is no larger than
\* the pivot, what the right one has passed is no smaller, and something is
\* left that stops them.
SplitInv ==
  doing = "split" =>
    /\ Len(calls) > 0 /\ pivot \in Places
    /\ IF left < right
       THEN \/ /\ left = -1 /\ right = Running.size
               /\ \E i \in 0 .. Running.size - 1 : At(i) = pivot
            \/ /\ 0 <= left /\ right < Running.size
               /\ \A i \in 0 .. left : At(i) <= pivot
               /\ \A i \in right .. Running.size - 1 : At(i) >= pivot
       ELSE /\ 0 <= right /\ left <= right + 1 /\ left < Running.size
            /\ \A i \in 0 .. right : At(i) <= pivot
            /\ \A i \in left .. Running.size - 1 : At(i) >= pivot

NoneLost == \A q \in Places : Count(sortarray, q) = Count(given, q)

SortInv ==
  /\ ArrayInv /\ Apart(calls) /\ Halves(calls)
  /\ InPlace(sortarray, calls) /\ InOrder(sortarray, calls)
  /\ SplitInv
  /\ NoneLost

(***************************************************************************)
(* The least and the greatest of a set of numbers, for the searches.       *)
(***************************************************************************)
LEMMA LeastNat ==
  ASSUME NEW T \in SUBSET Nat, T # {}
  PROVE  \E n \in T : \A m \in T : n <= m
<1> DEFINE Upto == {0 .. n : n \in T}
<1>1. Upto \subseteq FiniteSubsetsOf(Nat)
  <2>1. ASSUME NEW n \in T PROVE IsFiniteSet(0 .. n) /\ 0 .. n \in SUBSET Nat
    BY FS_Interval
  <2> QED
    BY <2>1 DEF FiniteSubsetsOf
<1>2. Upto # {}
  OBVIOUS
<1>3. PICK U \in Upto : \A V \in Upto : <<V, U>> \notin StrictSubsetOrdering(Nat)
  BY <1>1, <1>2, FS_StrictSubsetOrderingWellFounded, WFMin
<1>4. PICK n \in T : U = 0 .. n
  OBVIOUS
<1>5. \A m \in T : m < n => 0 .. m \in SUBSET (0 .. n) /\ 0 .. m # 0 .. n
  OBVIOUS
<1>6. \A m \in T : m < n => <<0 .. m, 0 .. n>> \in StrictSubsetOrdering(Nat)
  BY <1>5 DEF StrictSubsetOrdering
<1>7. \A m \in T : <<0 .. m, 0 .. n>> \notin StrictSubsetOrdering(Nat)
  BY <1>3, <1>4
<1>8. \A m \in T : ~(m < n)
  BY <1>6, <1>7
<1> QED
  BY <1>8

LEMMA LeastFrom ==
  ASSUME NEW lo \in Int, NEW hi \in Int, NEW T \in SUBSET (lo .. hi), T # {}
  PROVE  \E i \in T : \A j \in T : i <= j
<1> DEFINE U == {i - lo : i \in T}
<1>1. U \in SUBSET Nat /\ U # {}
  OBVIOUS
<1>2. PICK n \in U : \A m \in U : n <= m
  BY <1>1, LeastNat
<1>3. PICK i \in T : n = i - lo
  OBVIOUS
<1>4. \A j \in T : i - lo <= j - lo
  BY <1>2, <1>3
<1> QED
  BY <1>4

LEMMA GreatestTo ==
  ASSUME NEW lo \in Int, NEW hi \in Int, NEW T \in SUBSET (lo .. hi), T # {}
  PROVE  \E i \in T : \A j \in T : j <= i
<1> DEFINE U == {hi - i : i \in T}
<1>1. U \in SUBSET Nat /\ U # {}
  <2>1. \A i \in T : i \in Int /\ i <= hi
    OBVIOUS
  <2>2. \A i \in T : hi - i \in Nat
    BY <2>1
  <2> QED
    BY <2>2
<1>2. PICK n \in U : \A m \in U : n <= m
  BY <1>1, LeastNat
<1>3. PICK i \in T : n = hi - i
  OBVIOUS
<1>4. \A j \in T : hi - i <= hi - j
  BY <1>2, <1>3
<1> QED
  BY <1>4

(***************************************************************************)
(* A swap.                                                                 *)
(***************************************************************************)
LEMMA SwapLooks ==
  ASSUME NEW N \in Nat, NEW a \in [0 .. N - 1 -> Places],
         NEW x \in 0 .. N - 1, NEW y \in 0 .. N - 1,
         NEW b, b = [a EXCEPT ![x] = a[y], ![y] = a[x]]
  PROVE  /\ b \in [0 .. N - 1 -> Places]
         /\ b[x] = a[y] /\ b[y] = a[x]
         /\ \A i \in 0 .. N - 1 : i # x /\ i # y => b[i] = a[i]
OBVIOUS

\* b is a, with what is at x and y swapped.
Swapped(a, b, x, y, N) ==
  /\ b[x] = a[y] /\ b[y] = a[x]
  /\ \A k \in 0 .. N - 1 : k # x /\ k # y => b[k] = a[k]

LEMMA SwapCounts ==
  ASSUME NEW N \in Nat, NEW a \in [0 .. N - 1 -> Places],
         NEW b \in [0 .. N - 1 -> Places],
         NEW x \in 0 .. N - 1, NEW y \in 0 .. N - 1,
         Swapped(a, b, x, y, N), NEW q
  PROVE  Count(b, q) = Count(a, q)
<1> USE DEF Swapped
<1> DEFINE S == {i \in 0 .. N - 1 : a[i] = q}
           T == {i \in 0 .. N - 1 : b[i] = q}
           s(i) == IF i = x THEN y ELSE IF i = y THEN x ELSE i
           f == [i \in S |-> s(i)]
<1>1. \A i \in 0 .. N - 1 : s(i) \in 0 .. N - 1 /\ s(s(i)) = i /\ b[s(i)] = a[i]
  OBVIOUS
<1>2. DOMAIN a = 0 .. N - 1 /\ DOMAIN b = 0 .. N - 1
  OBVIOUS
<1> HIDE DEF s
<1>3. f \in [S -> T]
  BY <1>1
<1>4. \A i, j \in S : f[i] = f[j] => i = j
  BY <1>1
<1>5. \A t \in T : \E i \in S : f[i] = t
  <2> SUFFICES ASSUME NEW t \in T PROVE s(t) \in S /\ f[s(t)] = t
    OBVIOUS
  <2>1. s(t) \in 0 .. N - 1 /\ s(s(t)) = t
    BY <1>1
  <2>2. b[s(s(t))] = a[s(t)]
    BY <1>1, <2>1
  <2> QED
    BY <2>1, <2>2
<1>6. f \in Bijection(S, T)
  BY <1>3, <1>4, <1>5 DEF Bijection, Injection, Surjection, IsInjective
<1>7. IsFiniteSet(S)
  <2>1. IsFiniteSet(0 .. N - 1) /\ S \in SUBSET (0 .. N - 1)
    BY FS_Interval
  <2> QED
    BY <2>1, FS_Subset
<1>8. Cardinality(T) = Cardinality(S)
  BY <1>6, <1>7, FS_Bijection DEF ExistsBijection
<1> QED
  BY <1>2, <1>8 DEF Count


(***************************************************************************)
(* A swap in the part of n vertices from f on leaves everything where it   *)
(* belongs: what the array then has at z it had at w before, which is in   *)
(* the part when z is, and is z when it is not.                            *)
(***************************************************************************)
Shuffled(a, b, f, n, N) ==
  \A z \in 0 .. N - 1 : \E w \in 0 .. N - 1 :
    /\ b[z] = a[w]
    /\ f <= z /\ z < f + n => f <= w /\ w < f + n
    /\ z < f \/ f + n <= z => w = z

LEMMA SwapShuffles ==
  ASSUME NEW N \in Nat, NEW f \in Nat, NEW n \in Nat, f + n <= N, NEW a, NEW b,
         NEW x \in f .. f + n - 1, NEW y \in f .. f + n - 1,
         b[x] = a[y], b[y] = a[x],
         \A k \in 0 .. N - 1 : k # x /\ k # y => b[k] = a[k]
  PROVE  Shuffled(a, b, f, n, N)
<1> SUFFICES ASSUME NEW z \in 0 .. N - 1
             PROVE  \E w \in 0 .. N - 1 :
                      /\ b[z] = a[w]
                      /\ f <= z /\ z < f + n => f <= w /\ w < f + n
                      /\ z < f \/ f + n <= z => w = z
  BY DEF Shuffled
<1>1. x \in 0 .. N - 1 /\ y \in 0 .. N - 1
  OBVIOUS
<1>2. CASE z = x
  BY <1>1, <1>2
<1>3. CASE z = y
  BY <1>1, <1>3
<1>4. CASE z # x /\ z # y
  BY <1>4
<1> QED
  BY <1>2, <1>3, <1>4

LEMMA ShuffledBelong ==
  ASSUME NEW N \in Nat, NEW f \in Nat, NEW n \in Nat, f + n <= N, NEW a, NEW b,
         Shuffled(a, b, f, n, N),
         NEW c \in Nat, NEW s \in Nat, c + s <= N, (c = f /\ s = n) \/ f + n <= c,
         Belong(a, c, s, N)
  PROVE  Belong(b, c, s, N)
<1> SUFFICES ASSUME NEW z \in c .. c + s - 1
             PROVE  /\ \A i \in 0 .. c - 1 : b[i] <= b[z]
                    /\ \A j \in c + s .. N - 1 : b[z] <= b[j]
  BY DEF Belong
<1>1. PICK w \in 0 .. N - 1 : /\ b[z] = a[w]
                              /\ f <= z /\ z < f + n => f <= w /\ w < f + n
                              /\ z < f \/ f + n <= z => w = z
  BY DEF Shuffled
<1>2. w \in c .. c + s - 1
  BY <1>1
<1>3. ASSUME NEW i \in 0 .. c - 1 PROVE b[i] <= b[z]
  <2>1. PICK v \in 0 .. N - 1 : /\ b[i] = a[v]
                                /\ f <= i /\ i < f + n => f <= v /\ v < f + n
                                /\ i < f \/ f + n <= i => v = i
    BY DEF Shuffled
  <2>2. v \in 0 .. c - 1
    BY <2>1
  <2> QED
    BY <1>1, <1>2, <2>1, <2>2 DEF Belong
<1>4. ASSUME NEW j \in c + s .. N - 1 PROVE b[z] <= b[j]
  <2>1. f + n <= j
    OBVIOUS
  <2>2. b[j] = a[j]
    BY <2>1 DEF Shuffled
  <2> QED
    BY <1>1, <1>2, <2>2 DEF Belong
<1> QED
  BY <1>3, <1>4

LEMMA ShuffledInOrder ==
  ASSUME NEW N \in Nat, NEW f \in Nat, NEW n \in Nat, f + n <= N, NEW a, NEW b,
         Shuffled(a, b, f, n, N), Belong(a, f, n, N),
         NEW l \in 0 .. N - 1, NEW m \in 0 .. N - 1, l < m, a[l] <= a[m],
         ~(l \in f .. f + n - 1 /\ m \in f .. f + n - 1)
  PROVE  b[l] <= b[m]
<1>1. CASE l \in f .. f + n - 1
  <2>1. f + n <= m
    BY <1>1
  <2>2. b[m] = a[m]
    BY <2>1 DEF Shuffled
  <2>3. PICK w \in 0 .. N - 1 : b[l] = a[w] /\ f <= w /\ w < f + n
    BY <1>1 DEF Shuffled
  <2> QED
    BY <2>1, <2>2, <2>3 DEF Belong
<1>2. CASE m \in f .. f + n - 1
  <2>1. l < f
    BY <1>2
  <2>2. b[l] = a[l]
    BY <2>1 DEF Shuffled
  <2>3. PICK w \in 0 .. N - 1 : b[m] = a[w] /\ f <= w /\ w < f + n
    BY <1>2 DEF Shuffled
  <2> QED
    BY <2>1, <2>2, <2>3 DEF Belong
<1>3. CASE l \notin f .. f + n - 1 /\ m \notin f .. f + n - 1
  <2>1. b[l] = a[l] /\ b[m] = a[m]
    BY <1>3 DEF Shuffled
  <2> QED
    BY <2>1
<1> QED
  BY <1>1, <1>2, <1>3

LEMMA CallsBounded ==
  ASSUME NEW cs, Apart(cs)
  PROVE  /\ Len(cs) \in Nat
         /\ \A k \in 1 .. Len(cs) : /\ cs[k] \in CallSet
                                    /\ cs[k].first \in Nat /\ cs[k].size \in Nat
                                    /\ cs[k].size >= 2
                                    /\ cs[k].first + cs[k].size <= Size
<1>1. Len(cs) \in Nat /\ \A k \in 1 .. Len(cs) : cs[k] \in CallSet
  BY DEF Apart
<1> QED
  BY <1>1 DEF Apart, CallSet

\* So it is with a swap in the running call's part.
LEMMA SwapKeeps ==
  ASSUME Apart(calls), Len(calls) > 0, Size \in Nat,
         InPlace(sortarray, calls), InOrder(sortarray, calls),
         NEW b, Shuffled(sortarray, b, Running.first, Running.size, Size)
  PROVE  InPlace(b, calls) /\ InOrder(b, calls)
<1>1. /\ 1 \in 1 .. Len(calls)
      /\ \A k \in 1 .. Len(calls) : /\ calls[k].first \in Nat /\ calls[k].size \in Nat
                                    /\ calls[k].first + calls[k].size <= Size
  BY CallsBounded
<1>2. \A k \in 1 .. Len(calls) : k = 1 \/ Running.first + Running.size <= calls[k].first
  BY <1>1 DEF Apart, Follow, Running
<1>3. /\ Running.first \in Nat /\ Running.size \in Nat
      /\ Running.first + Running.size <= Size
      /\ Part(calls[1]) = Running.first .. Running.first + Running.size - 1
      /\ Belong(sortarray, Running.first, Running.size, Size)
  BY <1>1 DEF Running, Part, InPlace
<1>4. ASSUME NEW k \in 1 .. Len(calls)
      PROVE  Belong(b, calls[k].first, calls[k].size, Size)
  <2>1. Belong(sortarray, calls[k].first, calls[k].size, Size)
    BY DEF InPlace
  <2>2. \/ calls[k].first = Running.first /\ calls[k].size = Running.size
        \/ Running.first + Running.size <= calls[k].first
    BY <1>2 DEF Running
  <2> QED
    BY <1>1, <1>3, <2>1, <2>2, ShuffledBelong, SMTT(30)
<1>5. ASSUME NEW l \in 0 .. Size - 1, NEW m \in 0 .. Size - 1, Ordered(l, m),
             \A k \in 1 .. Len(calls) : ~(l \in Part(calls[k]) /\ m \in Part(calls[k]))
      PROVE  b[l] <= b[m]
  <2>1. l < m
    BY <1>5 DEF Ordered
  <2>2. sortarray[l] <= sortarray[m]
    BY <1>5 DEF InOrder
  <2>3. ~(/\ l \in Running.first .. Running.first + Running.size - 1
          /\ m \in Running.first .. Running.first + Running.size - 1)
    BY <1>1, <1>3, <1>5
  <2> QED
    BY <1>3, <2>1, <2>2, <2>3, ShuffledInOrder
<1>6. InPlace(b, calls)
  BY <1>4 DEF InPlace
<1>7. InOrder(b, calls)
  BY <1>5 DEF InOrder
<1> QED
  BY <1>6, <1>7

(***************************************************************************)
(* A call that ends or makes others.                                       *)
(***************************************************************************)
LEMMA TwoCalls ==
  ASSUME NEW S, NEW c \in S, NEW d \in S
  PROVE  /\ <<c>> \o <<d>> \in Seq(S) /\ Len(<<c>> \o <<d>>) = 2
         /\ (<<c>> \o <<d>>)[1] = c /\ (<<c>> \o <<d>>)[2] = d
OBVIOUS

\* The running call is replaced by new ones.
Replaced(cs, new) ==
  /\ cs \in Seq(CallSet) /\ Len(cs) = Len(new) + (Len(calls) - 1)
  /\ \A k \in 1 .. Len(new) : cs[k] = new[k]
  /\ \A k \in 2 .. Len(calls) : cs[Len(new) + (k - 1)] = calls[k]

LEMMA ReplacesCall ==
  ASSUME Apart(calls), Len(calls) > 0, NEW new \in Seq(CallSet)
  PROVE  Replaced(new \o Tail(calls), new)
<1> DEFINE t == Tail(calls)
           c == Len(calls)
           cs == new \o t
<1>1. t \in Seq(CallSet) /\ c \in Nat /\ Len(t) = c - 1
      /\ \A k \in 1 .. c - 1 : t[k] = calls[k + 1]
  <2>1. calls \in Seq(CallSet) /\ calls # << >>
    BY EmptySeq DEF Apart
  <2> QED
    BY <2>1, HeadTailProperties
<1> HIDE DEF t
<1>2. /\ cs \in Seq(CallSet) /\ Len(new) \in Nat /\ Len(cs) = Len(new) + (c - 1)
      /\ \A k \in 1 .. Len(new) + (c - 1) :
           cs[k] = IF k <= Len(new) THEN new[k] ELSE t[k - Len(new)]
  <2>1. /\ cs \in Seq(CallSet) /\ Len(cs) = Len(new) + Len(t)
        /\ \A k \in 1 .. Len(new) + Len(t) :
             cs[k] = IF k <= Len(new) THEN new[k] ELSE t[k - Len(new)]
    BY <1>1, ConcatProperties
  <2> HIDE DEF cs
  <2> QED
    BY <1>1, <2>1
<1> HIDE DEF cs
<1> DEFINE n == Len(new)
<1>3. /\ n \in Nat /\ c \in Nat
      /\ \A k \in 1 .. n + (c - 1) : cs[k] = IF k <= n THEN new[k] ELSE t[k - n]
  BY <1>1, <1>2
<1> HIDE DEF n, c
<1>4. ASSUME NEW k \in 1 .. n, c > 0 PROVE cs[k] = new[k]
  <2>1. k \in 1 .. n + (c - 1) /\ k <= n
    BY <1>3, <1>4
  <2> QED
    BY <1>3, <2>1
<1>5. ASSUME NEW k \in 2 .. c PROVE cs[n + (k - 1)] = calls[k]
  <2>1. /\ n + (k - 1) \in 1 .. n + (c - 1) /\ ~(n + (k - 1) <= n)
        /\ (n + (k - 1)) - n = k - 1
    BY <1>3
  <2>2. cs[n + (k - 1)] = t[k - 1]
    BY <1>3, <2>1
  <2>3. k - 1 \in 1 .. c - 1 /\ (k - 1) + 1 = k
    BY <1>3
  <2> QED
    BY <1>1, <2>2, <2>3
<1> QED
  BY <1>2, <1>4, <1>5 DEF Replaced, cs, t, n, c

LEMMA ReplacedLooks ==
  ASSUME Len(calls) \in Nat, Len(calls) > 0, NEW new, Len(new) \in Nat,
         NEW cs, Replaced(cs, new), NEW k \in 1 .. Len(cs)
  PROVE  \/ k \in 1 .. Len(new) /\ cs[k] = new[k]
         \/ /\ k \in Len(new) + 1 .. Len(cs) /\ k - Len(new) + 1 \in 2 .. Len(calls)
            /\ cs[k] = calls[k - Len(new) + 1]
<1>1. Len(cs) = Len(new) + (Len(calls) - 1)
  BY DEF Replaced
<1>2. CASE k \in 1 .. Len(new)
  BY <1>2 DEF Replaced
<1>3. CASE k \notin 1 .. Len(new)
  <2> DEFINE m == k - Len(new) + 1
  <2>1. m \in 2 .. Len(calls) /\ Len(new) + (m - 1) = k
    BY <1>1, <1>3
  <2>2. cs[Len(new) + (m - 1)] = calls[m]
    BY <2>1 DEF Replaced
  <2> QED
    BY <1>1, <1>3, <2>1, <2>2
<1> QED
  BY <1>2, <1>3

\* New calls on parts of the running one's keep all parts apart.
LEMMA ReplacedApart ==
  ASSUME Size \in Nat, Apart(calls), Len(calls) > 0,
         NEW new \in Seq(CallSet), Within(new, Running), Follow(new),
         NEW cs, Replaced(cs, new)
  PROVE  Apart(cs)
<1> DEFINE n == Len(new)
           c == Len(calls)
           End(call) == call.first + call.size
<1>1. c \in Nat /\ n \in Nat
  BY CallsBounded
<1>2. \A k \in 1 .. Len(cs) :
        \/ k \in 1 .. n /\ cs[k] = new[k]
        \/ /\ k \in n + 1 .. Len(cs) /\ k - n + 1 \in 2 .. c
           /\ cs[k] = calls[k - n + 1]
  BY <1>1, ReplacedLooks
<1>3. cs \in Seq(CallSet)
  BY DEF Replaced
<1>4. \A k \in 1 .. Len(cs) : cs[k].first \in Nat /\ cs[k].size \in Nat /\ End(cs[k]) \in Nat
  <2>1. \A k \in 1 .. Len(cs) : cs[k] \in CallSet
    BY <1>3
  <2> QED
    BY <2>1 DEF CallSet
<1>5. \A k \in 1 .. c : /\ calls[k].first \in Nat /\ calls[k].size \in Nat
                        /\ End(calls[k]) <= Size /\ End(calls[k]) \in Nat
  BY CallsBounded
<1>6. \A k, l \in 1 .. c : k < l => End(calls[k]) <= calls[l].first
  BY DEF Apart, Follow
<1>7. \A k, l \in 1 .. n : k < l => End(new[k]) <= new[l].first
  BY DEF Follow
<1>8. \A k \in 1 .. n : End(new[k]) <= End(calls[1])
  BY DEF Within, Running
<1> HIDE DEF End, n, c
<1>9. 1 \in 1 .. c
  BY <1>1 DEF c
<1>10. ASSUME NEW k \in 1 .. Len(cs) PROVE End(cs[k]) <= Size
  <2>1. CASE k \in 1 .. n /\ cs[k] = new[k]
    <3>1. End(new[k]) <= End(calls[1]) /\ End(calls[1]) <= Size /\ End(calls[1]) \in Nat
      BY <1>5, <1>8, <1>9, <2>1
    <3>2. End(new[k]) \in Nat
      BY <1>4, <2>1
    <3> QED
      BY <2>1, <3>1, <3>2
  <2>2. CASE k - n + 1 \in 2 .. c /\ cs[k] = calls[k - n + 1]
    <3>1. k - n + 1 \in 1 .. c
      BY <2>2
    <3> QED
      BY <1>5, <2>2, <3>1
  <2> QED
    BY <1>2, <2>1, <2>2
<1>11. ASSUME NEW k \in 1 .. Len(cs), NEW l \in 1 .. Len(cs), k < l
       PROVE  End(cs[k]) <= cs[l].first
  <2>1. CASE k \in 1 .. n /\ cs[k] = new[k] /\ l \in 1 .. n /\ cs[l] = new[l]
    BY <1>7, <1>11, <2>1
  <2>2. CASE /\ k \in 1 .. n /\ cs[k] = new[k]
             /\ l - n + 1 \in 2 .. c /\ cs[l] = calls[l - n + 1]
    <3>1. l - n + 1 \in 1 .. c /\ 1 < l - n + 1
      BY <2>2
    <3>2. End(calls[1]) <= cs[l].first
      BY <1>6, <1>9, <2>2, <3>1
    <3>3. End(cs[k]) <= End(calls[1])
      BY <1>8, <2>2
    <3>4. End(cs[k]) \in Nat /\ End(calls[1]) \in Nat /\ cs[l].first \in Nat
      BY <1>4, <1>5, <1>9
    <3> QED
      BY <3>2, <3>3, <3>4
  <2>3. CASE /\ k - n + 1 \in 2 .. c /\ cs[k] = calls[k - n + 1]
             /\ l - n + 1 \in 2 .. c /\ cs[l] = calls[l - n + 1]
    <3>1. k - n + 1 \in 1 .. c /\ l - n + 1 \in 1 .. c /\ k - n + 1 < l - n + 1
      BY <1>1, <1>11, <2>3
    <3> QED
      BY <1>6, <2>3, <3>1
  <2>4. ~(k \in n + 1 .. Len(cs) /\ l \in 1 .. n)
    BY <1>1, <1>11 DEF n
  <2> QED
    BY <1>2, <2>1, <2>2, <2>3, <2>4
<1> QED
  BY <1>3, <1>10, <1>11 DEF Apart, Follow, End

\* The vertices of the running call are in order, but for two in the part of
\* a new call.
Settled(array, new) ==
  \A l, m \in Part(Running) :
    Ordered(l, m) =>
      \/ array[l] <= array[m]
      \/ \E k \in 1 .. Len(new) : l \in Part(new[k]) /\ m \in Part(new[k])

LEMMA ReplacedInOrder ==
  ASSUME Size \in Nat, Apart(calls), Len(calls) > 0,
         NEW new, Len(new) \in Nat, NEW cs, Replaced(cs, new),
         NEW array, InPlace(array, calls), InOrder(array, calls), InPlace(array, new),
         Settled(array, new)
  PROVE  InPlace(array, cs) /\ InOrder(array, cs)
<1>1. Len(calls) \in Nat /\ Len(cs) = Len(new) + (Len(calls) - 1)
  BY CallsBounded DEF Replaced
<1>2. InPlace(array, cs)
  <2> SUFFICES ASSUME NEW m \in 1 .. Len(cs)
               PROVE  Belong(array, cs[m].first, cs[m].size, Size)
    BY DEF InPlace
  <2>1. CASE m \in 1 .. Len(new) /\ cs[m] = new[m]
    BY <2>1 DEF InPlace
  <2>2. CASE m - Len(new) + 1 \in 2 .. Len(calls) /\ cs[m] = calls[m - Len(new) + 1]
    <3>1. m - Len(new) + 1 \in 1 .. Len(calls)
      BY <2>2
    <3> QED
      BY <2>2, <3>1 DEF InPlace
  <2> QED
    BY <1>1, <2>1, <2>2, ReplacedLooks
<1>3. InOrder(array, cs)
  <2> SUFFICES ASSUME NEW l \in 0 .. Size - 1, NEW m \in 0 .. Size - 1,
                      Ordered(l, m), ~(array[l] <= array[m])
               PROVE  \E k \in 1 .. Len(cs) : l \in Part(cs[k]) /\ m \in Part(cs[k])
    BY DEF InOrder
  <2>1. PICK k \in 1 .. Len(calls) : l \in Part(calls[k]) /\ m \in Part(calls[k])
    BY DEF InOrder
  <2>2. CASE k = 1
    <3>1. PICK i \in 1 .. Len(new) : l \in Part(new[i]) /\ m \in Part(new[i])
      BY <2>1, <2>2 DEF Settled, Running
    <3>2. i \in 1 .. Len(cs) /\ cs[i] = new[i]
      BY <1>1 DEF Replaced
    <3> QED
      BY <3>1, <3>2
  <2>3. CASE k # 1
    <3>1. k \in 2 .. Len(calls) /\ Len(new) + (k - 1) \in 1 .. Len(cs)
      BY <1>1, <2>3
    <3>2. cs[Len(new) + (k - 1)] = calls[k]
      BY <3>1 DEF Replaced
    <3> QED
      BY <2>1, <3>1, <3>2
  <2> QED
    BY <2>2, <2>3
<1> QED
  BY <1>2, <1>3

(***************************************************************************)
(* The steps.                                                              *)
(***************************************************************************)
LEMMA SortInvInit == InitSort => SortInv
<1> SUFFICES ASSUME InitSort PROVE SortInv
  OBVIOUS
<1>1. PICK size \in 2 .. MaxSize : given \in [0 .. size - 1 -> Places]
  BY DEF InitSort
<1>2. Size = size /\ size \in Nat /\ size >= 2
  <2>1. DOMAIN given = 0 .. size - 1 /\ size \in Int /\ size >= 2
    BY <1>1, MaxSizeAssumption
  <2>2. Cardinality(0 .. size - 1) = size
    BY <2>1, FS_Interval
  <2> QED
    BY <2>1, <2>2 DEF Size
<1>3. /\ sortarray = given /\ median \in {0, Size \div 2}
      /\ calls = <<Call(0, Size, median)>> /\ doing = "begin" /\ left = 0 /\ right = 0
  BY DEF InitSort
<1>4. median \in 0 .. Size - 1 /\ (median # 0 => median \in 1 .. Size - 1)
  BY <1>2, <1>3
<1>5. ArrayInv
  BY <1>1, <1>2, <1>3, <1>4 DEF ArrayInv
<1>6. /\ Len(calls) = 1 /\ calls[1] = Call(0, Size, median) /\ calls \in Seq(CallSet)
      /\ calls[1].first = 0 /\ calls[1].size = Size /\ calls[1].median = median
  <2>1. Call(0, Size, median) \in CallSet
    BY <1>2, <1>4 DEF Call, CallSet
  <2> QED
    BY <1>3, <2>1 DEF Call
<1>7. Apart(calls)
  BY <1>2, <1>6 DEF Apart, Follow
<1>8. Halves(calls)
  BY <1>4, <1>6 DEF Halves
<1>9. InPlace(sortarray, calls)
  BY <1>2, <1>6 DEF InPlace, Belong
<1>10. InOrder(sortarray, calls)
  BY <1>2, <1>6 DEF InOrder, Part
<1> QED
  BY <1>3, <1>5, <1>7, <1>8, <1>9, <1>10 DEF SortInv, SplitInv, NoneLost

\* What the steps use of the running call.
LEMMA RunningRight ==
  ASSUME SortInv, Len(calls) > 0
  PROVE  /\ Len(calls) \in Nat /\ 1 \in 1 .. Len(calls) /\ calls # << >>
         /\ Running.first \in Nat /\ Running.size \in Nat /\ Running.size >= 2
         /\ Running.first + Running.size <= Size /\ Size \in Nat
         /\ Belong(sortarray, Running.first, Running.size, Size)
         /\ \A i \in 0 .. Running.size - 1 : At(i) \in Places /\ At(i) \in Int
<1>1. /\ Len(calls) \in Nat /\ 1 \in 1 .. Len(calls) /\ calls # << >>
  BY CallsBounded, EmptySeq DEF SortInv
<1>2. /\ Running.first \in Nat /\ Running.size \in Nat /\ Running.size >= 2
      /\ Running.first + Running.size <= Size /\ Size \in Nat
  BY <1>1, CallsBounded DEF SortInv, ArrayInv, Running
<1>3. Belong(sortarray, Running.first, Running.size, Size)
  BY <1>1 DEF SortInv, InPlace, Running
<1>4. ASSUME NEW i \in 0 .. Running.size - 1 PROVE At(i) \in Places /\ At(i) \in Int
  <2>1. Running.first + i \in 0 .. Size - 1
    BY <1>2
  <2>2. At(i) \in Places
    BY <2>1 DEF SortInv, ArrayInv, At
  <2> QED
    BY <2>2, PlacesAssumption
<1> QED
  BY <1>1, <1>2, <1>3, <1>4

\* What a swap does.
LEMMA SwapRight ==
  ASSUME SortInv, Len(calls) > 0, given' = given,
         NEW i \in 0 .. Running.size - 1, NEW j \in 0 .. Running.size - 1, Swap(i, j)
  PROVE  /\ sortarray' \in [0 .. Size - 1 -> Places]
         /\ InPlace(sortarray', calls) /\ InOrder(sortarray', calls)
         /\ \A q \in Places : Count(sortarray', q) = Count(given, q)
         /\ sortarray'[Running.first + i] = At(j) /\ sortarray'[Running.first + j] = At(i)
         /\ \A k \in 0 .. Running.size - 1 :
              k # i /\ k # j => sortarray'[Running.first + k] = At(k)
<1> DEFINE f == Running.first
           n == Running.size
           x == f + i
           y == f + j
           b == sortarray'
<1>1. f \in Nat /\ n \in Nat /\ f + n <= Size /\ Size \in Nat
  BY RunningRight
<1>2. /\ x \in f .. f + n - 1 /\ y \in f .. f + n - 1
      /\ x \in 0 .. Size - 1 /\ y \in 0 .. Size - 1
  BY <1>1
<1>3. sortarray \in [0 .. Size - 1 -> Places]
  BY DEF SortInv, ArrayInv
<1>4. b = [sortarray EXCEPT ![x] = sortarray[y], ![y] = sortarray[x]]
  BY DEF Swap, At
<1>5. \A k \in 0 .. n - 1 : f + k \in 0 .. Size - 1 /\ (k # i => f + k # x)
                            /\ (k # j => f + k # y)
  BY <1>1, SMTT(30)
<1> HIDE DEF f, n, x, y, b
<1>6. /\ b \in [0 .. Size - 1 -> Places] /\ b[x] = sortarray[y] /\ b[y] = sortarray[x]
      /\ \A k \in 0 .. Size - 1 : k # x /\ k # y => b[k] = sortarray[k]
  BY <1>1, <1>2, <1>3, <1>4, SwapLooks
<1>7. ASSUME NEW q \in Places PROVE Count(b, q) = Count(sortarray, q)
  <2>1. Swapped(sortarray, b, x, y, Size)
    BY <1>6 DEF Swapped
  <2> QED
    BY <1>1, <1>2, <1>3, <1>6, <2>1, SwapCounts, ZenonT(20)
<1>8. Shuffled(sortarray, b, f, n, Size)
  BY <1>1, <1>2, <1>6, SwapShuffles
<1>9. InPlace(b, calls) /\ InOrder(b, calls)
  BY <1>1, <1>8, SwapKeeps DEF SortInv, f, n
<1>10. \A q \in Places : Count(b, q) = Count(given, q)
  BY <1>7 DEF SortInv, NoneLost
<1>11. \A k \in 0 .. n - 1 : k # i /\ k # j => b[f + k] = sortarray[f + k]
  BY <1>5, <1>6
<1> QED
  BY <1>6, <1>9, <1>10, <1>11 DEF f, n, x, y, b, At

\* What a step has to show.
LEMMA StepDone ==
  ASSUME SortInv, given' = given, median' = median,
         sortarray' \in [0 .. Size - 1 -> Places],
         doing' \in {"begin", "split"}, left' \in Int, right' \in Int,
         NEW array, array = sortarray', NEW cs, cs = calls',
         Apart(cs), Halves(cs), InPlace(array, cs), InOrder(array, cs),
         \A q \in Places : Count(array, q) = Count(given, q),
         SplitInv'
  PROVE  SortInv'
<1>1. Size' = Size
  BY DEF Size
<1>2. ArrayInv'
  BY <1>1 DEF SortInv, ArrayInv
<1>3. Apart(calls)'
  BY <1>1 DEF Apart, Follow, CallSet
<1>4. Halves(calls)'
  BY DEF Halves
<1>5. InPlace(sortarray, calls)'
  BY <1>1 DEF InPlace, Belong
<1>6. InOrder(sortarray, calls)'
  BY <1>1 DEF InOrder, Ordered, Part
<1>7. NoneLost'
  BY DEF NoneLost, Count
<1> QED
  BY <1>2, <1>3, <1>4, <1>5, <1>6, <1>7 DEF SortInv

LEMMA TwoInv ==
  ASSUME SortInv, Two
  PROVE  SortInv'
<1> DEFINE f == Running.first
           b == sortarray'
           new == << >>
<1>1. /\ calls # << >> /\ Running.size = 2 /\ calls' = Tail(calls)
      /\ IF At(0) > At(1) THEN Swap(0, 1) ELSE sortarray' = sortarray
      /\ given' = given /\ median' = median /\ doing' = doing
      /\ left' = left /\ right' = right /\ doing = "begin"
  BY DEF Two
<1>2. Len(calls) > 0
  BY <1>1, EmptySeq DEF SortInv, Apart
<1>3. /\ f \in Nat /\ f + 2 <= Size /\ Size \in Nat
      /\ At(0) \in Int /\ At(1) \in Int /\ Len(calls) \in Nat
  BY <1>1, <1>2, RunningRight
<1>4. /\ b \in [0 .. Size - 1 -> Places]
      /\ InPlace(b, calls) /\ InOrder(b, calls)
      /\ \A q \in Places : Count(b, q) = Count(given, q)
      /\ b[f + 0] <= b[f + 1]
  <2>1. CASE At(0) > At(1)
    <3>1. Swap(0, 1) /\ 0 \in 0 .. Running.size - 1 /\ 1 \in 0 .. Running.size - 1
      BY <1>1, <2>1
    <3>2. b[f + 0] = At(1) /\ b[f + 1] = At(0)
      BY <1>1, <1>2, <3>1, SwapRight
    <3> QED
      BY <1>1, <1>2, <1>3, <2>1, <3>1, <3>2, SwapRight, SMTT(30)
  <2>2. CASE ~(At(0) > At(1))
    BY <1>1, <1>3, <2>2 DEF SortInv, ArrayInv, NoneLost, At
  <2> QED
    BY <2>1, <2>2
<1> HIDE DEF b
<1>5. new \in Seq(CallSet) /\ Len(new) = 0 /\ Replaced(calls', new)
  <2>1. new \in Seq(CallSet) /\ Len(new) = 0
    BY EmptySeq
  <2>2. Tail(calls) \in Seq(CallSet)
    BY <1>1, HeadTailProperties DEF SortInv, Apart
  <2>3. new \o Tail(calls) = Tail(calls)
    BY <2>2, ConcatEmptySeq
  <2>4. Replaced(new \o Tail(calls), new)
    BY <1>2, <2>1, ReplacesCall DEF SortInv
  <2> QED
    BY <1>1, <2>1, <2>3, <2>4
<1>6. Within(new, Running) /\ Follow(new) /\ InPlace(b, new)
  BY <1>5 DEF Within, Follow, InPlace
<1> HIDE DEF new
<1>7. Apart(calls')
  BY <1>2, <1>3, <1>5, <1>6, ReplacedApart DEF SortInv
<1>8. Settled(b, new)
  <2> SUFFICES ASSUME NEW l \in Part(Running), NEW m \in Part(Running), Ordered(l, m)
               PROVE  b[l] <= b[m]
    BY DEF Settled
  <2>1. l \in f .. f + 1 /\ m \in f .. f + 1 /\ l < m
    BY <1>1, <1>3 DEF Part, Ordered
  <2>2. l = f + 0 /\ m = f + 1
    BY <1>3, <2>1
  <2> QED
    BY <1>4, <2>2
<1>9. InPlace(b, calls') /\ InOrder(b, calls')
  BY <1>2, <1>3, <1>4, <1>5, <1>6, <1>8, ReplacedInOrder, SMTT(30) DEF SortInv
<1>10. Halves(calls')
  <2>1. Len(calls') = Len(calls) - 1
    BY <1>3, <1>5 DEF Replaced
  <2>2. CASE median = 0
    <3>1. \A k \in 1 .. Len(calls') : \E m \in 1 .. Len(calls) : calls'[k] = calls[m]
      <4> SUFFICES ASSUME NEW k \in 1 .. Len(calls')
                   PROVE  \E m \in 1 .. Len(calls) : calls'[k] = calls[m]
        OBVIOUS
      <4>1. Len(new) \in Nat /\ ~(k \in 1 .. Len(new))
        BY <1>5
      <4>2. k - Len(new) + 1 \in 2 .. Len(calls) /\ calls'[k] = calls[k - Len(new) + 1]
        <5>1. Len(calls') = Len(calls) - 1
          BY <1>3, <1>5 DEF Replaced
        <5>2. /\ k + 1 \in 2 .. Len(calls) /\ k - Len(new) + 1 = k + 1
              /\ Len(new) + ((k + 1) - 1) = k
          BY <1>3, <1>5, <5>1
        <5>3. calls'[Len(new) + ((k + 1) - 1)] = calls[k + 1]
          BY <1>5, <5>2 DEF Replaced
        <5> QED
          BY <5>2, <5>3
      <4>3. k - Len(new) + 1 \in 1 .. Len(calls)
        BY <4>2
      <4> QED
        BY <4>2, <4>3
    <3> QED
      BY <2>2, <3>1 DEF SortInv, Halves
  <2>3. CASE median # 0
    <3>1. Len(calls') = 0
      BY <1>2, <1>3, <2>1, <2>3 DEF SortInv, Halves
    <3> QED
      BY <2>3, <3>1 DEF Halves
  <2> QED
    BY <2>2, <2>3
<1>11. SplitInv'
  BY <1>1 DEF SplitInv
<1>12. left' \in Int /\ right' \in Int /\ doing' \in {"begin", "split"}
  BY <1>1 DEF SortInv, ArrayInv
<1> QED
  BY <1>1, <1>4, <1>7, <1>9, <1>10, <1>11, <1>12, StepDone DEF b

LEMMA ChoosePivotInv ==
  ASSUME SortInv, ChoosePivot
  PROVE  SortInv'
<1>1. /\ calls # << >> /\ calls' = calls /\ sortarray' = sortarray
      /\ given' = given /\ median' = median /\ doing' = "split"
      /\ left' = -1 /\ right' = Running.size
  BY DEF ChoosePivot
<1>2. PICK i \in 0 .. Running.size - 1 : pivot' = At(i)
  BY DEF ChoosePivot
<1>3. Len(calls) > 0
  BY <1>1, EmptySeq DEF SortInv, Apart
<1>4. Running.size \in Nat /\ Running.size >= 2 /\ At(i) \in Places
  BY <1>3, RunningRight
<1>5. Running' = Running /\ At(i)' = At(i)
  BY <1>1 DEF Running, At
<1>6. left' < right'
  BY <1>1, <1>4
<1>7. SplitInv'
  <2>1. \E k \in 0 .. Running'.size - 1 : At(k)' = pivot'
    BY <1>2, <1>5
  <2> QED
    BY <1>1, <1>2, <1>3, <1>4, <1>5, <1>6, <2>1 DEF SplitInv
<1>8. left' \in Int /\ right' \in Int
  BY <1>1, <1>4
<1>9. sortarray' \in [0 .. Size - 1 -> Places] /\ \A q \in Places : Count(sortarray', q) = Count(given, q)
  BY <1>1 DEF SortInv, ArrayInv, NoneLost
<1>10. /\ Apart(calls') /\ Halves(calls')
       /\ InPlace(sortarray', calls') /\ InOrder(sortarray', calls')
  BY <1>1 DEF SortInv
<1> QED
  BY <1>1, <1>7, <1>8, <1>9, <1>10, StepDone

(***************************************************************************)
(* The two searches.  Something stops the left one no later than where the *)
(* right one has come to, and the right one no further down than the left  *)
(* one was before.                                                         *)
(***************************************************************************)
LEMMA LeftEndRight ==
  ASSUME left \in Int, right \in Int, Running.size \in Nat,
         \A i \in 0 .. Running.size - 1 : At(i) \in Int, pivot \in Int,
         -1 <= left, right <= Running.size,
         NEW k \in left + 1 .. Running.size - 1, At(k) >= pivot, k <= right
  PROVE  /\ LeftEnd \in left + 1 .. k
         /\ At(LeftEnd) >= pivot
         /\ \A j \in left + 1 .. LeftEnd - 1 : At(j) < pivot
<1> DEFINE n == Running.size
           Stop(i) == i > right \/ i = n \/ ~MayStay(i)
           T == {i \in left + 1 .. n : Stop(i)}
           P(i) == Stop(i) /\ \A j \in left + 1 .. i - 1 : j <= right /\ MayStay(j)
<1>1. T \in SUBSET (left + 1 .. n) /\ n \in T
  OBVIOUS
<1>2. PICK l \in T : \A j \in T : l <= j
  <2>1. left + 1 \in Int /\ n \in Int
    OBVIOUS
  <2> HIDE DEF T, n
  <2>2. ASSUME NEW U, U = T PROVE \E l \in U : \A j \in U : l <= j
    <3>1. U \in SUBSET (left + 1 .. n) /\ U # {}
      BY <1>1, <2>2
    <3> QED
      BY <2>1, <3>1, LeastFrom
  <2> QED
    BY <2>2
<1>3. P(l)
  <2>1. ASSUME NEW j \in left + 1 .. l - 1 PROVE j <= right /\ MayStay(j)
    <3>1. j \in left + 1 .. n /\ j \notin T
      BY <1>2
    <3> QED
      BY <3>1
  <2> QED
    BY <2>1
<1>4. LeftEnd = CHOOSE i \in left + 1 .. n : P(i)
  BY DEF LeftEnd
<1> HIDE DEF P
<1>5. LeftEnd \in left + 1 .. n /\ P(LeftEnd)
  BY <1>1, <1>2, <1>3, <1>4
<1> DEFINE e == LeftEnd
<1> HIDE DEF e
<1>6. e \in left + 1 .. n /\ Stop(e) /\ \A j \in left + 1 .. e - 1 : MayStay(j)
  BY <1>5 DEF P, e
<1>7. ~MayStay(k)
  BY DEF MayStay
<1>8. e \in left + 1 .. k
  BY <1>6, <1>7
<1>9. ~MayStay(e)
  BY <1>6, <1>7, <1>8
<1>10. e \in 0 .. n - 1
  BY <1>8
<1>11. At(e) >= pivot
  BY <1>9, <1>10 DEF MayStay
<1> QED
  BY <1>6, <1>8, <1>11 DEF e, MayStay

LEMMA RightEndRight ==
  ASSUME right \in Int, Running.size \in Nat,
         \A i \in 0 .. Running.size - 1 : At(i) \in Int, pivot \in Int,
         right <= Running.size, NEW l \in Nat, l <= right
  PROVE  /\ RightEnd(l) \in l - 1 .. right - 1
         /\ RightEnd(l) >= l => At(RightEnd(l)) <= pivot
         /\ \A j \in RightEnd(l) + 1 .. right - 1 : At(j) > pivot
<1> DEFINE n == Running.size
           Stop(i) == i < l \/ At(i) <= pivot
           T == {i \in -1 .. right - 1 : Stop(i)}
           P(i) == Stop(i) /\ \A j \in i + 1 .. right - 1 : j >= l /\ At(j) > pivot
<1>1. T \in SUBSET (-1 .. right - 1) /\ -1 \in T
  OBVIOUS
<1>2. PICK r \in T : \A j \in T : j <= r
  <2>1. -1 \in Int /\ right - 1 \in Int
    OBVIOUS
  <2> HIDE DEF T
  <2>2. ASSUME NEW U, U = T PROVE \E r \in U : \A j \in U : j <= r
    <3>1. U \in SUBSET (-1 .. right - 1) /\ U # {}
      BY <1>1, <2>2
    <3> QED
      BY <2>1, <3>1, GreatestTo
  <2> QED
    BY <2>2
<1>3. P(r)
  <2>1. ASSUME NEW j \in r + 1 .. right - 1 PROVE j >= l /\ At(j) > pivot
    <3>1. j \in -1 .. right - 1 /\ j \notin T
      BY <1>2
    <3>2. j >= l /\ ~(At(j) <= pivot)
      BY <3>1
    <3>3. j \in 0 .. n - 1
      BY <3>1, <3>2
    <3> QED
      BY <3>2, <3>3
  <2> QED
    BY <1>2, <2>1
<1>4. RightEnd(l) = CHOOSE i \in -1 .. right - 1 : P(i)
  BY DEF RightEnd
<1> HIDE DEF P
<1>5. RightEnd(l) \in -1 .. right - 1 /\ P(RightEnd(l))
  BY <1>1, <1>2, <1>3, <1>4
<1> DEFINE e == RightEnd(l)
<1> HIDE DEF e
<1>6. /\ e \in -1 .. right - 1 /\ (e < l \/ At(e) <= pivot)
      /\ \A j \in e + 1 .. right - 1 : j >= l /\ At(j) > pivot
  BY <1>5 DEF P, e
<1>7. e >= l - 1
  BY <1>6
<1> QED
  BY <1>6, <1>7 DEF e

LEMMA SplitStepInv ==
  ASSUME SortInv, Split
  PROVE  SortInv'
<1> DEFINE n == Running.size
           l == LeftEnd
           r == RightEnd(l)
<1>1. /\ doing = "split" /\ left < right /\ left' = l /\ right' = r
      /\ IF left' < right' THEN Swap(left', right') ELSE sortarray' = sortarray
      /\ given' = given /\ median' = median /\ calls' = calls
      /\ doing' = doing /\ pivot' = pivot
  BY DEF Split
<1>2. /\ Len(calls) > 0 /\ pivot \in Int /\ left \in Int /\ right \in Int
      /\ \/ /\ left = -1 /\ right = n
            /\ \E i \in 0 .. n - 1 : At(i) = pivot
         \/ /\ 0 <= left /\ right < n
            /\ \A i \in 0 .. left : At(i) <= pivot
            /\ \A i \in right .. n - 1 : At(i) >= pivot
  BY <1>1, PlacesAssumption DEF SortInv, SplitInv, ArrayInv
<1>3. n \in Nat /\ n >= 2 /\ \A i \in 0 .. n - 1 : At(i) \in Int
  BY <1>2, RunningRight
<1>4. /\ -1 <= left /\ right <= n
      /\ \A i \in 0 .. left : At(i) <= pivot
      /\ \A i \in right .. n - 1 : At(i) >= pivot
  BY <1>2, <1>3
<1>5. PICK k \in left + 1 .. n - 1 :
        /\ At(k) >= pivot /\ k <= right
        /\ k = right \/ At(k) = pivot
        /\ left = -1 \/ k = right
  <2>1. CASE left = -1 /\ \E i \in 0 .. n - 1 : At(i) = pivot
    <3>1. PICK i \in 0 .. n - 1 : At(i) = pivot
      BY <2>1
    <3> QED
      BY <1>2, <1>3, <2>1, <3>1
  <2>2. CASE 0 <= left /\ right < n
    <3>1. right \in left + 1 .. n - 1 /\ right \in right .. n - 1
      BY <1>1, <1>2, <1>3, <2>2
    <3> QED
      BY <1>2, <1>4, <3>1
  <2> QED
    BY <1>2, <2>1, <2>2
<1>6. /\ l \in left + 1 .. k /\ At(l) >= pivot
      /\ \A j \in left + 1 .. l - 1 : At(j) < pivot
  BY <1>2, <1>3, <1>4, <1>5, LeftEndRight
<1> HIDE DEF l
<1>7. l \in Nat /\ l <= right /\ l <= n - 1
  BY <1>2, <1>3, <1>4, <1>5, <1>6
<1>8. /\ r \in l - 1 .. right - 1
      /\ r >= l => At(r) <= pivot
      /\ \A j \in r + 1 .. right - 1 : At(j) > pivot
  BY <1>2, <1>3, <1>4, <1>7, RightEndRight
<1> HIDE DEF r
<1>9. 0 <= r
  <2>1. CASE k = right /\ left # -1
    BY <1>2, <1>4, <1>6, <1>8, <2>1
  <2>2. CASE left = -1
    <3>1. k = right \/ ~(k \in r + 1 .. right - 1)
      BY <1>2, <1>3, <1>5, <1>8
    <3>2. right = n /\ k < right
      BY <1>2, <1>3, <2>2
    <3> QED
      BY <1>6, <1>7, <1>8, <3>1, <3>2
  <2> QED
    BY <1>5, <2>1, <2>2
<1>10. r \in 0 .. n - 1
  BY <1>3, <1>4, <1>2, <1>8, <1>9
<1>11. \A i \in 0 .. l - 1 : At(i) <= pivot
  <2> SUFFICES ASSUME NEW i \in 0 .. l - 1 PROVE At(i) <= pivot
    OBVIOUS
  <2>1. CASE i <= left
    BY <1>4, <2>1
  <2>2. CASE i > left
    <3>1. i \in left + 1 .. l - 1
      BY <1>2, <1>7, <2>2
    <3>2. i \in 0 .. n - 1
      BY <1>3, <1>7
    <3> QED
      BY <1>2, <1>3, <1>6, <3>1, <3>2
  <2> QED
    BY <1>2, <2>1, <2>2
<1>12. \A i \in r + 1 .. n - 1 : At(i) >= pivot
  <2> SUFFICES ASSUME NEW i \in r + 1 .. n - 1 PROVE At(i) >= pivot
    OBVIOUS
  <2>1. CASE i >= right
    BY <1>4, <1>10, <2>1
  <2>2. CASE i < right
    <3>1. i \in r + 1 .. right - 1 /\ i \in 0 .. n - 1
      BY <1>2, <1>10, <2>2
    <3> QED
      BY <1>2, <1>3, <1>8, <3>1
  <2> QED
    BY <1>2, <1>10, <2>1, <2>2
<1>13. left' \in Int /\ right' \in Int /\ Running' = Running
  BY <1>1, <1>7, <1>10 DEF Running
<1>14. CASE l < r
  <2>1. Swap(l, r) /\ l \in 0 .. n - 1
    BY <1>1, <1>7, <1>14
  <2>2. /\ sortarray' \in [0 .. Size - 1 -> Places]
        /\ InPlace(sortarray', calls) /\ InOrder(sortarray', calls)
        /\ \A q \in Places : Count(sortarray', q) = Count(given, q)
    BY <1>1, <1>2, <1>10, <2>1, SwapRight
  <2>3. /\ sortarray'[Running.first + l] = At(r) /\ sortarray'[Running.first + r] = At(l)
        /\ \A i \in 0 .. Running.size - 1 :
             i # l /\ i # r => sortarray'[Running.first + i] = At(i)
    BY <1>1, <1>2, <1>10, <2>1, SwapRight
  <2>4. \A i : At(i)' = sortarray'[Running.first + i]
    BY <1>13 DEF At
  <2>5. ASSUME NEW i \in 0 .. l PROVE At(i)' <= pivot
    <3>1. CASE i = l
      BY <1>8, <1>14, <2>3, <2>4, <3>1, <1>7, <1>10
    <3>2. CASE i # l
      <4>1. i \in 0 .. l - 1
        BY <1>7, <3>2
      <4>2. i # r /\ i \in 0 .. n - 1
        BY <1>3, <1>7, <1>10, <1>14, <4>1
      <4> QED
        BY <1>11, <2>3, <2>4, <3>2, <4>1, <4>2
    <3> QED
      BY <3>1, <3>2
  <2>6. ASSUME NEW i \in r .. n - 1 PROVE At(i)' >= pivot
    <3>1. CASE i = r
      BY <1>6, <2>3, <2>4, <3>1
    <3>2. CASE i # r
      <4>1. i \in r + 1 .. n - 1 /\ i # l /\ i \in 0 .. n - 1
        BY <1>7, <1>10, <1>14, <3>2
      <4> QED
        BY <1>12, <2>3, <2>4, <3>2, <4>1
    <3> QED
      BY <3>1, <3>2
  <2>7. SplitInv'
    <3>1. \A i \in 0 .. left' : At(i)' <= pivot'
      BY <1>1, <2>5
    <3>2. \A i \in right' .. Running'.size - 1 : At(i)' >= pivot'
      BY <1>1, <1>13, <2>6
    <3>3. left' < right' /\ 0 <= left' /\ right' < Running'.size
      <4>1. l < r /\ 0 <= l
        BY <1>7, <1>14
      <4>2. r < n
        BY <1>3, <1>10
      <4>3. Running'.size = n
        BY <1>13
      <4> HIDE DEF n
      <4> QED
        BY <1>1, <4>1, <4>2, <4>3
    <3>4. Len(calls') > 0 /\ pivot' \in Places
      BY <1>1, <1>2 DEF SortInv, SplitInv
    <3> QED
      BY <3>1, <3>2, <3>3, <3>4 DEF SplitInv
  <2>8. Apart(calls) /\ Halves(calls) /\ doing' \in {"begin", "split"}
    BY <1>1 DEF SortInv
  <2> QED
    BY <1>1, <1>13, <2>2, <2>7, <2>8, StepDone
<1>15. CASE ~(l < r)
  <2>1. sortarray' = sortarray
    BY <1>1, <1>15
  <2>2. \A i : At(i)' = At(i)
    BY <1>13, <2>1 DEF At
  <2>3. r = l \/ r = l - 1
    BY <1>7, <1>8, <1>15
  <2>4. \A i \in 0 .. r : At(i) <= pivot
    <3> SUFFICES ASSUME NEW i \in 0 .. r PROVE At(i) <= pivot
      OBVIOUS
    <3>1. CASE i = r /\ r = l
      BY <1>7, <1>8, <3>1
    <3>2. CASE i \in 0 .. l - 1
      BY <1>11, <3>2
    <3> QED
      BY <1>7, <1>10, <2>3, <3>1, <3>2
  <2>5. \A i \in l .. n - 1 : At(i) >= pivot
    <3> SUFFICES ASSUME NEW i \in l .. n - 1 PROVE At(i) >= pivot
      OBVIOUS
    <3>1. CASE i = l
      BY <1>6, <3>1
    <3>2. CASE i # l
      <4>1. i \in r + 1 .. n - 1
        BY <1>7, <1>10, <2>3, <3>2
      <4> QED
        BY <1>12, <4>1
    <3> QED
      BY <3>1, <3>2
  <2>6. SplitInv'
    <3>1. \A i \in 0 .. right' : At(i)' <= pivot'
      BY <1>1, <2>2, <2>4
    <3>2. \A i \in left' .. Running'.size - 1 : At(i)' >= pivot'
      BY <1>1, <1>13, <2>2, <2>5
    <3>3. /\ ~(left' < right') /\ 0 <= right' /\ left' <= right' + 1
          /\ left' < Running'.size
      BY <1>1, <1>3, <1>7, <1>10, <1>13, <1>15, <2>3
    <3>4. Len(calls') > 0 /\ pivot' \in Places
      BY <1>1, <1>2 DEF SortInv, SplitInv
    <3> QED
      BY <3>1, <3>2, <3>3, <3>4 DEF SplitInv
  <2>7. /\ Apart(calls) /\ Halves(calls) /\ doing' \in {"begin", "split"}
        /\ sortarray \in [0 .. Size - 1 -> Places]
        /\ InPlace(sortarray, calls) /\ InOrder(sortarray, calls)
        /\ \A q \in Places : Count(sortarray, q) = Count(given, q)
    BY <1>1 DEF SortInv, ArrayInv, NoneLost
  <2> QED
    BY <1>1, <1>13, <2>1, <2>6, <2>7, StepDone
<1> QED
  BY <1>14, <1>15
(***************************************************************************)
(* The calls on the two parts.                                             *)
(***************************************************************************)
\* When an array has been split at a pivot, what is in a half belongs there.
LEMMA SplitBelong ==
  ASSUME NEW N \in Nat, NEW f \in Nat, NEW n \in Nat, f + n <= N, NEW a,
         \A x \in 0 .. N - 1 : a[x] \in Int,
         Belong(a, f, n, N), NEW p \in Int,
         NEW lo \in Int, NEW hi \in Int, 0 <= hi, lo <= hi + 1, hi <= lo, lo < n,
         \A i \in 0 .. hi : a[f + i] <= p,
         \A i \in lo .. n - 1 : a[f + i] >= p
  PROVE  Belong(a, f, lo, N) /\ Belong(a, f + hi + 1, n - hi - 1, N)
<1>1. \A x \in f .. f + hi : a[x] <= p
  <2> SUFFICES ASSUME NEW x \in f .. f + hi PROVE a[x] <= p
    OBVIOUS
  <2>1. x - f \in 0 .. hi /\ f + (x - f) = x
    OBVIOUS
  <2> QED
    BY <2>1
<1>2. \A x \in f + lo .. f + n - 1 : a[x] >= p
  <2> SUFFICES ASSUME NEW x \in f + lo .. f + n - 1 PROVE a[x] >= p
    OBVIOUS
  <2>1. x - f \in lo .. n - 1 /\ f + (x - f) = x
    OBVIOUS
  <2> QED
    BY <2>1
<1>3. ASSUME NEW x \in f .. f + n - 1 PROVE /\ \A i \in 0 .. f - 1 : a[i] <= a[x]
                                            /\ \A j \in f + n .. N - 1 : a[x] <= a[j]
  BY DEF Belong
<1>4. ASSUME NEW x \in f .. f + hi, NEW y \in f + lo .. f + n - 1 PROVE a[x] <= a[y]
  <2>1. a[x] <= p /\ p <= a[y] /\ x \in 0 .. N - 1 /\ y \in 0 .. N - 1
    BY <1>1, <1>2
  <2>2. a[x] \in Int /\ a[y] \in Int
    BY <2>1
  <2> QED
    BY <2>1, <2>2
<1>5. Belong(a, f, lo, N)
  <2> SUFFICES ASSUME NEW x \in f .. f + lo - 1
               PROVE  /\ \A i \in 0 .. f - 1 : a[i] <= a[x]
                      /\ \A j \in f + lo .. N - 1 : a[x] <= a[j]
    BY DEF Belong
  <2>1. x \in f .. f + n - 1 /\ x \in f .. f + hi
    OBVIOUS
  <2>2. ASSUME NEW j \in f + lo .. N - 1 PROVE a[x] <= a[j]
    <3>1. j \in f + n .. N - 1 \/ j \in f + lo .. f + n - 1
      OBVIOUS
    <3> QED
      BY <1>3, <1>4, <2>1, <3>1
  <2> QED
    BY <1>3, <2>1, <2>2
<1>6. Belong(a, f + hi + 1, n - hi - 1, N)
  <2> DEFINE g == f + hi + 1
             s == n - hi - 1
  <2>1. g + s = f + n
    OBVIOUS
  <2>2. SUFFICES ASSUME NEW x \in g .. f + n - 1
                 PROVE  /\ \A i \in 0 .. g - 1 : a[i] <= a[x]
                        /\ \A j \in f + n .. N - 1 : a[x] <= a[j]
    <3> HIDE DEF g, s
    <3> QED
      BY <2>1 DEF Belong
  <2>3. x \in f .. f + n - 1 /\ x \in f + lo .. f + n - 1
    OBVIOUS
  <2>4. ASSUME NEW i \in 0 .. g - 1 PROVE a[i] <= a[x]
    <3>1. i \in 0 .. f - 1 \/ i \in f .. f + hi
      OBVIOUS
    <3> QED
      BY <1>3, <1>4, <2>3, <3>1
  <2> QED
    BY <1>3, <2>3, <2>4
<1> QED
  BY <1>5, <1>6

\* A vertex before the first place that the right search has not passed, and
\* one from the left search's on.
LEMMA SplitOrdered ==
  ASSUME NEW N \in Nat, NEW f \in Nat, NEW n \in Nat, f + n <= N, NEW a,
         \A x \in 0 .. N - 1 : a[x] \in Int, NEW p \in Int,
         NEW lo \in Int, NEW hi \in Int, 0 <= hi, lo <= hi + 1, hi <= lo, lo < n,
         \A i \in 0 .. hi : a[f + i] <= p,
         \A i \in lo .. n - 1 : a[f + i] >= p,
         NEW x \in f .. f + hi, NEW y \in f + lo .. f + n - 1
  PROVE  a[x] <= a[y]
<1>1. x - f \in 0 .. hi /\ f + (x - f) = x /\ y - f \in lo .. n - 1 /\ f + (y - f) = y
  OBVIOUS
<1>2. a[x] <= p /\ a[y] >= p
  BY <1>1
<1>3. x \in 0 .. N - 1 /\ y \in 0 .. N - 1
  OBVIOUS
<1>4. a[x] \in Int /\ a[y] \in Int
  BY <1>3
<1> QED
  BY <1>2, <1>4

\* Which calls there are: on the part before `left' and on that after `right',
\* where the place to halve at lies, if there is one.
MakesLeft == IF median = 0 THEN left > 1 ELSE left > Running.median
MakesRight ==
  IF median = 0 THEN right < Running.size - 2 ELSE right < Running.median - 1
LeftCall == Call(Running.first, left, Running.median)
RightCall ==
  Call(Running.first + right + 1, Running.size - right - 1,
       IF median = 0 THEN 0 ELSE Running.median - right - 1)

\* What SortParts starts from.
LEMMA SplitRight ==
  ASSUME SortInv, doing = "split", left >= right
  PROVE  /\ Len(calls) > 0 /\ left \in Int /\ right \in Int /\ pivot \in Int
         /\ 0 <= right /\ left <= right + 1 /\ left < Running.size
         /\ \A i \in 0 .. right : At(i) <= pivot
         /\ \A i \in left .. Running.size - 1 : At(i) >= pivot
         /\ IF median = 0 THEN Running.median = 0
            ELSE /\ Len(calls) = 1 /\ Running.median \in 1 .. Running.size - 1
                 /\ Running.first + Running.median = median
<1>1. left \in Int /\ right \in Int /\ ~(left < right)
  BY DEF SortInv, ArrayInv
<1>2. /\ Len(calls) > 0 /\ pivot \in Places
      /\ 0 <= right /\ left <= right + 1 /\ left < Running.size
      /\ \A i \in 0 .. right : At(i) <= pivot
      /\ \A i \in left .. Running.size - 1 : At(i) >= pivot
  BY <1>1 DEF SortInv, SplitInv
<1>3. 1 \in 1 .. Len(calls) /\ Len(calls) \in Nat
  BY <1>2, RunningRight
<1>4. IF median = 0 THEN Running.median = 0
      ELSE /\ Len(calls) = 1 /\ Running.median \in 1 .. Running.size - 1
           /\ Running.first + Running.median = median
  <2>1. Halves(calls)
    BY DEF SortInv
  <2>2. CASE median = 0
    BY <1>3, <2>1, <2>2 DEF Halves, Running
  <2>3. CASE median # 0
    <3>1. Len(calls) <= 1
      BY <2>1, <2>3 DEF Halves
    <3>2. /\ Running.median \in 1 .. Running.size - 1
          /\ Running.first + Running.median = median
      BY <1>3, <2>1, <2>3 DEF Halves, Running
    <3> QED
      <4>1. Len(calls) = 1
        <5> DEFINE s == Len(calls)
        <5>1. s \in Nat /\ s > 0 /\ s <= 1
          BY <1>2, <1>3, <3>1
        <5> HIDE DEF s
        <5>2. s = 1
          BY <5>1
        <5> QED
          BY <5>2 DEF s
      <4> QED
        BY <2>3, <3>2, <4>1, Zenon
  <2> QED
    BY <2>2, <2>3
<1>5. pivot \in Int
  BY <1>2, PlacesAssumption
<1> QED
  BY <1>1, <1>2, <1>4, <1>5
LEMMA MadeCalls ==
  ASSUME SortInv, doing = "split", left >= right
  PROVE  /\ MakesLeft \in BOOLEAN /\ MakesRight \in BOOLEAN
         /\ MakesLeft => /\ LeftCall \in CallSet
                         /\ LeftCall.first = Running.first
                         /\ LeftCall.size = left /\ LeftCall.median = Running.median
         /\ MakesRight => /\ RightCall \in CallSet
                          /\ RightCall.first = Running.first + right + 1
                          /\ RightCall.size = Running.size - right - 1
                          /\ RightCall.median =
                               IF median = 0 THEN 0 ELSE Running.median - right - 1
<1> DEFINE f == Running.first
           n == Running.size
           m == Running.median
<1>1. /\ f \in Nat /\ n \in Nat /\ n >= 2 /\ f + n <= Size /\ Size \in Nat
      /\ left \in Int /\ right \in Int
      /\ 0 <= right /\ left <= right + 1 /\ left < n
  BY SplitRight, RunningRight
<1>2. median = 0 => m = 0
  BY SplitRight
<1>3. median # 0 => m \in 1 .. n - 1
  BY SplitRight
<1> HIDE DEF f, n, m
<1>4. MakesLeft \in BOOLEAN /\ MakesRight \in BOOLEAN
  <2>1. CASE median = 0
    BY <2>1 DEF MakesLeft, MakesRight
  <2>2. CASE median # 0
    BY <2>2 DEF MakesLeft, MakesRight
  <2> QED
    BY <2>1, <2>2
<1>5. ASSUME MakesLeft PROVE LeftCall \in CallSet
  <2>1. left \in 2 .. Size /\ m \in 0 .. Size
    <3>1. CASE median = 0
      BY <1>1, <1>2, <1>5, <3>1 DEF MakesLeft, m
    <3>2. CASE median # 0
      <4>1. left > m
        BY <1>5, <3>2 DEF MakesLeft, m
      <4> QED
        BY <1>1, <1>3, <3>2, <4>1
    <3> QED
      BY <3>1, <3>2
  <2>2. f \in 0 .. Size
    BY <1>1
  <2> QED
    BY <2>1, <2>2 DEF LeftCall, CallSet, Call, f, m
<1>6. ASSUME MakesRight PROVE RightCall \in CallSet
  <2> DEFINE d == IF median = 0 THEN 0 ELSE m - right - 1
  <2>1. n - right - 1 \in 2 .. Size /\ d \in 0 .. Size
    <3>1. CASE median = 0
      <4>1. right < n - 2
        BY <1>6, <3>1 DEF MakesRight, n
      <4> QED
        BY <1>1, <3>1, <4>1
    <3>2. CASE median # 0
      <4>1. right < m - 1
        BY <1>6, <3>2 DEF MakesRight, m
      <4> QED
        BY <1>1, <1>3, <3>2, <4>1
    <3> QED
      BY <3>1, <3>2
  <2>2. f + right + 1 \in 0 .. Size
    BY <1>1, <2>1
  <2> QED
    BY <2>1, <2>2 DEF RightCall, CallSet, Call, f, n, m
<1> QED
  BY <1>4, <1>5, <1>6 DEF LeftCall, RightCall, Call

\* The calls made for the running one.
LEMMA MadeRight ==
  ASSUME SortInv, doing = "split", left >= right,
         NEW new,
         new = (IF MakesLeft THEN <<LeftCall>> ELSE << >>)
               \o IF MakesRight THEN <<RightCall>> ELSE << >>
  PROVE  /\ new \in Seq(CallSet)
         /\ \A k \in 1 .. Len(new) :
              (MakesLeft /\ new[k] = LeftCall) \/ (MakesRight /\ new[k] = RightCall)
         /\ MakesLeft => \E k \in 1 .. Len(new) : new[k] = LeftCall
         /\ MakesRight => \E k \in 1 .. Len(new) : new[k] = RightCall
         /\ \A k, l \in 1 .. Len(new) :
              k < l => MakesLeft /\ MakesRight /\ new[k] = LeftCall /\ new[l] = RightCall
         /\ Len(new) \in Nat
         /\ ~(MakesLeft /\ MakesRight) => Len(new) <= 1
<1> DEFINE c == IF MakesLeft THEN LeftCall ELSE Running
           d == IF MakesRight THEN RightCall ELSE Running
<1>1. /\ MakesLeft \in BOOLEAN /\ MakesRight \in BOOLEAN
      /\ MakesLeft => LeftCall \in CallSet
      /\ MakesRight => RightCall \in CallSet
  BY MadeCalls
<1>2. Running \in CallSet
  <2>1. 1 \in 1 .. Len(calls)
    BY SplitRight, RunningRight
  <2> QED
    BY <2>1, CallsBounded DEF SortInv, Running
<1>3. c \in CallSet /\ d \in CallSet
  BY <1>1, <1>2
<1>4. (MakesLeft => c = LeftCall) /\ (MakesRight => d = RightCall)
  OBVIOUS
<1>5. new = (IF MakesLeft THEN <<c>> ELSE << >>) \o IF MakesRight THEN <<d>> ELSE << >>
  OBVIOUS
<1> HIDE DEF c, d
<1>6. /\ new \in Seq(CallSet)
      /\ Len(new) = (IF MakesLeft THEN 1 ELSE 0) + (IF MakesRight THEN 1 ELSE 0)
      /\ \A k \in 1 .. Len(new) :
           (MakesLeft /\ k = 1 /\ new[k] = c) \/ (MakesRight /\ new[k] = d)
      /\ MakesLeft => 1 \in 1 .. Len(new) /\ new[1] = c
      /\ MakesRight => Len(new) \in 1 .. Len(new) /\ new[Len(new)] = d
      /\ \A k, l \in 1 .. Len(new) :
           k < l => MakesLeft /\ MakesRight /\ new[k] = c /\ new[l] = d
  <2>1. CASE MakesLeft /\ MakesRight
    <3>1. new = <<c>> \o <<d>>
      BY <1>5, <2>1
    <3>2. new \in Seq(CallSet) /\ Len(new) = 2 /\ new[1] = c /\ new[2] = d
      <4>1. /\ <<c>> \o <<d>> \in Seq(CallSet) /\ Len(<<c>> \o <<d>>) = 2
            /\ (<<c>> \o <<d>>)[1] = c /\ (<<c>> \o <<d>>)[2] = d
        BY <1>3, TwoCalls
      <4> QED
        BY <3>1, <4>1
    <3>3. \A k \in 1 .. Len(new) : k = 1 \/ k = 2
      BY <3>2
    <3>4. \A k \in 1 .. Len(new) : (MakesLeft /\ k = 1 /\ new[k] = c) \/ (MakesRight /\ new[k] = d)
      BY <2>1, <3>2, <3>3
    <3>5. ASSUME NEW k \in 1 .. Len(new), NEW l \in 1 .. Len(new), k < l
          PROVE  MakesLeft /\ MakesRight /\ new[k] = c /\ new[l] = d
      <4>1. k = 1 /\ l = 2
        BY <3>3, <3>5
      <4> QED
        BY <2>1, <3>2, <4>1
    <3>6. /\ 1 \in 1 .. Len(new) /\ Len(new) \in 1 .. Len(new) /\ new[Len(new)] = d
          /\ Len(new) = (IF MakesLeft THEN 1 ELSE 0) + (IF MakesRight THEN 1 ELSE 0)
      BY <2>1, <3>2
    <3> QED
      BY <3>2, <3>4, <3>5, <3>6
  <2>2. CASE MakesLeft /\ ~MakesRight
    <3>1. new = <<c>>
      BY <1>5, <2>2
    <3> QED
      BY <1>3, <2>2, <3>1
  <2>3. CASE ~MakesLeft /\ MakesRight
    <3>1. new = <<d>>
      BY <1>5, <2>3
    <3> QED
      BY <1>3, <2>3, <3>1
  <2>4. CASE ~MakesLeft /\ ~MakesRight
    <3>1. new = << >>
      BY <1>5, <2>4
    <3> QED
      BY <2>4, <3>1, EmptySeq
  <2> QED
    BY <2>1, <2>2, <2>3, <2>4
<1>7. /\ \A k \in 1 .. Len(new) :
           (MakesLeft /\ new[k] = LeftCall) \/ (MakesRight /\ new[k] = RightCall)
      /\ MakesLeft => \E k \in 1 .. Len(new) : new[k] = LeftCall
      /\ MakesRight => \E k \in 1 .. Len(new) : new[k] = RightCall
      /\ \A k, l \in 1 .. Len(new) :
           k < l => MakesLeft /\ MakesRight /\ new[k] = LeftCall /\ new[l] = RightCall
  BY <1>4, <1>6, Zenon
<1>8. Len(new) \in Nat /\ (~(MakesLeft /\ MakesRight) => Len(new) <= 1)
  BY <1>1, <1>6
<1> QED
  BY <1>6, <1>7, <1>8

LEMMA SortPartsInv ==
  ASSUME SortInv, SortParts
  PROVE  SortInv'
<1> DEFINE f == Running.first
           n == Running.size
           m == Running.median
           new == (IF MakesLeft THEN <<LeftCall>> ELSE << >>)
                  \o IF MakesRight THEN <<RightCall>> ELSE << >>
           cs == calls'
<1>1. /\ doing = "split" /\ left >= right /\ doing' = "begin"
      /\ calls' = (IF median = 0 THEN SortCalls ELSE MedianCalls) \o Tail(calls)
      /\ given' = given /\ sortarray' = sortarray /\ median' = median
      /\ pivot' = pivot /\ left' = left /\ right' = right
  BY DEF SortParts
<1>2. /\ Len(calls) > 0 /\ left \in Int /\ right \in Int /\ pivot \in Int
      /\ 0 <= right /\ left <= right + 1 /\ left < n /\ right <= left
      /\ \A i \in 0 .. right : sortarray[f + i] <= pivot
      /\ \A i \in left .. n - 1 : sortarray[f + i] >= pivot
  BY <1>1, SplitRight DEF At
<1>3. IF median = 0 THEN m = 0
      ELSE Len(calls) = 1 /\ m \in 1 .. n - 1 /\ f + m = median
  BY <1>1, SplitRight
<1>4. /\ f \in Nat /\ n \in Nat /\ n >= 2 /\ f + n <= Size /\ Size \in Nat
      /\ Belong(sortarray, f, n, Size)
  BY <1>2, RunningRight
<1>5. \A x \in 0 .. Size - 1 : sortarray[x] \in Int
  BY PlacesAssumption DEF SortInv, ArrayInv
<1>6. cs = new \o Tail(calls)
  <2>1. CASE median = 0
    <3>1. SortCalls = new
      BY <1>3, <2>1 DEF SortCalls, MakesLeft, MakesRight, LeftCall, RightCall
    <3> QED
      BY <1>1, <2>1, <3>1
  <2>2. CASE median # 0
    <3>1. MedianCalls = new
      BY <2>2 DEF MedianCalls, MakesLeft, MakesRight, LeftCall, RightCall
    <3> QED
      BY <1>1, <2>2, <3>1
  <2> QED
    BY <2>1, <2>2
<1>7. /\ new \in Seq(CallSet) /\ Len(new) \in Nat
      /\ \A k \in 1 .. Len(new) :
           (MakesLeft /\ new[k] = LeftCall) \/ (MakesRight /\ new[k] = RightCall)
      /\ MakesLeft => \E k \in 1 .. Len(new) : new[k] = LeftCall
      /\ MakesRight => \E k \in 1 .. Len(new) : new[k] = RightCall
      /\ \A k, l \in 1 .. Len(new) :
           k < l => MakesLeft /\ MakesRight /\ new[k] = LeftCall /\ new[l] = RightCall
      /\ ~(MakesLeft /\ MakesRight) => Len(new) <= 1
  BY <1>1, MadeRight
<1> HIDE DEF new
<1>8. /\ MakesLeft => LeftCall.first = f /\ LeftCall.size = left /\ LeftCall.median = m
      /\ MakesRight => /\ RightCall.first = f + right + 1
                       /\ RightCall.size = n - right - 1
                       /\ RightCall.median = IF median = 0 THEN 0 ELSE m - right - 1
  BY <1>1, MadeCalls
<1>9. Replaced(cs, new)
  BY <1>2, <1>6, <1>7, ReplacesCall DEF SortInv
<1> HIDE DEF cs
<1>10. Within(new, Running)
  <2> SUFFICES ASSUME NEW k \in 1 .. Len(new)
               PROVE  f <= new[k].first /\ new[k].first + new[k].size <= f + n
    BY DEF Within
  <2> HIDE DEF f, n
  <2>1. CASE MakesLeft /\ new[k] = LeftCall
    BY <1>2, <1>4, <1>8, <2>1 DEF n
  <2>2. CASE MakesRight /\ new[k] = RightCall
    BY <1>2, <1>4, <1>8, <2>2
  <2> QED
    BY <1>7, <2>1, <2>2
<1>11. Follow(new)
  <2> SUFFICES ASSUME NEW k \in 1 .. Len(new), NEW l \in 1 .. Len(new), k < l
               PROVE  new[k].first + new[k].size <= new[l].first
    BY DEF Follow
  <2>1. MakesLeft /\ MakesRight /\ new[k] = LeftCall /\ new[l] = RightCall
    BY <1>7
  <2> HIDE DEF f, n
  <2> QED
    BY <1>2, <1>4, <1>8, <2>1
<1>12. InPlace(sortarray, new)
  <2>1. Belong(sortarray, f, left, Size) /\ Belong(sortarray, f + right + 1, n - right - 1, Size)
    BY <1>2, <1>4, <1>5, SplitBelong
  <2> SUFFICES ASSUME NEW k \in 1 .. Len(new)
               PROVE  Belong(sortarray, new[k].first, new[k].size, Size)
    BY DEF InPlace
  <2> QED
    BY <1>7, <1>8, <2>1
<1>13. Settled(sortarray, new)
  <2> SUFFICES ASSUME NEW x \in Part(Running), NEW y \in Part(Running), Ordered(x, y),
                      ~(sortarray[x] <= sortarray[y])
               PROVE  \E k \in 1 .. Len(new) : x \in Part(new[k]) /\ y \in Part(new[k])
    BY DEF Settled
  <2> HIDE DEF f, n
  <2>1. x \in f .. f + n - 1 /\ y \in f .. f + n - 1 /\ x \in Int /\ y \in Int
    BY <1>4 DEF Part, f, n
  <2>2. x < y /\ (median # 0 => x < median /\ median <= y)
    BY DEF Ordered
  <2>3. ~(x \in f .. f + right /\ y \in f + left .. f + n - 1)
    BY <1>2, <1>4, <1>5, SplitOrdered DEF n
  <2>4. y < f + left \/ f + right < x
    BY <1>2, <1>4, <2>1, <2>3
  <2>5. CASE y < f + left
    <3>1. MakesLeft
      <4>1. CASE median = 0
        <5>1. left > 1
          BY <1>2, <1>4, <2>1, <2>2, <2>5
        <5> QED
          BY <4>1, <5>1 DEF MakesLeft
      <4>2. CASE median # 0
        <5>1. left > m
          <6> HIDE DEF m
          <6> QED
            BY <1>2, <1>3, <1>4, <2>1, <2>2, <2>5, <4>2 DEF n
        <5> QED
          BY <4>2, <5>1 DEF MakesLeft
      <4> QED
        BY <4>1, <4>2
    <3>2. x \in Part(LeftCall) /\ y \in Part(LeftCall)
      BY <1>2, <1>4, <1>8, <2>1, <2>2, <2>5, <3>1 DEF Part
    <3> QED
      BY <1>7, <3>1, <3>2
  <2>6. CASE f + right < x
    <3>1. MakesRight
      <4>1. CASE median = 0
        <5>1. right < n - 2
          BY <1>2, <1>4, <2>1, <2>2, <2>6
        <5> QED
          BY <4>1, <5>1 DEF MakesRight, n
      <4>2. CASE median # 0
        <5>1. right < m - 1
          <6> HIDE DEF m
          <6> QED
            BY <1>2, <1>3, <1>4, <2>1, <2>2, <2>6, <4>2 DEF n
        <5> QED
          BY <4>2, <5>1 DEF MakesRight
      <4> QED
        BY <4>1, <4>2
    <3>2. x \in Part(RightCall) /\ y \in Part(RightCall)
      BY <1>2, <1>4, <1>8, <2>1, <2>2, <2>6, <3>1 DEF Part
    <3> QED
      BY <1>7, <3>1, <3>2
  <2> QED
    BY <2>4, <2>5, <2>6
<1>14. Halves(cs)
  <2>1. Len(cs) = Len(new) + (Len(calls) - 1) /\ Len(calls) \in Nat
    BY <1>2, <1>9, RunningRight DEF Replaced
  <2>2. CASE median = 0
    <3>1. ASSUME NEW k \in 1 .. Len(cs) PROVE cs[k].median = 0
      <4>1. CASE k \in 1 .. Len(new) /\ cs[k] = new[k]
        BY <1>3, <1>7, <1>8, <2>2, <4>1
      <4>2. CASE k - Len(new) + 1 \in 2 .. Len(calls) /\ cs[k] = calls[k - Len(new) + 1]
        <5>1. k - Len(new) + 1 \in 1 .. Len(calls)
          BY <4>2
        <5> QED
          BY <2>2, <4>2, <5>1 DEF SortInv, Halves
      <4> QED
        BY <1>2, <1>7, <1>9, <2>1, <4>1, <4>2, ReplacedLooks
    <3> QED
      BY <2>2, <3>1 DEF Halves
  <2>3. CASE median # 0
    <3>1. m \in 1 .. n - 1 /\ f + m = median /\ Len(calls) = 1
      BY <1>3, <2>3
    <3>2. (MakesLeft => left > m) /\ (MakesRight => right < m - 1)
      BY <2>3 DEF MakesLeft, MakesRight
    <3>3. \A k \in 1 .. Len(new) : cs[k] = new[k]
      BY <1>9 DEF Replaced
    <3> HIDE DEF f, n, m
    <3>4. ~(MakesLeft /\ MakesRight)
      BY <1>2, <1>4, <3>1, <3>2
    <3>5. Len(cs) = Len(new) /\ Len(cs) <= 1
      BY <1>7, <2>1, <3>1, <3>4
    <3>6. ASSUME NEW k \in 1 .. Len(cs)
          PROVE  cs[k].median \in 1 .. cs[k].size - 1 /\ cs[k].first + cs[k].median = median
      <4>1. cs[k] = new[k] /\ k \in 1 .. Len(new)
        BY <3>3, <3>5
      <4>2. CASE MakesLeft /\ new[k] = LeftCall
        <5>1. cs[k].first = f /\ cs[k].size = left /\ cs[k].median = m
          BY <1>8, <4>1, <4>2
        <5> QED
          BY <1>2, <1>4, <3>1, <3>2, <4>2, <5>1
      <4>3. CASE MakesRight /\ new[k] = RightCall
        <5>1. /\ cs[k].first = f + right + 1 /\ cs[k].size = n - right - 1
              /\ cs[k].median = m - right - 1
          BY <1>8, <2>3, <4>1, <4>3
        <5> QED
          BY <1>2, <1>4, <3>1, <3>2, <4>3, <5>1
      <4> QED
        BY <1>7, <4>1, <4>2, <4>3
    <3> QED
      BY <2>3, <3>5, <3>6 DEF Halves
  <2> QED
    BY <2>2, <2>3
<1>15. Apart(cs)
  BY <1>2, <1>4, <1>7, <1>9, <1>10, <1>11, ReplacedApart DEF SortInv
<1>16. InPlace(sortarray, cs) /\ InOrder(sortarray, cs)
  BY <1>2, <1>4, <1>7, <1>9, <1>12, <1>13, ReplacedInOrder DEF SortInv
<1>17. SplitInv'
  BY <1>1 DEF SplitInv
<1>18. /\ sortarray' \in [0 .. Size - 1 -> Places]
       /\ \A q \in Places : Count(sortarray', q) = Count(given, q)
  BY <1>1 DEF SortInv, ArrayInv, NoneLost
<1> QED
  BY <1>1, <1>2, <1>14, <1>15, <1>16, <1>17, <1>18, StepDone DEF cs

LEMMA SortInvNext ==
  ASSUME SortInv, [SortNext]_sortVars
  PROVE  SortInv'
<1>1. CASE Two
  BY <1>1, TwoInv
<1>2. CASE ChoosePivot
  BY <1>2, ChoosePivotInv
<1>3. CASE Split
  BY <1>3, SplitStepInv
<1>4. CASE SortParts
  BY <1>4, SortPartsInv
<1>5. CASE UNCHANGED sortVars
  <2>1. /\ given' = given /\ sortarray' = sortarray /\ median' = median
        /\ calls' = calls /\ doing' = doing /\ pivot' = pivot
        /\ left' = left /\ right' = right
    BY <1>5 DEF sortVars
  <2>2. Size' = Size
    BY <2>1 DEF Size
  <2>3. ArrayInv' /\ Apart(calls)' /\ Halves(calls)'
    BY <2>1, <2>2 DEF SortInv, ArrayInv, Apart, Follow, CallSet, Halves
  <2>4. InPlace(sortarray, calls)' /\ InOrder(sortarray, calls)'
    BY <2>1, <2>2 DEF SortInv, InPlace, Belong, InOrder, Ordered, Part
  <2>5. SplitInv'
    <3>1. SplitInv
      BY DEF SortInv
    <3> QED
      BY <2>1, <3>1 DEF SplitInv, Running, At
  <2>6. NoneLost'
    BY <2>1 DEF SortInv, NoneLost, Count
  <2> QED
    BY <2>3, <2>4, <2>5, <2>6 DEF SortInv
<1> QED
  BY <1>1, <1>2, <1>3, <1>4, <1>5 DEF SortNext

LEMMA SortInvRight == SortInv => SortRight
<1> SUFFICES ASSUME SortInv PROVE SortRight
  OBVIOUS
<1>1. DOMAIN calls = 1 .. Len(calls) /\ DOMAIN sortarray = 0 .. Size - 1
  BY DEF SortInv, Apart, ArrayInv
<1>2. ASSUME NEW k \in DOMAIN calls
      PROVE  /\ calls[k].size >= 2 /\ calls[k].first >= 0
             /\ calls[k].first + calls[k].size <= Size
             /\ \A l \in DOMAIN calls :
                  k < l => calls[k].first + calls[k].size <= calls[l].first
  <2>1. /\ calls[k].size >= 2 /\ calls[k].first \in Nat
        /\ calls[k].first + calls[k].size <= Size
    BY <1>1, CallsBounded DEF SortInv
  <2>2. \A l \in DOMAIN calls :
          k < l => calls[k].first + calls[k].size <= calls[l].first
    BY <1>1 DEF SortInv, Apart, Follow
  <2> QED
    BY <2>1, <2>2
<1>3. ASSUME doing = "split", left >= right PROVE left < Running.size /\ right >= 0
  BY <1>3, SplitRight
<1>4. ASSUME calls = << >>, NEW i \in DOMAIN sortarray, NEW j \in DOMAIN sortarray,
             i < j, median \in {0} \cup i + 1 .. j
      PROVE  sortarray[i] <= sortarray[j]
  <2>1. Len(calls) = 0
    BY <1>4
  <2>2. Ordered(i, j)
    BY <1>1, <1>4 DEF Ordered
  <2> QED
    BY <1>1, <2>1, <2>2 DEF SortInv, InOrder
<1> QED
  BY <1>2, <1>3, <1>4 DEF SortRight, SortInv, NoneLost

\* vertexsort and vertexmedian stay in their parts of the array, lose no
\* vertex and in the end have sorted or halved it, however large it is,
\* whichever vertices are at one place, and whatever the pivots.
THEOREM SortAlwaysRight == SortSpec => []SortRight
<1>1. InitSort => SortInv
  BY SortInvInit
<1>2. SortInv /\ [SortNext]_sortVars => SortInv'
  BY SortInvNext
<1>3. SortInv => SortRight
  BY SortInvRight
<1> QED
  BY <1>1, <1>2, <1>3, PTL DEF SortSpec
=============================================================================
