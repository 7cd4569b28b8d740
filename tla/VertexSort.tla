----------------------------- MODULE VertexSort ----------------------------
(* vertexsort and vertexmedian of triangle.c: quicksort, and the same with *)
(* at most one of the two recursive calls.  An array of vertices is here   *)
(* the array of their places, of which only the order matters: by x and    *)
(* then y, or the other way round.  The pivot is any of the array, several *)
(* vertices may be at one place, and nothing but the pivot stops the two   *)
(* searches at the ends of the array.                                      *)
EXTENDS Integers, Sequences, FiniteSets

CONSTANTS MaxSize,   \* bound: no array has more vertices
          Places     \* where they may be: integers, in the order of the sort

ASSUME MaxSizeAssumption == MaxSize \in Nat
ASSUME PlacesAssumption == Places \subseteq Int

VARIABLES
  given,         \* the array as the caller gave it
  sortarray,
  median,        \* vertexmedian: how many go first; vertexsort: 0
  calls,         \* the calls that are still to be made, the first one running
  doing,         \* what that one does
  pivot,         \* its pivot's place
  left, right    \* its two indices, relative to its part of the array

sortVars == <<given, sortarray, median, calls, doing, pivot, left, right>>

----------------------------------------------------------------------------
Size == Cardinality(DOMAIN given)

\* A call gets the part of the array at `first', its size and, in
\* vertexmedian, how many of its vertices go before the others.
Call(first, size, m) == [first |-> first, size |-> size, median |-> m]

InitSort ==
  /\ \E size \in 2 .. MaxSize : given \in [0 .. size - 1 -> Places]
  /\ sortarray = given
  /\ median \in {0, Size \div 2}
  /\ calls = <<Call(0, Size, median)>>
  /\ doing = "begin" /\ pivot = 0 /\ left = 0 /\ right = 0

Running == calls[1]
At(i) == sortarray[Running.first + i]

Swap(i, j) ==
  LET f == Running.first IN
  sortarray' = [sortarray EXCEPT ![f + i] = At(j), ![f + j] = At(i)]

Two ==
  /\ doing = "begin" /\ calls /= << >> /\ Running.size = 2
  /\ IF At(0) > At(1) THEN Swap(0, 1) ELSE sortarray' = sortarray
  /\ calls' = Tail(calls)
  /\ UNCHANGED <<given, median, doing, pivot, left, right>>

ChoosePivot ==
  /\ doing = "begin" /\ calls /= << >> /\ Running.size /= 2
  /\ \E i \in 0 .. Running.size - 1 : pivot' = At(i)
  /\ left' = -1 /\ right' = Running.size
  /\ doing' = "split"
  /\ UNCHANGED <<given, sortarray, median, calls>>

\* Mutant: a vertex at the pivot's place does not stop the search.
MayStayOnEqual(i) == At(i) <= pivot

\* The left search passes over it.
MayStay(i) == At(i) < pivot

\* Where the searches end that read one vertex after the other; Running.size
\* is outside the part, and read all the same when nothing stopped the first.
LeftEnd == CHOOSE i \in left + 1 .. Running.size :
             /\ i > right \/ i = Running.size \/ ~MayStay(i)
             /\ \A j \in left + 1 .. i - 1 : j <= right /\ MayStay(j)
RightEnd(l) == CHOOSE i \in -1 .. right - 1 :
                 /\ i < l \/ At(i) <= pivot
                 /\ \A j \in i + 1 .. right - 1 : j >= l /\ At(j) > pivot

\* Both searches, and the swap of what they found.
Split ==
  /\ doing = "split" /\ left < right
  /\ left' = LeftEnd /\ right' = RightEnd(LeftEnd)
  /\ IF left' < right' THEN Swap(left', right') ELSE sortarray' = sortarray
  /\ UNCHANGED <<given, median, calls, doing, pivot>>

\* The calls that it makes on its parts.
SortCalls ==
  LET f == Running.first IN LET n == Running.size IN
  (IF left > 1 THEN <<Call(f, left, 0)>> ELSE << >>)
  \o IF right < n - 2 THEN <<Call(f + right + 1, n - right - 1, 0)>> ELSE << >>

MedianCalls ==
  LET f == Running.first IN LET n == Running.size IN LET m == Running.median IN
  (IF left > m THEN <<Call(f, left, m)>> ELSE << >>)
  \o IF right < m - 1 THEN <<Call(f + right + 1, n - right - 1, m - right - 1)>> ELSE << >>

SortParts ==
  /\ doing = "split" /\ left >= right
  /\ calls' = (IF median = 0 THEN SortCalls ELSE MedianCalls) \o Tail(calls)
  /\ doing' = "begin"
  /\ UNCHANGED <<given, sortarray, median, pivot, left, right>>

SortNext == Two \/ ChoosePivot \/ Split \/ SortParts

SortSpec == InitSort /\ [][SortNext]_sortVars

----------------------------------------------------------------------------
Count(array, p) == Cardinality({i \in DOMAIN array : array[i] = p})

\* The searches never read outside their part of the array, which is theirs
\* alone, and each call is on a smaller part than its caller's, so that they
\* all end (triangle.c:9199-9209); in the end the array has the vertices it
\* had, sorted, or the first `median' of them before the others
\* (triangle.c:9217-9224, 9292-9301).
SortRight ==
  /\ \A k \in DOMAIN calls :
       /\ calls[k].size >= 2 /\ calls[k].first >= 0
       /\ calls[k].first + calls[k].size <= Size
       /\ \A l \in DOMAIN calls :
            k < l => calls[k].first + calls[k].size <= calls[l].first
  /\ doing = "split" /\ left >= right => left < Running.size /\ right >= 0
  /\ \A p \in Places : Count(sortarray, p) = Count(given, p)
  /\ calls = << >> =>
       \A i, j \in DOMAIN sortarray :
         i < j /\ median \in {0} \cup i + 1 .. j => sortarray[i] <= sortarray[j]
=============================================================================
