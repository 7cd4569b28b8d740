------------------------------ MODULE IStack -------------------------------
(* The integer stack of istack.c: an array that is doubled by realloc when *)
(* it is full, and a count of the entries in use.  What lies above the     *)
(* count is left over from earlier pushes, or was never written.           *)
EXTENDS Integers, Sequences

CONSTANTS NStart,      \* STACK_NSTART
          MaxEntries,  \* bound: no more entries than this are pushed
          Values,      \* what is pushed
          None         \* no answer

ASSUME NStartAssumption == NStart \in Nat \ {0}
ASSUME MaxEntriesAssumption == MaxEntries \in Nat

VARIABLES v, n, nallocated,  \* the fields of struct istack
          answer             \* what the last operation returned

stackVars == <<v, n, nallocated, answer>>

----------------------------------------------------------------------------
Memory(size) == [0 .. size - 1 -> Values]

\* istack_create: malloc leaves anything in the array.
InitStack ==
  /\ n = 0
  /\ nallocated = NStart
  /\ v \in Memory(NStart)
  /\ answer = None

\* istack_push with room...
Push(x) ==
  /\ n < nallocated /\ n < MaxEntries
  /\ v' = [v EXCEPT ![n] = x]
  /\ n' = n + 1
  /\ answer' = None
  /\ UNCHANGED nallocated

\* ...and with a full array: realloc keeps the old half and leaves anything in
\* the new one.
PushGrows(x) ==
  /\ n = nallocated /\ n < MaxEntries
  /\ nallocated' = 2 * nallocated
  /\ \E memory \in Memory(2 * nallocated) :
       /\ \A i \in 0 .. n - 1 : memory[i] = v[i]
       /\ v' = [memory EXCEPT ![n] = x]
  /\ n' = n + 1
  /\ answer' = None

\* istack_pop does not look whether there is an entry: delaunay_circles_find
\* does (delaunay.c:539).
Pop ==
  /\ n > 0
  /\ n' = n - 1
  /\ answer' = v[n - 1]
  /\ UNCHANGED <<v, nallocated>>

Reset == n' = 0 /\ answer' = None /\ UNCHANGED <<v, nallocated>>

\* Mutant: the search runs over the whole array.
StackContainsAnywhere(x) ==
  /\ answer' = IF \E i \in 0 .. nallocated - 1 : v[i] = x THEN 1 ELSE 0
  /\ UNCHANGED <<v, n, nallocated>>

StackContains(x) ==
  /\ answer' = IF \E i \in 0 .. n - 1 : v[i] = x THEN 1 ELSE 0
  /\ UNCHANGED <<v, n, nallocated>>

StackNext ==
  \/ \E x \in Values : Push(x) \/ PushGrows(x) \/ StackContains(x)
  \/ Pop \/ Reset

StackSpec == InitStack /\ [][StackNext]_stackVars

----------------------------------------------------------------------------
StackTypeOK ==
  /\ nallocated \in Nat \ {0}
  /\ n \in 0 .. nallocated
  /\ v \in Memory(nallocated)

(* The array with its count is a stack: pop returns what was pushed last and
   the membership test sees the entries in use, whatever an earlier push, a
   reset or realloc left above them; the count stays within the array
   (istack.c:43-73).                                                       *)
Entries == [i \in 1 .. n |-> v[i - 1]]
Abstract == INSTANCE Stack WITH items <- Entries
IsStack == Abstract!Spec /\ []StackTypeOK
=============================================================================
