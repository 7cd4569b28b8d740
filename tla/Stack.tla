------------------------------- MODULE Stack -------------------------------
(* What istack.h promises: a stack of integers with push, pop, reset and a *)
(* membership test.  "answer" is what the last operation returned.         *)
EXTENDS Integers, Sequences

CONSTANTS Values, None

VARIABLES items, answer

vars == <<items, answer>>

Init == items = << >> /\ answer = None

Push(x) == items' = Append(items, x) /\ answer' = None

Pop == /\ items # << >>
       /\ items' = SubSeq(items, 1, Len(items) - 1)
       /\ answer' = items[Len(items)]

Reset == items' = << >> /\ answer' = None

Test(x) == /\ answer' = IF \E i \in DOMAIN items : items[i] = x THEN 1 ELSE 0
           /\ UNCHANGED items

Next == \/ \E x \in Values : Push(x) \/ Test(x)
        \/ Pop \/ Reset

Spec == Init /\ [][Next]_vars
=============================================================================
