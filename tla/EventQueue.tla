----------------------------- MODULE EventQueue ----------------------------
(* What the event heap of triangle.c promises the sweep line: always the   *)
(* event that is due first, and that an event can be called off.           *)
EXTENDS Integers

CONSTANTS Events, Times, Null

VARIABLES due,       \* when each event that waits is due
          current    \* the event under way, or Null

vars == <<due, current>>

Init == \E sites \in SUBSET Events : due \in [sites -> Times] /\ current = Null

Add ==
  \E e \in Events \ (DOMAIN due \cup {current}), t \in Times :
    due' = [f \in DOMAIN due \cup {e} |-> IF f = e THEN t ELSE due[f]] /\ current' = current

Without(e) == due' = [f \in DOMAIN due \ {e} |-> due[f]]

TakeFirst ==
  \E e \in DOMAIN due :
    /\ \A f \in DOMAIN due : due[e] <= due[f]
    /\ current = Null /\ current' = e
    /\ Without(e)

CallOff == \E e \in DOMAIN due : Without(e) /\ current' = current

Finish == current /= Null /\ current' = Null /\ due' = due

Next == Add \/ TakeFirst \/ CallOff \/ Finish

Spec == Init /\ [][Next]_vars
=============================================================================
