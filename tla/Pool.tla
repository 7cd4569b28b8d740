-------------------------------- MODULE Pool -------------------------------
(* What a memory pool of triangle.c promises its callers: an item handed   *)
(* out is not handed out again before it is given back, items given back   *)
(* are handed out before new ones, and a traversal returns every item that *)
(* stays in use, and no item that is not.                                  *)
CONSTANTS Items, Null

VARIABLES held,     \* the items in use
          used,     \* the items handed out since the pool was last emptied
          owed,     \* the items the traversal under way has still to return
          walking,  \* is there one?
          given     \* what the last call returned

vars == <<held, used, owed, walking, given>>

Init == held = {} /\ used = {} /\ owed = {} /\ walking = FALSE /\ given = Null

\* A new item is owed to the traversal under way: plague and regionplague
\* put what they find into the pool that they traverse.
AllocNew ==
  /\ used = held
  /\ \E i \in Items \ used :
       /\ given' = i
       /\ held' = held \cup {i} /\ used' = used \cup {i}
       /\ owed' = IF walking THEN owed \cup {i} ELSE {}
       /\ walking' = walking

\* One that was given back is not, when it has been passed over.
AllocAgain ==
  \E i \in used \ held :
    /\ given' = i
    /\ held' = held \cup {i} /\ used' = used
    /\ owed' = owed \/ (walking /\ owed' = owed \cup {i})
    /\ walking' = walking

Dealloc ==
  \E i \in held :
    /\ held' = held \ {i} /\ owed' = owed \ {i}
    /\ UNCHANGED <<used, walking, given>>

Restart == held' = {} /\ used' = {} /\ owed' = {} /\ walking' = FALSE /\ given' = given

Begin == owed' = held /\ walking' = TRUE /\ UNCHANGED <<held, used, given>>

Meet ==
  \E i \in owed :
    given' = i /\ owed' = owed \ {i} /\ UNCHANGED <<held, used, walking>>

End ==
  /\ walking /\ owed = {}
  /\ given' = Null
  /\ UNCHANGED <<held, used, owed, walking>>

Next == AllocNew \/ AllocAgain \/ Dealloc \/ Restart \/ Begin \/ Meet \/ End

Spec == Init /\ [][Next]_vars
=============================================================================
