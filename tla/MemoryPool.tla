----------------------------- MODULE MemoryPool ----------------------------
(* The memory pools of triangle.c, from which triangles, vertices and      *)
(* everything else are allocated: blocks of items, a stack of items that   *)
(* were given back, and a traversal of all items.  The callers mark what   *)
(* they give back as dead (killtri and its like) and skip dead items when  *)
(* they traverse.                                                          *)
(*                                                                         *)
(* An item is a block and its place in it, from 0; place ItemsPerBlock is  *)
(* where a pointer is after the last item.  Blocks are numbered in the     *)
(* order of the list they form.  The list of dead items runs through the   *)
(* items themselves and is shown as a sequence, its first item first.      *)
EXTENDS NullPointer, Integers, Sequences, FiniteSets

CONSTANTS ItemsPerBlock,   \* itemsperblock
          MaxBlocks        \* bound: no more blocks than this are allocated

ASSUME ItemsAssumption == ItemsPerBlock \in Nat \ {0}
ASSUME BlocksAssumption == MaxBlocks \in Nat \ {0}

VARIABLES
  blocks,            \* how many blocks there are
  items, maxitems,   \* items in use; items ever taken from a block
  nextitem, unallocateditems,   \* nextitem's block is nowblock
  deaditemstack,
  pathitem, pathitemsleft,      \* pathitem's block is pathblock
  held,              \* the items the callers use
  marked,            \* the items they marked as dead
  walking,           \* traversalinit was called since the last restart
  skipping,          \* triangletraverse goes on: it got a dead item
  returned           \* what the last call returned to the callers

fresh == <<blocks, nextitem, unallocateditems, maxitems>>
path == <<pathitem, pathitemsleft, walking, skipping>>
poolVars == <<fresh, items, deaditemstack, path, held, marked, returned>>

----------------------------------------------------------------------------
Items == (1 .. MaxBlocks) \X (0 .. ItemsPerBlock - 1)
Pointers == (1 .. MaxBlocks) \X (0 .. ItemsPerBlock)
FirstItem(block) == <<block, 0>>
After(item) == <<item[1], item[2] + 1>>
Before(item, pointer) ==
  \/ item[1] < pointer[1]
  \/ item[1] = pointer[1] /\ item[2] < pointer[2]

\* The items that were taken from a block since the pool was emptied.
Used == {i \in Items : Before(i, nextitem)}

\* poolinit and the poolrestart it ends with.
InitPool ==
  /\ blocks = 1
  /\ items = 0 /\ maxitems = 0
  /\ nextitem = FirstItem(1) /\ unallocateditems = ItemsPerBlock
  /\ deaditemstack = << >>
  /\ pathitem = Null /\ pathitemsleft = 0
  /\ held = {} /\ marked = {}
  /\ walking = FALSE /\ skipping = FALSE
  /\ returned = Null

----------------------------------------------------------------------------
\* The caller empties the pool.  The blocks stay, what is in them too, and
\* whoever traverses the pool next begins anew.
PoolRestart ==
  /\ ~skipping
  /\ items' = 0 /\ maxitems' = 0
  /\ nextitem' = FirstItem(1) /\ unallocateditems' = ItemsPerBlock
  /\ deaditemstack' = << >>
  /\ held' = {}
  /\ walking' = FALSE
  /\ UNCHANGED <<blocks, pathitem, pathitemsleft, skipping, marked, returned>>

\* The caller's use of a new item clears the mark of a dead one.
Give(item) ==
  /\ items' = items + 1
  /\ held' = held \cup {item}
  /\ marked' = marked \ {item}
  /\ returned' = item

AllocDead ==
  /\ ~skipping
  /\ deaditemstack /= << >>
  /\ Give(Head(deaditemstack))
  /\ deaditemstack' = Tail(deaditemstack)
  /\ UNCHANGED <<fresh, path>>

TakeFrom(pointer, left) ==
  /\ Give(pointer)
  /\ nextitem' = After(pointer)
  /\ unallocateditems' = left - 1
  /\ maxitems' = maxitems + 1
  /\ UNCHANGED <<deaditemstack, path>>

AllocHere ==
  /\ ~skipping
  /\ deaditemstack = << >>
  /\ unallocateditems > 0
  /\ TakeFrom(nextitem, unallocateditems)
  /\ UNCHANGED blocks

\* The block is used up: the next one is there from before a restart, or
\* else allocated.
AllocNextBlock ==
  /\ ~skipping
  /\ deaditemstack = << >>
  /\ unallocateditems = 0
  /\ nextitem[1] < MaxBlocks
  /\ blocks' = IF nextitem[1] = blocks THEN blocks + 1 ELSE blocks
  /\ TakeFrom(FirstItem(nextitem[1] + 1), ItemsPerBlock)

\* triangledealloc and its like: mark the item, then give it back.
Dealloc ==
  /\ ~skipping
  /\ \E dyingitem \in held :
       /\ held' = held \ {dyingitem}
       /\ marked' = marked \cup {dyingitem}
       /\ deaditemstack' = <<dyingitem>> \o deaditemstack
  /\ items' = items - 1
  /\ UNCHANGED <<fresh, path, returned>>

----------------------------------------------------------------------------
TraversalInit ==
  /\ ~skipping
  /\ pathitem' = FirstItem(1) /\ pathitemsleft' = ItemsPerBlock
  /\ walking' = TRUE
  /\ UNCHANGED <<fresh, items, deaditemstack, skipping, held, marked, returned>>

\* triangletraverse takes one item after the other and returns the first
\* that is not dead.
Visit(item, left) ==
  /\ pathitem' = After(item) /\ pathitemsleft' = left - 1
  /\ skipping' = (item \in marked)
  /\ returned' = IF item \in marked THEN returned ELSE item
  /\ UNCHANGED <<fresh, items, deaditemstack, walking, held, marked>>

TraverseBlock ==
  /\ walking
  /\ pathitem /= nextitem
  /\ pathitemsleft > 0
  /\ Visit(pathitem, pathitemsleft)

TraverseNextBlock ==
  /\ walking
  /\ pathitem /= nextitem
  /\ pathitemsleft = 0
  /\ Visit(FirstItem(pathitem[1] + 1), ItemsPerBlock)

\* Mutant: the end of a block is taken for the end of the pool.
TraverseEndOfBlock ==
  /\ walking
  /\ pathitem = nextitem \/ pathitemsleft = 0
  /\ skipping' = FALSE
  /\ returned' = Null
  /\ UNCHANGED <<fresh, items, deaditemstack, pathitem, pathitemsleft, walking,
                 held, marked>>

TraverseEnd ==
  /\ walking
  /\ pathitem = nextitem
  /\ skipping' = FALSE
  /\ returned' = Null
  /\ UNCHANGED <<fresh, items, deaditemstack, pathitem, pathitemsleft, walking,
                 held, marked>>

PoolNext ==
  \/ PoolRestart
  \/ AllocDead \/ AllocHere \/ AllocNextBlock
  \/ Dealloc
  \/ TraversalInit
  \/ TraverseBlock \/ TraverseNextBlock \/ TraverseEnd

PoolSpec == InitPool /\ [][PoolNext]_poolVars

----------------------------------------------------------------------------
Dead == {deaditemstack[k] : k \in DOMAIN deaditemstack}

\* What every variable holds; both pointers stay inside of blocks that there
\* are, poolalloc's and traverse's (triangle.c:3821, 3944).
PoolTypeOK ==
  /\ blocks \in 1 .. MaxBlocks
  /\ nextitem \in Pointers /\ nextitem[1] =< blocks
  /\ unallocateditems = ItemsPerBlock - nextitem[2]
  /\ items \in Nat /\ maxitems \in Nat
  /\ deaditemstack \in Seq(Items)
  /\ held \subseteq Items /\ marked \subseteq Items
  /\ walking \in BOOLEAN /\ skipping \in BOOLEAN
  /\ pathitem \in Pointers \cup {Null}
  /\ walking => /\ pathitem \in Pointers /\ pathitem[1] =< blocks
                /\ pathitemsleft = ItemsPerBlock - pathitem[2]
  /\ returned \in Items \cup {Null}

\* No item is on the stack of dead items twice, nor while it is in use, and
\* between them the stack and the callers have every item that was taken from
\* a block (triangle.c:3835, 3893): a restart leaves none behind.
DeadOnce ==
  /\ \A k, l \in DOMAIN deaditemstack :
       deaditemstack[k] = deaditemstack[l] => k = l
  /\ Dead = Used \ held
  /\ held \subseteq Used

\* The numbers that the callers size their output by (triangle.c:15788) are
\* the numbers of items in use and of items ever taken.
CountsRight == items = Cardinality(held) /\ maxitems = Cardinality(Used)

\* Among the items that a traversal meets exactly the dead are marked
\* (triangle.c:4204, 4229).
DeadAreMarked == marked \cap Used = Dead

PoolInvariant == DeadOnce /\ CountsRight /\ DeadAreMarked

\* The items in use that the traversal has before it.
Owed == {i \in held : walking /\ ~Before(i, pathitem)}

\* The pool keeps Pool's promise; it has every item in one place, its pointers
\* in its blocks, and a traversal can tell which items are dead
\* (triangle.c:3821-3980, 4194-4231).
PoolPromise == INSTANCE Pool WITH used <- Used, owed <- Owed, given <- returned
IsPool == PoolPromise!Spec /\ [](PoolTypeOK /\ PoolInvariant)
=============================================================================
