--------------------------- MODULE StorageProofs ---------------------------
(* Three small pieces of the triangulation's library, each for itself: the *)
(* integer stack implements the abstract one, for any starting size and    *)
(* any entries; the memory pools keep their promise to triangle.c, however *)
(* many items a block has and however many blocks there may be; and the    *)
(* point tools average no point twice.                                     *)
EXTENDS IStack, MemoryPool, PointTools, FiniteSetTheorems, SequenceTheorems,
        WellFoundedInduction, TLAPS

(***************************************************************************)
(* The integer stack.                                                      *)
(***************************************************************************)
(* The array is as long as nallocated says and the count stays within it,
   whether it has to grow or not (istack.c:58-73).                         *)
THEOREM StackTypeCorrect == StackSpec => []StackTypeOK
<1>1. InitStack => StackTypeOK
  BY NStartAssumption DEF InitStack, StackTypeOK
<1>2. StackTypeOK /\ [StackNext]_stackVars => StackTypeOK'
  <2> SUFFICES ASSUME StackTypeOK, [StackNext]_stackVars PROVE StackTypeOK'
    OBVIOUS
  <2> USE DEF StackTypeOK, Memory
  <2>1. ASSUME NEW x \in Values, Push(x) PROVE StackTypeOK'
    BY <2>1 DEF Push
  <2>2. ASSUME NEW x \in Values, PushGrows(x) PROVE StackTypeOK'
    <3>1. PICK memory \in Memory(2 * nallocated) : v' = [memory EXCEPT ![n] = x]
      BY <2>2 DEF PushGrows
    <3>2. v' \in Memory(2 * nallocated)
      BY <3>1, <2>2 DEF PushGrows
    <3> QED
      BY <3>2, <2>2 DEF PushGrows
  <2>3. ASSUME NEW x \in Values, StackContains(x) PROVE StackTypeOK'
    BY <2>3 DEF StackContains
  <2>4. CASE Pop
    BY <2>4 DEF Pop
  <2>5. CASE Reset
    BY <2>5 DEF Reset
  <2>6. CASE UNCHANGED stackVars
    BY <2>6 DEF stackVars
  <2> QED
    BY <2>1, <2>2, <2>3, <2>4, <2>5, <2>6 DEF StackNext
<1> QED
  BY <1>1, <1>2, PTL DEF StackSpec

----------------------------------------------------------------------------
\* What the array holds below the count is a sequence of that length.
LEMMA EntriesLength ==
  ASSUME StackTypeOK
  PROVE  /\ Entries \in Seq(Values)
         /\ Len(Entries) = n
         /\ \A i \in 1 .. n : Entries[i] = v[i - 1]
  BY DEF StackTypeOK, Memory, Entries

\* A push, with or without growing, appends to the entries.
LEMMA PushAppends ==
  ASSUME StackTypeOK, StackTypeOK', NEW x \in Values,
         n' = n + 1,
         \A i \in 0 .. n - 1 : v'[i] = v[i],
         v'[n] = x
  PROVE  Entries' = Append(Entries, x)
<1>1. Entries' = [i \in 1 .. n + 1 |-> v'[i - 1]]
  BY DEF Entries
<1>2. n \in Nat
  BY DEF StackTypeOK
<1>3. \A i \in 1 .. n + 1 : v'[i - 1] = IF i = n + 1 THEN x ELSE v[i - 1]
  BY <1>2
<1>4. /\ Append(Entries, x) \in Seq(Values)
      /\ Len(Append(Entries, x)) = n + 1
      /\ \A i \in 1 .. n : Append(Entries, x)[i] = v[i - 1]
      /\ Append(Entries, x)[n + 1] = x
  BY EntriesLength, <1>2
<1>5. /\ Entries' \in Seq(Values)
      /\ Len(Entries') = n + 1
  <2>1. n + 1 \in 0 .. nallocated' /\ nallocated' \in Nat
    BY <1>2 DEF StackTypeOK
  <2>2. v' \in [0 .. nallocated' - 1 -> Values]
    BY DEF StackTypeOK, Memory
  <2>3. \A i \in 1 .. n + 1 : i - 1 \in 0 .. nallocated' - 1
    BY <1>2, <2>1
  <2> QED
    BY <1>1, <1>2, <2>2, <2>3
<1>6. \A i \in 1 .. n + 1 : Entries'[i] = Append(Entries, x)[i]
  BY <1>1, <1>2, <1>3, <1>4
<1> QED
  BY <1>4, <1>5, <1>6, SeqEqual

(* What the array holds below the count behaves as a stack, whatever lies
   above it (istack.c:43-73).                                              *)
THEOREM ImplementsStack == StackSpec => IsStack
<1>1. InitStack => Abstract!Init
  <2> SUFFICES ASSUME InitStack PROVE Entries = << >> /\ answer = None
    BY DEF Abstract!Init
  <2> QED
    BY DEF InitStack, Entries
<1>2. StackTypeOK /\ StackTypeOK' /\ [StackNext]_stackVars => [Abstract!Next]_(Abstract!vars)
  <2> SUFFICES ASSUME StackTypeOK, StackTypeOK', [StackNext]_stackVars
               PROVE  Abstract!Next \/ (Entries' = Entries /\ answer' = answer)
    BY DEF Abstract!vars
  <2>1. ASSUME NEW x \in Values, Push(x) PROVE Abstract!Push(x)
    <3>1. n \in 0 .. nallocated - 1 /\ v \in [0 .. nallocated - 1 -> Values]
      BY <2>1 DEF StackTypeOK, Memory, Push
    <3>2. Entries' = Append(Entries, x)
      BY <2>1, <3>1, PushAppends DEF Push
    <3> QED
      BY <2>1, <3>2 DEF Push, Abstract!Push
  <2>2. ASSUME NEW x \in Values, PushGrows(x) PROVE Abstract!Push(x)
    <3>1. PICK memory \in Memory(2 * nallocated) :
            /\ \A i \in 0 .. n - 1 : memory[i] = v[i]
            /\ v' = [memory EXCEPT ![n] = x]
      BY <2>2 DEF PushGrows
    <3>2. n \in Nat /\ n \in 0 .. 2 * nallocated - 1
      BY <2>2 DEF StackTypeOK, PushGrows
    <3>3. v'[n] = x /\ \A i \in 0 .. n - 1 : v'[i] = v[i]
      BY <3>1, <3>2 DEF Memory
    <3>4. Entries' = Append(Entries, x)
      BY <2>2, <3>3, PushAppends DEF PushGrows
    <3> QED
      BY <2>2, <3>4 DEF PushGrows, Abstract!Push
  <2>3. ASSUME NEW x \in Values, StackContains(x) PROVE Abstract!Test(x)
    <3>1. Entries' = Entries
      BY <2>3 DEF StackContains, Entries
    <3>2. (\E i \in 0 .. n - 1 : v[i] = x) <=> (\E i \in 1 .. n : v[i - 1] = x)
      <4>1. n \in Nat
        BY DEF StackTypeOK
      <4>2. \A i \in 0 .. n - 1 : i + 1 \in 1 .. n /\ v[(i + 1) - 1] = v[i]
        BY <4>1
      <4>3. \A i \in 1 .. n : i - 1 \in 0 .. n - 1
        BY <4>1
      <4> QED
        BY <4>2, <4>3
    <3>3. DOMAIN Entries = 1 .. n /\ \A i \in 1 .. n : Entries[i] = v[i - 1]
      BY DEF Entries
    <3> QED
      BY <2>3, <3>1, <3>2, <3>3 DEF StackContains, Abstract!Test
  <2>4. CASE Pop
    <3>1. Len(Entries) = n /\ n \in Nat /\ n > 0 /\ Entries \in Seq(Values)
      BY <2>4, EntriesLength DEF Pop, StackTypeOK
    <3>2. Entries # << >> /\ Entries[n] = v[n - 1]
      BY <3>1, EntriesLength
    <3>3. Entries' = SubSeq(Entries, 1, n - 1)
      BY <2>4, <3>1 DEF Pop, Entries
    <3> QED
      BY <2>4, <3>1, <3>2, <3>3 DEF Pop, Abstract!Pop, Abstract!Next
  <2>5. CASE Reset
    <3>1. Entries' = << >>
      BY <2>5 DEF Reset, Entries
    <3> QED
      BY <2>5, <3>1 DEF Reset, Abstract!Reset, Abstract!Next
  <2>6. CASE UNCHANGED stackVars
    BY <2>6 DEF stackVars, Entries
  <2> QED
    BY <2>1, <2>2, <2>3, <2>4, <2>5, <2>6 DEF StackNext, Abstract!Next
<1> QED
  BY <1>1, <1>2, StackTypeCorrect, PTL DEF StackSpec, IsStack, Abstract!Spec

(***************************************************************************)
(* The memory pools.                                                       *)
(***************************************************************************)
\* The traversal is never past the item that is taken next, nor is that ever
\* the first one of a new block, so that it steps only into blocks from which
\* an item was taken.
PathInv ==
  /\ nextitem = FirstItem(1) \/ nextitem[2] > 0
  /\ walking => pathitem = nextitem \/ Before(pathitem, nextitem)
  /\ skipping => walking

PoolInv == PoolTypeOK /\ PoolInvariant /\ PathInv

----------------------------------------------------------------------------
(* Items and pointers. *)

LEMMA ItemsFinite ==
  ASSUME NEW S \in SUBSET Items
  PROVE  IsFiniteSet(S) /\ Cardinality(S) \in Nat
<1>1. IsFiniteSet(1 .. MaxBlocks) /\ IsFiniteSet(0 .. ItemsPerBlock - 1)
  BY ItemsAssumption, BlocksAssumption, FS_Interval
<1>2. IsFiniteSet(Items)
  BY <1>1, FS_Product DEF Items
<1> QED
  BY <1>2, FS_Subset, FS_CardinalityType

\* What is before the place after an item: the item and what was before it.
LEMMA BeforeAfter ==
  ASSUME NEW i \in Items, NEW item \in Items
  PROVE  Before(i, After(item)) <=> Before(i, item) \/ i = item
BY ItemsAssumption, BlocksAssumption DEF Items, After, Before

\* The end of a block is the beginning of the next one.
LEMMA BeforeNextBlock ==
  ASSUME NEW i \in Items, NEW p \in Pointers, p[2] = ItemsPerBlock
  PROVE  Before(i, FirstItem(p[1] + 1)) <=> Before(i, p)
BY ItemsAssumption, BlocksAssumption DEF Items, Pointers, FirstItem, Before

LEMMA BeforeFirst ==
  FirstItem(1) \in Pointers /\ FirstItem(1)[1] = 1 /\ FirstItem(1)[2] = 0
  /\ \A i \in Items : ~Before(i, FirstItem(1))
BY ItemsAssumption, BlocksAssumption DEF Items, Pointers, FirstItem, Before

\* The item that is taken next, of this block or of the next one, was not
\* used; with it just that one more is.
LEMMA TakenNext ==
  ASSUME PoolTypeOK, NEW item \in Items, nextitem' = After(item),
         \/ item = nextitem
         \/ nextitem[2] = ItemsPerBlock /\ item = FirstItem(nextitem[1] + 1)
  PROVE  /\ item \notin Used
         /\ Used' = Used \cup {item}
         /\ Cardinality(Used') = Cardinality(Used) + 1
<1>1. nextitem \in Pointers
  BY DEF PoolTypeOK
<1>2. \A i \in Items : Before(i, item) <=> Before(i, nextitem)
  BY <1>1, BeforeNextBlock
<1>3. ~Before(item, item)
  BY ItemsAssumption DEF Items, Before
<1>4. item \notin Used
  BY <1>2, <1>3 DEF Used
<1>5. Used' = Used \cup {item}
  BY <1>2, BeforeAfter DEF Used
<1>6. IsFiniteSet(Used)
  BY ItemsFinite DEF Used
<1> QED
  BY <1>4, <1>5, <1>6, FS_AddElement

----------------------------------------------------------------------------
(* The stack of dead items. *)

LEMMA PoppedDead ==
  ASSUME PoolTypeOK, DeadOnce, deaditemstack /= << >>, deaditemstack' = Tail(deaditemstack)
  PROVE  /\ deaditemstack' \in Seq(Items)
         /\ Head(deaditemstack) \in Dead
         /\ Dead' = Dead \ {Head(deaditemstack)}
         /\ \A k, l \in DOMAIN deaditemstack' :
              deaditemstack'[k] = deaditemstack'[l] => k = l
<1> DEFINE s == deaditemstack
<1>1. s \in Seq(Items) /\ Len(s) \in Nat /\ Len(s) > 0 /\ DOMAIN s = 1 .. Len(s)
  BY EmptySeq DEF PoolTypeOK
<1>2. /\ s' \in Seq(Items)
      /\ DOMAIN s' = 1 .. Len(s) - 1
      /\ \A k \in 1 .. Len(s) - 1 : s'[k] = s[k + 1]
      /\ Head(s) = s[1]
  BY <1>1, HeadTailProperties
<1>3. \A k, l \in 1 .. Len(s) : s[k] = s[l] => k = l
  BY <1>1 DEF DeadOnce
<1> HIDE DEF s
<1>4. \A k \in 2 .. Len(s) : k - 1 \in 1 .. Len(s) - 1 /\ s'[k - 1] = s[k]
  BY <1>1, <1>2
<1>5. \A k \in 1 .. Len(s) - 1 : k + 1 \in 1 .. Len(s) /\ s[k + 1] /= s[1]
  BY <1>1, <1>3
<1>6. {s'[k] : k \in 1 .. Len(s) - 1} = {s[k] : k \in 1 .. Len(s)} \ {s[1]}
  <2> DEFINE Rest == {s'[k] : k \in 1 .. Len(s) - 1}
             Others == {s[k] : k \in 1 .. Len(s)} \ {s[1]}
  <2>1. ASSUME NEW x \in Rest PROVE x \in Others
    <3>1. PICK k \in 1 .. Len(s) - 1 : x = s'[k]
      OBVIOUS
    <3>2. x = s[k + 1] /\ k + 1 \in 1 .. Len(s) /\ s[k + 1] /= s[1]
      BY <1>2, <1>5, <3>1
    <3> QED
      BY <3>2
  <2>2. ASSUME NEW x \in Others PROVE x \in Rest
    <3>1. PICK k \in 1 .. Len(s) : x = s[k] /\ k /= 1
      OBVIOUS
    <3>2. k \in 2 .. Len(s)
      BY <1>1, <3>1
    <3>3. k - 1 \in 1 .. Len(s) - 1 /\ s'[k - 1] = x
      BY <1>4, <3>1, <3>2
    <3> QED
      BY <3>3
  <2> QED
    BY <2>1, <2>2
<1>7. \A k, l \in 1 .. Len(s) - 1 : s'[k] = s'[l] => k = l
  BY <1>1, <1>2, <1>3
<1>8. s[1] \in {s[k] : k \in 1 .. Len(s)}
  BY <1>1
<1> QED
  BY <1>1, <1>2, <1>6, <1>7, <1>8 DEF s, Dead

LEMMA PushedDead ==
  ASSUME PoolTypeOK, DeadOnce, NEW item \in Items \ Dead,
         deaditemstack' = <<item>> \o deaditemstack
  PROVE  /\ deaditemstack' \in Seq(Items)
         /\ Dead' = Dead \cup {item}
         /\ \A k, l \in DOMAIN deaditemstack' :
              deaditemstack'[k] = deaditemstack'[l] => k = l
<1> DEFINE s == deaditemstack
<1>1. s \in Seq(Items) /\ Len(s) \in Nat /\ DOMAIN s = 1 .. Len(s)
  BY DEF PoolTypeOK
<1>2. <<item>> \in Seq(Items) /\ Len(<<item>>) = 1
  OBVIOUS
<1>3. /\ s' \in Seq(Items)
      /\ DOMAIN s' = 1 .. Len(s) + 1
      /\ s'[1] = item
      /\ \A k \in 2 .. Len(s) + 1 : s'[k] = s[k - 1]
  BY <1>1, <1>2, ConcatProperties
<1>4. \A k, l \in 1 .. Len(s) : s[k] = s[l] => k = l
  BY <1>1 DEF DeadOnce
<1>5. \A k \in 1 .. Len(s) : s[k] /= item
  BY <1>1 DEF Dead
<1> HIDE DEF s
<1>6. \A k \in 1 .. Len(s) : k + 1 \in 2 .. Len(s) + 1 /\ s'[k + 1] = s[k]
  BY <1>1, <1>3
<1>7. \A k \in 1 .. Len(s) + 1 : k /= 1 => k - 1 \in 1 .. Len(s) /\ s'[k] = s[k - 1]
  BY <1>1, <1>3
<1>8. {s'[k] : k \in 1 .. Len(s) + 1} = {s[k] : k \in 1 .. Len(s)} \cup {item}
  <2>1. \A k \in 1 .. Len(s) : k + 1 \in 1 .. Len(s) + 1 /\ s'[k + 1] = s[k]
    BY <1>1, <1>6
  <2>2. 1 \in 1 .. Len(s) + 1
    BY <1>1
  <2>3. {s'[k] : k \in 1 .. Len(s) + 1} \subseteq {s[k] : k \in 1 .. Len(s)} \cup {item}
    BY <1>3, <1>7
  <2>4. item \in {s'[k] : k \in 1 .. Len(s) + 1}
    BY <1>3, <2>2
  <2>5. {s[k] : k \in 1 .. Len(s)} \subseteq {s'[k] : k \in 1 .. Len(s) + 1}
    BY <2>1
  <2> QED
    BY <2>3, <2>4, <2>5
<1>9. \A k, l \in 1 .. Len(s) + 1 : s'[k] = s'[l] => k = l
  <2> SUFFICES ASSUME NEW k \in 1 .. Len(s) + 1, NEW l \in 1 .. Len(s) + 1, s'[k] = s'[l]
               PROVE  k = l
    OBVIOUS
  <2>1. CASE k = 1
    BY <2>1, <1>3, <1>5, <1>7
  <2>2. CASE l = 1
    BY <2>2, <1>3, <1>5, <1>7
  <2>3. CASE k /= 1 /\ l /= 1
    <3>1. k - 1 = l - 1
      BY <2>3, <1>4, <1>7
    <3> QED
      BY <3>1, <1>1
  <2> QED
    BY <2>1, <2>2, <2>3
<1> QED
  BY <1>1, <1>3, <1>8, <1>9 DEF s, Dead

----------------------------------------------------------------------------
(* The invariant. *)

LEMMA PoolInvInit == InitPool => PoolInv
<1> SUFFICES ASSUME InitPool PROVE PoolInv
  OBVIOUS
<1>1. PoolTypeOK
  <2>1. blocks \in 1 .. MaxBlocks /\ items \in Nat /\ maxitems \in Nat
    BY BlocksAssumption DEF InitPool
  <2>2. /\ nextitem \in Pointers /\ nextitem[1] =< blocks
        /\ unallocateditems = ItemsPerBlock - nextitem[2]
    BY BeforeFirst, ItemsAssumption DEF InitPool
  <2>3. deaditemstack \in Seq(Items)
    BY EmptySeq DEF InitPool
  <2> QED
    BY <2>1, <2>2, <2>3 DEF InitPool, PoolTypeOK
<1>2. Used = {} /\ Dead = {}
  BY BeforeFirst DEF InitPool, Used, Dead
<1>3. PoolInvariant
  BY <1>2, FS_EmptySet DEF InitPool, PoolInvariant, DeadOnce, CountsRight, DeadAreMarked
<1> QED
  BY <1>1, <1>3 DEF InitPool, PoolInv, PathInv

LEMMA PoolInvRestart == PoolInv /\ PoolRestart => PoolInv'
<1> SUFFICES ASSUME PoolInv, PoolRestart PROVE PoolInv'
  OBVIOUS
<1>1. PoolTypeOK'
  <2> USE DEF PoolRestart, PoolInv, PoolTypeOK
  <2>1. /\ nextitem' \in Pointers /\ nextitem'[1] =< blocks
        /\ unallocateditems' = ItemsPerBlock - nextitem'[2]
    BY BeforeFirst, ItemsAssumption, BlocksAssumption
  <2>2. deaditemstack' \in Seq(Items)
    BY EmptySeq
  <2>3. items' \in Nat /\ maxitems' \in Nat /\ held' \subseteq Items
    OBVIOUS
  <2> QED
    BY <2>1, <2>2, <2>3
<1>2. Used' = {} /\ Dead' = {}
  BY BeforeFirst DEF PoolRestart, Used, Dead
<1>3. PoolInvariant'
  BY <1>2, FS_EmptySet DEF PoolRestart, PoolInvariant, DeadOnce, CountsRight, DeadAreMarked
<1> QED
  BY <1>1, <1>3 DEF PoolRestart, PoolInv, PathInv

\* One more item is held.
LEMMA OneMoreHeld ==
  ASSUME PoolInv, NEW item \in Items \ held, held' = held \cup {item}
  PROVE  held' \subseteq Items /\ items + 1 = Cardinality(held') /\ items + 1 \in Nat
<1>1. IsFiniteSet(held) /\ Cardinality(held) = items
  BY ItemsFinite DEF PoolInv, PoolTypeOK, PoolInvariant, CountsRight
<1>2. Cardinality(held') = Cardinality(held) + 1
  BY <1>1, FS_AddElement
<1> QED
  BY <1>1, <1>2 DEF PoolInv, PoolTypeOK

LEMMA PoolInvAllocDead == PoolInv /\ AllocDead => PoolInv'
<1> SUFFICES ASSUME PoolInv, AllocDead PROVE PoolInv'
  OBVIOUS
<1> DEFINE item == Head(deaditemstack)
<1>1. PoolTypeOK /\ DeadOnce /\ CountsRight /\ DeadAreMarked
  BY DEF PoolInv, PoolInvariant
<1>2. UNCHANGED <<fresh, path>> /\ Used' = Used
  BY DEF AllocDead, fresh, Used
<1>3. /\ deaditemstack' \in Seq(Items)
      /\ item \in Dead
      /\ Dead' = Dead \ {item}
      /\ \A k, l \in DOMAIN deaditemstack' : deaditemstack'[k] = deaditemstack'[l] => k = l
  BY <1>1, PoppedDead DEF AllocDead
<1>4. /\ items' = items + 1
      /\ held' = held \cup {item}
      /\ marked' = marked \ {item}
      /\ returned' = item
  BY DEF AllocDead, Give
<1> HIDE DEF item
<1>5. item \in Items \ held /\ item \in Used
  BY <1>1, <1>3 DEF DeadOnce, Used
<1>6. held' \subseteq Items /\ items' = Cardinality(held') /\ items' \in Nat
  BY <1>4, <1>5, OneMoreHeld
<1>7. PoolTypeOK'
  BY <1>1, <1>2, <1>3, <1>4, <1>5, <1>6 DEF PoolTypeOK, fresh, path
<1>8. DeadOnce' /\ DeadAreMarked'
  BY <1>1, <1>2, <1>3, <1>4, <1>5 DEF DeadOnce, DeadAreMarked
<1>9. CountsRight'
  BY <1>1, <1>2, <1>6 DEF CountsRight, fresh
<1>10. PathInv'
  BY <1>2 DEF PoolInv, PathInv, fresh, path
<1> QED
  BY <1>7, <1>8, <1>9, <1>10 DEF PoolInv, PoolInvariant

\* What taking the next item keeps, from this block or from the next one.
LEMMA PoolInvTake ==
  ASSUME PoolInv, NEW item \in Items, NEW left, TakeFrom(item, left),
         deaditemstack = << >>,
         \/ item = nextitem
         \/ nextitem[2] = ItemsPerBlock /\ item = FirstItem(nextitem[1] + 1),
         left = ItemsPerBlock - item[2],
         blocks' \in blocks .. MaxBlocks, item[1] =< blocks'
  PROVE  PoolInv'
<1>1. PoolTypeOK /\ DeadOnce /\ CountsRight /\ DeadAreMarked /\ PathInv
  BY DEF PoolInv, PoolInvariant
<1>2. /\ items' = items + 1 /\ maxitems' = maxitems + 1
      /\ held' = held \cup {item} /\ marked' = marked \ {item} /\ returned' = item
      /\ nextitem' = After(item) /\ unallocateditems' = left - 1
      /\ UNCHANGED <<deaditemstack, path>>
  BY DEF TakeFrom, Give
<1>3. /\ item \notin Used /\ Used' = Used \cup {item}
      /\ Cardinality(Used') = Cardinality(Used) + 1
  BY <1>1, <1>2, TakenNext
<1>4. Dead = {} /\ Dead' = {}
  BY <1>2 DEF Dead
<1>5. item \in Items \ held
  BY <1>1, <1>3 DEF DeadOnce
<1>6. held' \subseteq Items /\ items' = Cardinality(held') /\ items' \in Nat
  BY <1>2, <1>5, OneMoreHeld
<1>7. /\ nextitem' \in Pointers
      /\ nextitem'[1] =< blocks'
      /\ unallocateditems' = ItemsPerBlock - nextitem'[2]
  BY <1>2, ItemsAssumption, BlocksAssumption, SMTT(30) DEF Items, Pointers, After
<1>8. PoolTypeOK'
  <2>1. maxitems' \in Nat /\ blocks' \in 1 .. MaxBlocks
    BY <1>1, <1>2 DEF PoolTypeOK
  <2>2. walking' => /\ pathitem' \in Pointers /\ pathitem'[1] =< blocks'
                    /\ pathitemsleft' = ItemsPerBlock - pathitem'[2]
    <3>1. pathitem \in Pointers => pathitem[1] \in Int
      BY DEF Pointers
    <3> QED
      BY <1>1, <1>2, <2>1, <3>1, BlocksAssumption DEF PoolTypeOK, path
  <2> QED
    BY <1>1, <1>2, <1>6, <1>7, <2>1, <2>2 DEF PoolTypeOK, path
<1>9. DeadOnce' /\ DeadAreMarked'
  <2>1. Used = held /\ marked \cap Used = {}
    BY <1>1, <1>4 DEF DeadOnce, DeadAreMarked
  <2>2. Used' = held' /\ marked' \cap Used' = {}
    BY <1>2, <1>3, <2>1
  <2> QED
    BY <1>1, <1>2, <1>4, <2>2 DEF DeadOnce, DeadAreMarked
<1>10. CountsRight'
  BY <1>1, <1>2, <1>3, <1>6 DEF CountsRight
<1>11. PathInv'
  <2>1. \A p \in Pointers : p = nextitem \/ Before(p, nextitem) => Before(p, After(item))
    <3>1. nextitem \in Pointers
      BY <1>1 DEF PoolTypeOK
    <3> QED
      BY <3>1, ItemsAssumption, BlocksAssumption DEF Items, Pointers, After, Before, FirstItem
  <2>2. nextitem'[2] > 0
    BY <1>2 DEF Items, After
  <2> QED
    BY <1>1, <1>2, <2>1, <2>2 DEF PathInv, PoolTypeOK, path
<1> QED
  BY <1>8, <1>9, <1>10, <1>11 DEF PoolInv, PoolInvariant

\* A place that is not the end of its block is an item; and a next block has
\* a first one.
LEMMA PlaceIsItem ==
  ASSUME NEW p \in Pointers
  PROVE  /\ ItemsPerBlock - p[2] > 0 => p \in Items
         /\ ItemsPerBlock - p[2] = 0 => p[2] = ItemsPerBlock
         /\ p[1] < MaxBlocks => /\ FirstItem(p[1] + 1) \in Items
                                /\ FirstItem(p[1] + 1)[1] = p[1] + 1
                                /\ FirstItem(p[1] + 1)[2] = 0
BY ItemsAssumption, BlocksAssumption DEF Items, Pointers, FirstItem

LEMMA AllocHereTakes ==
  ASSUME PoolInv, AllocHere
  PROVE  /\ nextitem \in Items
         /\ PoolInv'
<1>1. /\ nextitem \in Pointers /\ nextitem[1] =< blocks /\ blocks \in 1 .. MaxBlocks
      /\ unallocateditems = ItemsPerBlock - nextitem[2]
  BY DEF PoolInv, PoolTypeOK
<1>2. nextitem \in Items
  BY <1>1, PlaceIsItem DEF AllocHere
<1>3. blocks' \in blocks .. MaxBlocks /\ nextitem[1] =< blocks'
  BY <1>1 DEF AllocHere
<1> QED
  BY <1>1, <1>2, <1>3, PoolInvTake DEF AllocHere

LEMMA AllocNextBlockTakes ==
  ASSUME PoolInv, AllocNextBlock
  PROVE  /\ nextitem[2] = ItemsPerBlock
         /\ FirstItem(nextitem[1] + 1) \in Items
         /\ PoolInv'
<1> DEFINE item == FirstItem(nextitem[1] + 1)
<1>1. /\ nextitem \in Pointers /\ nextitem[1] =< blocks /\ blocks \in 1 .. MaxBlocks
      /\ unallocateditems = ItemsPerBlock - nextitem[2]
  BY DEF PoolInv, PoolTypeOK
<1>2. /\ nextitem[2] = ItemsPerBlock
      /\ item \in Items /\ item[1] = nextitem[1] + 1 /\ item[2] = 0
  BY <1>1, PlaceIsItem DEF AllocNextBlock
<1>3. nextitem[1] \in Int
  BY <1>1 DEF Pointers
<1>4. blocks' \in blocks .. MaxBlocks /\ item[1] =< blocks'
  BY <1>1, <1>2, <1>3, BlocksAssumption DEF AllocNextBlock
<1>5. TakeFrom(item, ItemsPerBlock) /\ deaditemstack = << >>
  BY DEF AllocNextBlock
<1>6. ItemsPerBlock = ItemsPerBlock - item[2]
  BY <1>2, ItemsAssumption
<1> HIDE DEF item
<1>7. item = FirstItem(nextitem[1] + 1)
  BY DEF item
<1>8. PoolInv'
  BY <1>2, <1>4, <1>5, <1>6, <1>7, PoolInvTake
<1> QED
  BY <1>2, <1>8 DEF item

LEMMA PoolInvDealloc ==
  ASSUME PoolInv, Dealloc
  PROVE  PoolInv'
<1>1. PoolTypeOK /\ DeadOnce /\ CountsRight /\ DeadAreMarked /\ PathInv
  BY DEF PoolInv, PoolInvariant
<1>2. PICK item \in held : /\ held' = held \ {item}
                           /\ marked' = marked \cup {item}
                           /\ deaditemstack' = <<item>> \o deaditemstack
  BY DEF Dealloc
<1>3. items' = items - 1 /\ UNCHANGED <<fresh, path, returned>> /\ Used' = Used
  BY DEF Dealloc, fresh, Used
<1>4. item \in Items \ Dead /\ item \in Used
  BY <1>1 DEF PoolTypeOK, DeadOnce
<1>5. /\ deaditemstack' \in Seq(Items)
      /\ Dead' = Dead \cup {item}
      /\ \A k, l \in DOMAIN deaditemstack' : deaditemstack'[k] = deaditemstack'[l] => k = l
  BY <1>1, <1>2, <1>4, PushedDead
<1>6. items' = Cardinality(held') /\ items' \in Nat
  <2>1. IsFiniteSet(held) /\ Cardinality(held) = items
    BY <1>1, ItemsFinite DEF PoolTypeOK, CountsRight
  <2>2. Cardinality(held') = items - 1
    BY <1>2, <2>1, FS_RemoveElement
  <2>3. Cardinality(held') \in Nat
    BY <1>1, <1>2, ItemsFinite DEF PoolTypeOK
  <2> QED
    BY <1>3, <2>2, <2>3
<1>7. PoolTypeOK'
  BY <1>1, <1>2, <1>3, <1>4, <1>5, <1>6 DEF PoolTypeOK, fresh, path
<1>8. DeadOnce' /\ DeadAreMarked'
  BY <1>1, <1>2, <1>3, <1>4, <1>5 DEF DeadOnce, DeadAreMarked
<1>9. CountsRight' /\ PathInv'
  BY <1>1, <1>3, <1>6 DEF CountsRight, PathInv, fresh, path
<1> QED
  BY <1>7, <1>8, <1>9 DEF PoolInv, PoolInvariant

\* Steps of a traversal touch nothing but the traversal.
LEMMA PoolInvPath ==
  ASSUME PoolInv, UNCHANGED <<fresh, items, deaditemstack, held, marked>>
  PROVE  PoolInvariant'
BY DEF PoolInv, PoolInvariant, DeadOnce, CountsRight, DeadAreMarked, Dead, Used, fresh

LEMMA PoolInvBegin ==
  ASSUME PoolInv, TraversalInit
  PROVE  PoolInv'
<1>1. PoolInvariant'
  BY PoolInvPath DEF TraversalInit
<1>2. PoolTypeOK'
  BY BeforeFirst, ItemsAssumption DEF PoolInv, PoolTypeOK, TraversalInit, fresh
<1>3. PathInv'
  <2>1. nextitem \in Pointers
    BY DEF PoolInv, PoolTypeOK
  <2>2. FirstItem(1) = nextitem \/ Before(FirstItem(1), nextitem)
    BY <2>1, ItemsAssumption, BlocksAssumption DEF Pointers, FirstItem, Before
  <2> QED
    BY <2>2 DEF PoolInv, TraversalInit, PathInv, fresh
<1> QED
  BY <1>1, <1>2, <1>3 DEF PoolInv

\* What a traversal meets is an item that was used, and all that it met before
\* are before this one.
LEMMA Met ==
  ASSUME PoolInv, walking, pathitem /= nextitem, NEW item,
         \/ pathitemsleft > 0 /\ item = pathitem
         \/ pathitemsleft = 0 /\ item = FirstItem(pathitem[1] + 1)
  PROVE  /\ item \in Used
         /\ item[1] =< blocks
         /\ \A i \in Items : Before(i, item) <=> Before(i, pathitem)
         /\ After(item) = nextitem \/ Before(After(item), nextitem)
<1>1. /\ pathitem \in Pointers /\ pathitem[1] =< blocks /\ blocks \in 1 .. MaxBlocks
      /\ pathitemsleft = ItemsPerBlock - pathitem[2]
      /\ nextitem \in Pointers /\ nextitem[1] =< blocks
  BY DEF PoolInv, PoolTypeOK
<1>2. Before(pathitem, nextitem)
  BY DEF PoolInv, PathInv
<1>3. /\ item \in Items /\ Before(item, nextitem)
      /\ After(item) = nextitem \/ Before(After(item), nextitem)
      /\ pathitemsleft = 0 => pathitem[2] = ItemsPerBlock
  <2> USE ItemsAssumption, BlocksAssumption DEF Items, Pointers, Before, After, FirstItem
  <2>1. CASE pathitemsleft > 0 /\ item = pathitem
    <3>1. item \in Items /\ Before(item, nextitem)
      BY <1>1, <1>2, <2>1
    <3>2. After(item) = nextitem \/ Before(After(item), nextitem)
      BY <1>1, <1>2, <2>1
    <3> QED
      BY <2>1, <3>1, <3>2
  <2>2. CASE pathitemsleft = 0 /\ item = FirstItem(pathitem[1] + 1)
    <3>1. pathitem[2] = ItemsPerBlock
      BY <1>1, <2>2
    <3>2. pathitem[1] < nextitem[1]
      BY <1>1, <1>2, <3>1
    <3>3. item[1] = pathitem[1] + 1 /\ item[2] = 0 /\ item \in Items
      BY <1>1, <2>2, <3>2
    <3>4. nextitem[1] > item[1] \/ (nextitem[1] = item[1] /\ nextitem[2] > 0)
      BY <1>1, <3>2, <3>3 DEF PoolInv, PathInv
    <3> QED
      BY <1>1, <3>1, <3>3, <3>4
  <2> QED
    BY <2>1, <2>2
<1>4. item \in Used
  BY <1>3 DEF Used
<1>5. item[1] =< blocks
  BY <1>1, <1>3 DEF Items, Pointers, Before
<1>6. \A i \in Items : Before(i, item) <=> Before(i, pathitem)
  BY <1>1, <1>3, BeforeNextBlock
<1> QED
  BY <1>3, <1>4, <1>5, <1>6

LEMMA PoolInvVisit ==
  ASSUME PoolInv, walking, NEW item \in Used, item[1] =< blocks,
         After(item) = nextitem \/ Before(After(item), nextitem),
         Visit(item, ItemsPerBlock - item[2])
  PROVE  PoolInv'
<1>1. PoolInvariant'
  BY PoolInvPath DEF Visit
<1>2. item \in Items
  BY DEF Used
<1>3. /\ After(item) \in Pointers /\ After(item)[1] = item[1]
      /\ (ItemsPerBlock - item[2]) - 1 = ItemsPerBlock - After(item)[2]
  BY <1>2, ItemsAssumption, BlocksAssumption DEF Items, Pointers, After
<1>4. /\ pathitem' = After(item)
      /\ pathitemsleft' = (ItemsPerBlock - item[2]) - 1
      /\ skipping' = (item \in marked)
      /\ returned' \in {returned, item}
      /\ UNCHANGED <<fresh, items, deaditemstack, walking, held, marked>>
  BY DEF Visit
<1>5. PoolTypeOK'
  BY <1>2, <1>3, <1>4 DEF PoolInv, PoolTypeOK, fresh
<1>6. PathInv'
  BY <1>4 DEF PoolInv, PathInv, fresh
<1> QED
  BY <1>1, <1>5, <1>6 DEF PoolInv

LEMMA PoolInvEnd ==
  ASSUME PoolInv, TraverseEnd
  PROVE  PoolInv'
<1>1. PoolInvariant'
  BY PoolInvPath DEF TraverseEnd
<1>2. PoolTypeOK' /\ PathInv'
  BY DEF PoolInv, PoolTypeOK, PathInv, TraverseEnd, fresh
<1> QED
  BY <1>1, <1>2 DEF PoolInv

LEMMA PoolInvBlock ==
  ASSUME PoolInv, TraverseBlock \/ TraverseNextBlock
  PROVE  PoolInv'
<1>1. /\ pathitem \in Pointers
      /\ pathitemsleft = ItemsPerBlock - pathitem[2]
      /\ FirstItem(pathitem[1] + 1)[2] = 0
  BY DEF PoolInv, PoolTypeOK, TraverseBlock, TraverseNextBlock, FirstItem
<1>2. CASE TraverseBlock
  BY <1>1, <1>2, Met, PoolInvVisit DEF TraverseBlock
<1>3. CASE TraverseNextBlock
  <2>1. ItemsPerBlock - FirstItem(pathitem[1] + 1)[2] = ItemsPerBlock
    BY <1>1, ItemsAssumption
  <2> QED
    BY <1>3, <2>1, Met, PoolInvVisit DEF TraverseNextBlock
<1> QED
  BY <1>2, <1>3

LEMMA PoolInvNext == PoolInv /\ [PoolNext]_poolVars => PoolInv'
<1> SUFFICES ASSUME PoolInv, [PoolNext]_poolVars PROVE PoolInv'
  OBVIOUS
<1>1. CASE PoolRestart
  BY <1>1, PoolInvRestart
<1>2. CASE AllocDead
  BY <1>2, PoolInvAllocDead
<1>3. CASE AllocHere
  BY <1>3, AllocHereTakes
<1>4. CASE AllocNextBlock
  BY <1>4, AllocNextBlockTakes
<1>5. CASE Dealloc
  BY <1>5, PoolInvDealloc
<1>6. CASE TraversalInit
  BY <1>6, PoolInvBegin
<1>7. CASE TraverseBlock \/ TraverseNextBlock
  BY <1>7, PoolInvBlock
<1>8. CASE TraverseEnd
  BY <1>8, PoolInvEnd
<1>9. CASE UNCHANGED poolVars
  BY <1>9 DEF poolVars, fresh, path, PoolInv, PoolInvariant, PathInv, PoolTypeOK, DeadOnce,
              CountsRight, DeadAreMarked, Dead, Used
<1> QED
  BY <1>1, <1>2, <1>3, <1>4, <1>5, <1>6, <1>7, <1>8, <1>9 DEF PoolNext

\* A pool has every item in one place, counts them as they are and keeps its
\* pointers inside of blocks that there are (triangle.c:3821-3980).
THEOREM PoolAlwaysRight == PoolSpec => [](PoolTypeOK /\ PoolInvariant)
<1>1. PoolInv => PoolTypeOK /\ PoolInvariant
  BY DEF PoolInv
<1> QED
  BY PoolInvInit, PoolInvNext, <1>1, PTL DEF PoolSpec

----------------------------------------------------------------------------
(* The refinement. *)

\* A step that takes the item that comes next.
LEMMA TakeIsAllocNew ==
  ASSUME PoolInv, PoolInv', NEW item \in Items, NEW left, TakeFrom(item, left),
         deaditemstack = << >>,
         \/ item = nextitem
         \/ nextitem[2] = ItemsPerBlock /\ item = FirstItem(nextitem[1] + 1)
  PROVE  PoolPromise!AllocNew
<1>1. PoolTypeOK /\ DeadOnce /\ PathInv
  BY DEF PoolInv, PoolInvariant
<1>2. /\ held' = held \cup {item} /\ returned' = item
      /\ nextitem' = After(item)
      /\ pathitem' = pathitem /\ walking' = walking
  BY DEF TakeFrom, Give, path
<1>3. item \notin Used /\ Used' = Used \cup {item}
  BY <1>1, <1>2, TakenNext
<1>4. Used = held
  <2>1. Dead = {}
    BY DEF Dead
  <2> QED
    BY <1>1, <2>1 DEF DeadOnce
<1>5. walking => ~Before(item, pathitem)
  <2>1. \A p \in Pointers : p = nextitem \/ Before(p, nextitem) => ~Before(item, p)
    <3>1. nextitem \in Pointers
      BY <1>1 DEF PoolTypeOK
    <3> QED
      BY <3>1, ItemsAssumption, BlocksAssumption DEF Items, Pointers, Before, FirstItem
  <2> QED
    BY <1>1, <2>1 DEF PathInv, PoolTypeOK
<1>6. Owed' = IF walking THEN Owed \cup {item} ELSE {}
  <2>1. CASE walking
    BY <1>2, <1>5, <2>1 DEF Owed
  <2>2. CASE ~walking
    BY <1>2, <2>2 DEF Owed
  <2> QED
    BY <2>1, <2>2
<1> QED
  BY <1>2, <1>3, <1>4, <1>6 DEF PoolPromise!AllocNew

\* A step of a traversal that comes to item.
LEMMA VisitIsMeet ==
  ASSUME PoolInv, walking, NEW item \in Used, NEW left, Visit(item, left),
         \A i \in Items : Before(i, item) <=> Before(i, pathitem)
  PROVE  PoolPromise!Meet \/ UNCHANGED <<held, Used, Owed, walking, returned>>
<1>1. DeadOnce /\ DeadAreMarked /\ held \subseteq Items
  BY DEF PoolInv, PoolInvariant, PoolTypeOK
<1>2. item \in Items /\ ~Before(item, item)
  BY ItemsAssumption DEF Used, Items, Before
<1>3. UNCHANGED <<held, nextitem, walking>> /\ Used' = Used /\ pathitem' = After(item)
  BY DEF Visit, fresh, Used
<1>4. Owed' = Owed \ {item}
  BY <1>1, <1>2, <1>3, BeforeAfter DEF Owed
<1>5. CASE item \in marked
  <2>1. item \notin held
    BY <1>1, <1>5 DEF DeadOnce, DeadAreMarked
  <2> QED
    BY <1>3, <1>4, <1>5, <2>1 DEF Owed, Visit
<1>6. CASE item \notin marked
  <2>1. item \in Owed
    BY <1>1, <1>2, <1>6 DEF DeadOnce, DeadAreMarked, Owed
  <2> QED
    BY <1>3, <1>4, <1>6, <2>1 DEF Visit, PoolPromise!Meet
<1> QED
  BY <1>5, <1>6

LEMMA PoolStep ==
  ASSUME PoolInv, PoolInv', [PoolNext]_poolVars
  PROVE  PoolPromise!Next \/ UNCHANGED <<held, Used, Owed, walking, returned>>
<1>1. CASE PoolRestart
  <2>1. held' = {} /\ Used' = {} /\ Owed' = {} /\ walking' = FALSE /\ returned' = returned
    BY <1>1, BeforeFirst DEF PoolRestart, Used, Owed
  <2> QED
    BY <2>1 DEF PoolPromise!Restart, PoolPromise!Next
<1>2. CASE AllocDead
  <2> DEFINE item == Head(deaditemstack)
  <2>1. /\ held' = held \cup {item} /\ returned' = item
        /\ UNCHANGED <<nextitem, pathitem, walking>> /\ Used' = Used
    BY <1>2 DEF AllocDead, Give, fresh, path, Used
  <2>2. item \in Used \ held
    BY <1>2, PoppedDead DEF AllocDead, PoolInv, PoolInvariant, DeadOnce
  <2> HIDE DEF item
  <2>3. Owed' = Owed \/ (walking /\ Owed' = Owed \cup {item})
    BY <2>1, <2>2 DEF Owed, Used
  <2> QED
    BY <2>1, <2>2, <2>3 DEF PoolPromise!AllocAgain, PoolPromise!Next
<1>3. CASE AllocHere
  BY <1>3, AllocHereTakes, TakeIsAllocNew DEF AllocHere, PoolPromise!Next
<1>4. CASE AllocNextBlock
  BY <1>4, AllocNextBlockTakes, TakeIsAllocNew DEF AllocNextBlock, PoolPromise!Next
<1>5. CASE Dealloc
  <2>1. PICK item \in held : held' = held \ {item}
    BY <1>5 DEF Dealloc
  <2>2. UNCHANGED <<walking, pathitem, returned>> /\ Used' = Used
    BY <1>5 DEF Dealloc, fresh, path, Used
  <2>3. Owed' = Owed \ {item}
    BY <2>1, <2>2 DEF Owed
  <2> QED
    BY <2>1, <2>2, <2>3 DEF PoolPromise!Dealloc, PoolPromise!Next
<1>6. CASE TraversalInit
  <2>1. /\ walking' = TRUE /\ pathitem' = FirstItem(1)
        /\ UNCHANGED <<held, returned>> /\ Used' = Used
    BY <1>6 DEF TraversalInit, fresh, Used
  <2>2. Owed' = held
    BY <2>1, BeforeFirst DEF Owed, PoolInv, PoolTypeOK
  <2> QED
    BY <2>1, <2>2 DEF PoolPromise!Begin, PoolPromise!Next
<1>7. CASE TraverseBlock
  BY <1>7, Met, VisitIsMeet DEF TraverseBlock, PoolPromise!Next
<1>8. CASE TraverseNextBlock
  BY <1>8, Met, VisitIsMeet DEF TraverseNextBlock, PoolPromise!Next
<1>9. CASE TraverseEnd
  <2>1. /\ walking /\ pathitem = nextitem /\ returned' = Null
        /\ UNCHANGED <<held, nextitem, pathitem, walking>> /\ Used' = Used
    BY <1>9 DEF TraverseEnd, fresh, Used
  <2>2. Owed = {} /\ Owed' = {}
    BY <2>1 DEF Owed, PoolInv, PoolInvariant, DeadOnce, Used
  <2> QED
    BY <2>1, <2>2 DEF PoolPromise!End, PoolPromise!Next
<1>10. CASE UNCHANGED poolVars
  BY <1>10 DEF poolVars, fresh, path, Used, Owed
<1> QED
  BY <1>1, <1>2, <1>3, <1>4, <1>5, <1>6, <1>7, <1>8, <1>9, <1>10 DEF PoolNext

\* What pools hand out, take back and traverse is what Pool promises: no item
\* is handed out twice, new ones only when none is left that was given back,
\* and a traversal meets every item that stays in use, and no dead one, also
\* when items come and go meanwhile (triangle.c:3821-3980, 4194-4231).
THEOREM ImplementsPool == PoolSpec => IsPool
<1>1. InitPool => PoolPromise!Init
  <2> SUFFICES ASSUME InitPool PROVE PoolPromise!Init
    OBVIOUS
  <2>1. Used = {} /\ Owed = {}
    BY BeforeFirst DEF InitPool, Used, Owed
  <2> QED
    BY <2>1 DEF InitPool, PoolPromise!Init
<1>2. PoolInv /\ PoolInv' /\ [PoolNext]_poolVars => [PoolPromise!Next]_(PoolPromise!vars)
  BY PoolStep DEF PoolPromise!vars
<1> QED
  BY <1>1, <1>2, PoolAlwaysRight, PoolInvInit, PoolInvNext, PTL
     DEF PoolSpec, IsPool, PoolPromise!Spec

(***************************************************************************)
(* The point tools.                                                        *)
(***************************************************************************)
LEMMA LeastNat ==
  ASSUME NEW T \in SUBSET Nat, T # {}
  PROVE  \E q \in T : \A m \in T : q <= m
<1> DEFINE Upto == {0 .. q : q \in T}
<1>1. Upto \subseteq FiniteSubsetsOf(Nat)
  <2>1. ASSUME NEW q \in T PROVE IsFiniteSet(0 .. q) /\ 0 .. q \in SUBSET Nat
    BY FS_Interval
  <2> QED
    BY <2>1 DEF FiniteSubsetsOf
<1>2. Upto # {}
  OBVIOUS
<1>3. PICK U \in Upto : \A V \in Upto : <<V, U>> \notin StrictSubsetOrdering(Nat)
  BY <1>1, <1>2, FS_StrictSubsetOrderingWellFounded, WFMin
<1>4. PICK q \in T : U = 0 .. q
  OBVIOUS
<1>5. \A m \in T : m < q => 0 .. m \in SUBSET (0 .. q) /\ 0 .. m # 0 .. q
  OBVIOUS
<1>6. \A m \in T : m < q => <<0 .. m, 0 .. q>> \in StrictSubsetOrdering(Nat)
  BY <1>5 DEF StrictSubsetOrdering
<1>7. \A m \in T : <<0 .. m, 0 .. q>> \notin StrictSubsetOrdering(Nat)
  BY <1>3, <1>4
<1>8. \A m \in T : ~(m < q)
  BY <1>6, <1>7
<1> QED
  BY <1>8

\* A set that has 0, and q + 1 with every q, has all of them.
LEMMA InductionOverNat ==
  ASSUME NEW T, 0 \in T, \A q \in Nat : q \in T => q + 1 \in T
  PROVE  Nat \subseteq T
<1> SUFFICES ASSUME Nat \ T # {} PROVE FALSE
  OBVIOUS
<1>1. PICK q \in Nat \ T : \A m \in Nat \ T : q <= m
  BY LeastNat
<1>2. q # 0
  OBVIOUS
<1>3. q - 1 \in Nat /\ q - 1 \in T
  BY <1>1, <1>2
<1> QED
  BY <1>3


(***************************************************************************)
(* The way along the points of an array p.                                 *)
(***************************************************************************)
Apart(p, i, j) == LET abs(k) == IF k < 0 THEN -k ELSE k IN
  abs(p[i][1] - p[j][1]) + abs(p[i][2] - p[j][2])

WayStep(p, f, first, i) == IF i = first THEN 0 ELSE f[i - 1] + Apart(p, i - 1, i)
Ways(p, first, last) ==
  CHOOSE f : f = [i \in first .. last |-> WayStep(p, f, first, i)]

LEMMA WayIsLast ==
  ASSUME NEW first, NEW last
  PROVE  Way(first, last) = Ways(points, first, last)[last]
BY DEF Way, Ways, WayStep, Apart, Distance

LEMMA DistanceIsApart ==
  ASSUME NEW i, NEW j
  PROVE  Distance(i, j) = Apart(points, i, j)
BY DEF Distance, Apart

LEMMA WaysExist ==
  ASSUME NEW p, NEW first \in Nat, NEW last \in Nat, first <= last
  PROVE  LET f == Ways(p, first, last)
         IN  f = [i \in first .. last |-> WayStep(p, f, first, i)]
<1> DEFINE T == {k \in Nat : \E f : f = [i \in first .. first + k |-> WayStep(p, f, first, i)]}
<1>1. 0 \in T
  <2> DEFINE f == [i \in first .. first + 0 |-> 0]
  <2>1. f = [i \in first .. first + 0 |-> WayStep(p, f, first, i)]
    BY DEF WayStep
  <2> HIDE DEF f
  <2> QED
    BY <2>1
<1>2. ASSUME NEW k \in Nat, k \in T PROVE k + 1 \in T
  <2>1. PICK f : f = [i \in first .. first + k |-> WayStep(p, f, first, i)]
    BY <1>2
  <2> DEFINE g == [i \in first .. first + (k + 1) |->
                     IF i <= first + k THEN f[i] ELSE WayStep(p, f, first, i)]
  <2>2. ASSUME NEW i \in first .. first + (k + 1) PROVE g[i] = WayStep(p, g, first, i)
    <3>1. WayStep(p, g, first, i) = WayStep(p, f, first, i)
      BY DEF WayStep
    <3>2. g[i] = WayStep(p, f, first, i)
      <4>1. CASE i <= first + k
        <5>1. i \in first .. first + k
          BY <4>1
        <5>2. f[i] = WayStep(p, f, first, i)
          BY <2>1, <5>1, SMTT(30) DEF WayStep
        <5> QED
          BY <4>1, <5>2
      <4>2. CASE ~(i <= first + k)
        BY <4>2
      <4> QED
        BY <4>1, <4>2
    <3> QED
      BY <3>1, <3>2
  <2>3. g = [i \in first .. first + (k + 1) |-> WayStep(p, g, first, i)]
    BY <2>2
  <2> HIDE DEF g
  <2> QED
    BY <2>3
<1> HIDE DEF T
<1>5. Nat \subseteq T
  BY <1>1, <1>2, InductionOverNat
<1>6. last - first \in Nat
  OBVIOUS
<1>3. last - first \in T
  BY <1>5, <1>6
<1> USE DEF T
<1>4. first + (last - first) = last
  OBVIOUS
<1> QED
  BY <1>3, <1>4 DEF Ways

\* The way to the next point is longer by one distance.
LEMMA WayGrows ==
  ASSUME NEW p, NEW first \in Nat, NEW last \in Nat, first <= last
  PROVE  Ways(p, first, last + 1)[last + 1] =
           Ways(p, first, last)[last] + Apart(p, last, last + 1)
<1> DEFINE f == Ways(p, first, last)
           g == Ways(p, first, last + 1)
           T == {k \in Nat : first + k <= last => f[first + k] = g[first + k]}
<1>1. f = [i \in first .. last |-> WayStep(p, f, first, i)]
  BY WaysExist
<1>2. g = [i \in first .. last + 1 |-> WayStep(p, g, first, i)]
  BY WaysExist
<1> HIDE DEF f, g
<1>3. 0 \in T
  BY <1>1, <1>2 DEF WayStep
<1>4. ASSUME NEW k \in Nat, k \in T PROVE k + 1 \in T
  <2> SUFFICES ASSUME first + (k + 1) <= last PROVE f[first + (k + 1)] = g[first + (k + 1)]
    OBVIOUS
  <2> DEFINE i == first + (k + 1)
  <2>1. i \in first .. last /\ i - 1 = first + k /\ i # first
    OBVIOUS
  <2>2. f[i - 1] = g[i - 1]
    BY <1>4, <2>1
  <2> HIDE DEF i
  <2>5. f[i] = WayStep(p, f, first, i)
    <3> HIDE DEF T
    <3> QED
      BY <1>1, <2>1 DEF WayStep
  <2>6. g[i] = WayStep(p, g, first, i)
    <3>1. i \in first .. last + 1
      BY <2>1
    <3> QED
      BY <1>2, <3>1 DEF WayStep
  <2>3. f[i] = WayStep(p, f, first, i) /\ g[i] = WayStep(p, g, first, i)
    BY <2>5, <2>6
  <2>4. f[i] = g[i]
    BY <2>1, <2>2, <2>3 DEF WayStep
  <2> QED
    BY <2>4 DEF i
<1> HIDE DEF T
<1>9. Nat \subseteq T
  BY <1>3, <1>4, InductionOverNat
<1>10. last - first \in Nat
  OBVIOUS
<1>5. last - first \in T
  BY <1>9, <1>10
<1> USE DEF T
<1>6. f[last] = g[last]
  BY <1>5
<1>7. g[last + 1] = WayStep(p, g, first, last + 1)
  BY <1>2
<1>8. g[last + 1] = g[last] + Apart(p, last, last + 1)
  BY <1>7 DEF WayStep
<1> QED
  BY <1>6, <1>8 DEF f, g

LEMMA WayStarts ==
  ASSUME NEW p, NEW first \in Nat
  PROVE  Ways(p, first, first)[first] = 0
<1> DEFINE f == Ways(p, first, first)
<1>1. f = [i \in first .. first |-> WayStep(p, f, first, i)]
  BY WaysExist
<1> HIDE DEF f
<1>2. f[first] = 0
  BY <1>1 DEF WayStep
<1> QED
  BY <1>2 DEF f
(***************************************************************************)
(* points_thinlin.                                                         *)
(***************************************************************************)
\* A cluster from one point to another that are given, as ClustersRight says.
IsCluster(p, C, first, last, rmax) ==
  /\ first \in 1 .. Len(p) /\ last \in first .. Len(p)
  /\ C = first .. last
  /\ \A i \in C : p[i] \in Axis \X Axis
  /\ Ways(p, first, last)[last] \in 0 .. rmax
  /\ \A i \in first .. last - 1 : Apart(p, i, i + 1) <= rmax

TypeInv ==
  /\ points \in Seq((Axis \X Axis) \cup {NaN})
  /\ task \in Tasks
  /\ read \in 0 .. Len(points)
  /\ averaged \in Seq(SUBSET Int)

\* The cluster at hand ends at the point that was read last, after all that
\* were written, and sum_r is its length.
ClusterInv ==
  cluster /= {} =>
    \E first \in 1 .. read :
      /\ IsCluster(points, cluster, first, read, task.rmax)
      /\ sum_r = Ways(points, first, read)[read]

WrittenInv ==
  /\ \A k \in 1 .. Len(averaged) : \E first, last \in 1 .. read :
       IsCluster(points, averaged[k], first, last, task.rmax)
  /\ \A k, l \in 1 .. Len(averaged) : k /= l => averaged[k] \cap averaged[l] = {}
  /\ \A k \in 1 .. Len(averaged) : \A j \in averaged[k], i \in cluster : j < i

LinInv == TypeInv /\ (Thins => ClusterInv /\ WrittenInv)

LEMMA TaskType ==
  ASSUME task \in Tasks
  PROVE  /\ Thins => task.rmax \in Nat
         /\ ~Thins => task.nx \in Nat /\ task.ny \in Nat
BY ThinAssumption DEF Thins

LEMMA ApartNat ==
  ASSUME NEW p, NEW i, NEW j, p[i] \in Axis \X Axis, p[j] \in Axis \X Axis
  PROVE  Apart(p, i, j) \in Nat
<1>1. p[i][1] \in Int /\ p[i][2] \in Int /\ p[j][1] \in Int /\ p[j][2] \in Int
  BY ThinAssumption
<1> DEFINE abs(k) == IF k < 0 THEN -k ELSE k
<1>2. \A k \in Int : abs(k) \in Nat
  OBVIOUS
<1> HIDE DEF abs
<1>3. abs(p[i][1] - p[j][1]) \in Nat /\ abs(p[i][2] - p[j][2]) \in Nat
  BY <1>1, <1>2
<1>4. Apart(p, i, j) = abs(p[i][1] - p[j][1]) + abs(p[i][2] - p[j][2])
  BY DEF Apart, abs
<1> QED
  BY <1>3, <1>4

LEMMA OnePointCluster ==
  ASSUME NEW p, Len(p) \in Nat, NEW i \in 1 .. Len(p), p[i] \in Axis \X Axis,
         NEW rmax \in Nat
  PROVE  IsCluster(p, {i}, i, i, rmax)
<1>1. {i} = i .. i
  OBVIOUS
<1>2. Ways(p, i, i)[i] = 0
  BY WayStarts
<1> QED
  BY <1>1, <1>2 DEF IsCluster

LEMMA ClusterGrows ==
  ASSUME NEW p, Len(p) \in Nat, NEW C, NEW first, NEW last, NEW rmax \in Nat,
         IsCluster(p, C, first, last, rmax),
         last + 1 \in 1 .. Len(p), p[last + 1] \in Axis \X Axis,
         Ways(p, first, last)[last] + Apart(p, last, last + 1) <= rmax
  PROVE  /\ IsCluster(p, C \cup {last + 1}, first, last + 1, rmax)
         /\ Ways(p, first, last + 1)[last + 1] =
              Ways(p, first, last)[last] + Apart(p, last, last + 1)
<1>1. /\ first \in 1 .. Len(p) /\ last \in first .. Len(p) /\ C = first .. last
      /\ Ways(p, first, last)[last] \in 0 .. rmax
      /\ p[last] \in Axis \X Axis
  BY DEF IsCluster
<1>2. Apart(p, last, last + 1) \in Nat
  BY <1>1, ApartNat
<1>3. Ways(p, first, last + 1)[last + 1] =
        Ways(p, first, last)[last] + Apart(p, last, last + 1)
  BY <1>1, WayGrows
<1>4. C \cup {last + 1} = first .. last + 1
  BY <1>1
<1>5. \A i \in C \cup {last + 1} : p[i] \in Axis \X Axis
  BY <1>1 DEF IsCluster
<1>6. \A i \in first .. (last + 1) - 1 : Apart(p, i, i + 1) <= rmax
  <2> SUFFICES ASSUME NEW i \in first .. (last + 1) - 1 PROVE Apart(p, i, i + 1) <= rmax
    OBVIOUS
  <2>1. CASE i = last
    BY <1>1, <1>2, <2>1
  <2>2. CASE i # last
    <3>1. i \in first .. last - 1
      BY <1>1, <2>2
    <3> QED
      BY <3>1 DEF IsCluster
  <2> QED
    BY <2>1, <2>2
<1>7. Ways(p, first, last + 1)[last + 1] \in 0 .. rmax
  BY <1>1, <1>2, <1>3
<1>8. first \in 1 .. Len(p) /\ last + 1 \in first .. Len(p)
  BY <1>1
<1> QED
  BY <1>3, <1>4, <1>5, <1>6, <1>7, <1>8 DEF IsCluster

LEMMA LinInit == InitThin => LinInv
<1> SUFFICES ASSUME InitThin PROVE LinInv
  OBVIOUS
<1>1. PICK q \in 0 .. MaxPoints : points \in [1 .. q -> (Axis \X Axis) \cup {NaN}]
  BY DEF InitThin
<1>2. q \in Nat
  BY ThinAssumption
<1>3. points \in Seq((Axis \X Axis) \cup {NaN}) /\ Len(points) = q
  BY <1>1, <1>2, SeqDef, LenProperties
<1>4. averaged = << >> /\ averaged \in Seq(SUBSET Int) /\ Len(averaged) = 0
  BY EmptySeq DEF InitThin
<1>5. cluster = {} /\ read = 0
  BY DEF InitThin
<1> QED
  BY <1>2, <1>3, <1>4, <1>5 DEF LinInv, TypeInv, ClusterInv, WrittenInv, InitThin

\* A cluster is written after the others.
LEMMA ClusterWritten ==
  ASSUME LinInv, Thins, cluster /= {}, read < Len(points),
         points' = points, task' = task, read' = read + 1, WriteCluster
  PROVE  LinInv'
<1>1. PICK first \in 1 .. read : IsCluster(points, cluster, first, read, task.rmax)
  BY DEF LinInv, ClusterInv
<1>2. cluster = first .. read /\ read \in Nat /\ Len(points) \in Nat
  BY <1>1 DEF IsCluster, LinInv, TypeInv
<1> DEFINE new == Append(averaged, cluster)
<1>3. /\ averaged \in Seq(SUBSET Int) /\ Len(averaged) \in Nat
      /\ cluster \in SUBSET Int
  BY <1>2 DEF LinInv, TypeInv
<1>4. /\ new \in Seq(SUBSET Int) /\ Len(new) = Len(averaged) + 1
      /\ \A k \in 1 .. Len(averaged) : new[k] = averaged[k]
      /\ new[Len(averaged) + 1] = cluster
  BY <1>3, AppendProperties
<1>5. averaged' = new /\ cluster' = {}
  BY DEF WriteCluster
<1> HIDE DEF new
<1>6. TypeInv'
  BY <1>2, <1>4, <1>5 DEF LinInv, TypeInv
<1>7. ClusterInv'
  BY <1>5 DEF ClusterInv
<1>8. WrittenInv'
  <2>1. \A k \in 1 .. Len(new) : \E f, l \in 1 .. read + 1 :
          IsCluster(points, new[k], f, l, task.rmax)
    <3> SUFFICES ASSUME NEW k \in 1 .. Len(new)
                 PROVE  \E f, l \in 1 .. read + 1 : IsCluster(points, new[k], f, l, task.rmax)
      OBVIOUS
    <3>1. CASE k \in 1 .. Len(averaged)
      <4>1. PICK f \in 1 .. read, l \in 1 .. read : IsCluster(points, averaged[k], f, l, task.rmax)
        BY <3>1 DEF LinInv, WrittenInv
      <4>2. f \in 1 .. read + 1 /\ l \in 1 .. read + 1
        BY <1>2
      <4> QED
        BY <1>4, <3>1, <4>1, <4>2
    <3>2. CASE k = Len(averaged) + 1
      <4>1. first \in 1 .. read + 1 /\ read \in 1 .. read + 1
        BY <1>2
      <4> QED
        BY <1>1, <1>4, <3>2, <4>1
    <3> QED
      BY <1>3, <1>4, <3>1, <3>2
  <2>2. \A k \in 1 .. Len(averaged) : \A j \in averaged[k], i \in cluster : j < i
    BY DEF LinInv, WrittenInv
  <2>3. \A k \in 1 .. Len(averaged) : averaged[k] \subseteq Int
    BY <1>3
  <2>4. \A k \in 1 .. Len(averaged) : averaged[k] \cap cluster = {}
    <3> SUFFICES ASSUME NEW k \in 1 .. Len(averaged), NEW j \in averaged[k], j \in cluster
                 PROVE  FALSE
      OBVIOUS
    <3>1. j \in Int /\ j < j
      BY <2>2, <2>3
    <3> QED
      BY <3>1
  <2>5. \A k, l \in 1 .. Len(new) : k /= l => new[k] \cap new[l] = {}
    <3> SUFFICES ASSUME NEW k \in 1 .. Len(new), NEW l \in 1 .. Len(new), k /= l
                 PROVE  new[k] \cap new[l] = {}
      OBVIOUS
    <3>1. CASE k \in 1 .. Len(averaged) /\ l \in 1 .. Len(averaged)
      <4>1. averaged[k] \cap averaged[l] = {}
        BY <3>1 DEF LinInv, WrittenInv
      <4> QED
        BY <1>4, <3>1, <4>1
    <3>2. CASE k \in 1 .. Len(averaged) /\ l = Len(averaged) + 1
      BY <1>4, <2>4, <3>2
    <3>3. CASE l \in 1 .. Len(averaged) /\ k = Len(averaged) + 1
      BY <1>4, <2>4, <3>3
    <3> QED
      BY <1>3, <1>4, <3>1, <3>2, <3>3
  <2> QED
    BY <1>5, <2>1, <2>5 DEF WrittenInv
<1> QED
  BY <1>6, <1>7, <1>8 DEF LinInv
\* A point that is read joins or begins the cluster at hand; the clusters that
\* were written stay as they are.
LEMMA ClusterAtHand ==
  ASSUME LinInv, Thins, read < Len(points),
         points' = points, task' = task, read' = read + 1, averaged' = averaged,
         cluster' = cluster \cup {read + 1},
         NEW first \in 1 .. read + 1,
         IsCluster(points, cluster', first, read + 1, task.rmax),
         sum_r' = Ways(points, first, read + 1)[read + 1]
  PROVE  LinInv'
<1>1. read \in Nat /\ Len(points) \in Nat
  BY DEF LinInv, TypeInv
<1>2. TypeInv'
  BY <1>1 DEF LinInv, TypeInv
<1>3. ClusterInv'
  BY DEF ClusterInv
<1>4. WrittenInv'
  <2>1. \A k \in 1 .. Len(averaged) : \E f, l \in 1 .. read + 1 :
          IsCluster(points, averaged[k], f, l, task.rmax)
    <3> SUFFICES ASSUME NEW k \in 1 .. Len(averaged)
                 PROVE  \E f, l \in 1 .. read + 1 : IsCluster(points, averaged[k], f, l, task.rmax)
      OBVIOUS
    <3>1. PICK f \in 1 .. read, l \in 1 .. read : IsCluster(points, averaged[k], f, l, task.rmax)
      BY DEF LinInv, WrittenInv
    <3>2. f \in 1 .. read + 1 /\ l \in 1 .. read + 1
      BY <1>1
    <3> QED
      BY <3>1, <3>2
  <2>2. \A k \in 1 .. Len(averaged) : \A j \in averaged[k], i \in cluster' : j < i
    <3> SUFFICES ASSUME NEW k \in 1 .. Len(averaged), NEW j \in averaged[k],
                        NEW i \in cluster'
                 PROVE  j < i
      OBVIOUS
    <3>1. PICK f \in 1 .. read, l \in 1 .. read : IsCluster(points, averaged[k], f, l, task.rmax)
      BY DEF LinInv, WrittenInv
    <3>2. j \in 1 .. read
      BY <1>1, <3>1 DEF IsCluster
    <3>3. CASE i = read + 1
      BY <1>1, <3>2, <3>3
    <3>4. CASE i \in cluster
      BY <3>4 DEF LinInv, WrittenInv
    <3> QED
      BY <3>3, <3>4
  <2> QED
    BY <2>1, <2>2 DEF LinInv, WrittenInv
<1> QED
  BY <1>2, <1>3, <1>4 DEF LinInv

LEMMA PointRead ==
  ASSUME LinInv, read < Len(points), points[read + 1] /= NaN
  PROVE  /\ read + 1 \in 1 .. Len(points) /\ read \in Nat /\ Len(points) \in Nat
         /\ points[read + 1] \in Axis \X Axis
<1>1. read \in Nat /\ Len(points) \in Nat /\ read + 1 \in 1 .. Len(points)
  BY DEF LinInv, TypeInv
<1>2. points[read + 1] \in (Axis \X Axis) \cup {NaN}
  BY <1>1 DEF LinInv, TypeInv
<1> QED
  BY <1>1, <1>2

LEMMA LinStep ==
  ASSUME LinInv, SkipNaN \/ InitCluster \/ EndCluster \/ AddToCluster
  PROVE  LinInv'
<1>1. /\ Thins /\ read < Len(points) /\ read' = read + 1
      /\ points' = points /\ task' = task
  BY DEF SkipNaN, InitCluster, EndCluster, AddToCluster, Reads, N
<1>2. task.rmax \in Nat
  BY <1>1, TaskType DEF LinInv, TypeInv
<1>3. CASE SkipNaN
  <2>1. CASE cluster = {}
    <3>1. UNCHANGED <<averaged, cluster, sum_r>> /\ points[read + 1] = NaN
      BY <1>3, <2>1 DEF SkipNaN
    <3>2. read \in Nat /\ Len(points) \in Nat
      BY DEF LinInv, TypeInv
    <3>3. TypeInv'
      BY <1>1, <3>1, <3>2 DEF LinInv, TypeInv
    <3>4. ClusterInv'
      BY <2>1, <3>1 DEF ClusterInv
    <3>5. WrittenInv'
      <4>1. \A k \in 1 .. Len(averaged) : \E f, l \in 1 .. read + 1 :
              IsCluster(points, averaged[k], f, l, task.rmax)
        <5> SUFFICES ASSUME NEW k \in 1 .. Len(averaged)
                     PROVE  \E f, l \in 1 .. read + 1 :
                              IsCluster(points, averaged[k], f, l, task.rmax)
          OBVIOUS
        <5>1. PICK f \in 1 .. read, l \in 1 .. read :
                     IsCluster(points, averaged[k], f, l, task.rmax)
          BY <1>1 DEF LinInv, WrittenInv
        <5>2. f \in 1 .. read + 1 /\ l \in 1 .. read + 1
          BY <3>2
        <5> QED
          BY <5>1, <5>2
      <4> QED
        BY <1>1, <3>1, <4>1 DEF LinInv, WrittenInv
    <3> QED
      BY <3>3, <3>4, <3>5 DEF LinInv
  <2>2. CASE cluster /= {}
    BY <1>1, <1>3, <2>2, ClusterWritten DEF SkipNaN
  <2> QED
    BY <2>1, <2>2
<1>4. CASE InitCluster
  <2>1. /\ points[read + 1] /= NaN /\ cluster = {} /\ cluster' = {read + 1}
        /\ sum_r' = 0 /\ averaged' = averaged
    BY <1>4 DEF InitCluster
  <2>2. /\ read + 1 \in 1 .. Len(points) /\ read \in Nat /\ Len(points) \in Nat
        /\ points[read + 1] \in Axis \X Axis
    BY <1>1, <2>1, PointRead
  <2>3. IsCluster(points, {read + 1}, read + 1, read + 1, task.rmax)
    BY <1>2, <2>2, OnePointCluster
  <2>4. sum_r' = Ways(points, read + 1, read + 1)[read + 1]
    BY <2>1, <2>2, WayStarts
  <2>5. read + 1 \in 1 .. read + 1 /\ cluster' = cluster \cup {read + 1}
    BY <2>1, <2>2
  <2> QED
    BY <1>1, <2>1, <2>3, <2>4, <2>5, ClusterAtHand
<1>5. CASE EndCluster
  BY <1>1, <1>5, ClusterWritten DEF EndCluster
<1>6. CASE AddToCluster
  <2>1. /\ points[read + 1] /= NaN /\ cluster /= {} /\ ~TooFar
        /\ cluster' = cluster \cup {read + 1} /\ averaged' = averaged
        /\ sum_r' = sum_r + Apart(points, read, read + 1)
    BY <1>6, DistanceIsApart DEF AddToCluster
  <2>2. /\ read + 1 \in 1 .. Len(points) /\ read \in Nat /\ Len(points) \in Nat
        /\ points[read + 1] \in Axis \X Axis
    BY <1>1, <2>1, PointRead
  <2>3. PICK first \in 1 .. read :
          /\ IsCluster(points, cluster, first, read, task.rmax)
          /\ sum_r = Ways(points, first, read)[read]
    BY <1>1, <2>1 DEF LinInv, ClusterInv
  <2>4. ~(sum_r + Apart(points, read, read + 1) > task.rmax)
    BY <2>1, DistanceIsApart DEF TooFar
  <2>5. sum_r \in Nat /\ Apart(points, read, read + 1) \in Nat
    <3>1. sum_r \in 0 .. task.rmax
      BY <2>3 DEF IsCluster
    <3>2. points[read] \in Axis \X Axis
      BY <2>2, <2>3 DEF IsCluster
    <3> QED
      BY <1>2, <2>2, <3>1, <3>2, ApartNat
  <2>6. Ways(points, first, read)[read] + Apart(points, read, read + 1) <= task.rmax
    BY <1>2, <2>3, <2>4, <2>5
  <2>7. /\ IsCluster(points, cluster \cup {read + 1}, first, read + 1, task.rmax)
        /\ Ways(points, first, read + 1)[read + 1] =
             Ways(points, first, read)[read] + Apart(points, read, read + 1)
    BY <1>2, <2>2, <2>3, <2>6, ClusterGrows
  <2>8. first \in 1 .. read + 1
    BY <2>2
  <2>9. sum_r' = Ways(points, first, read + 1)[read + 1]
    BY <2>1, <2>3, <2>7
  <2> QED
    BY <1>1, <2>1, <2>7, <2>8, <2>9, ClusterAtHand
<1> QED
  BY <1>3, <1>4, <1>5, <1>6

LEMMA IntervalEnds ==
  ASSUME NEW first \in Int, NEW last \in Int, first <= last
  PROVE  Min(first .. last) = first /\ Max(first .. last) = last
<1>1. \A m \in first .. last : (\A y \in first .. last : m <= y) => m = first
  OBVIOUS
<1>2. \A m \in first .. last : (\A y \in first .. last : m >= y) => m = last
  OBVIOUS
<1>3. first \in first .. last /\ \A y \in first .. last : first <= y
  OBVIOUS
<1>4. last \in first .. last /\ \A y \in first .. last : last >= y
  OBVIOUS
<1> QED
  BY <1>1, <1>2, <1>3, <1>4 DEF Min, Max

LEMMA LinRight ==
  ASSUME LinInv, Thins
  PROVE  OnceOnly /\ ClustersRight
<1>0. /\ TypeInv /\ ClusterInv /\ WrittenInv
      /\ read \in Nat /\ Len(points) \in Nat
      /\ DOMAIN averaged = 1 .. Len(averaged) /\ Len(averaged) \in Nat
  BY DEF LinInv, TypeInv
<1>1. OnceOnly
  BY <1>0 DEF OnceOnly, WrittenInv
<1>2. ASSUME NEW k \in DOMAIN averaged
      PROVE  LET first == Min(averaged[k]) IN LET last == Max(averaged[k]) IN
             /\ averaged[k] = first .. last
             /\ \A i \in first .. last - 1 : Distance(i, i + 1) <= task.rmax
             /\ Way(first, last) <= task.rmax
  <2>1. PICK first \in 1 .. read, last \in 1 .. read :
          IsCluster(points, averaged[k], first, last, task.rmax)
    BY <1>0 DEF WrittenInv
  <2>2. averaged[k] = first .. last /\ first <= last /\ first \in Int /\ last \in Int
    BY <1>0, <2>1 DEF IsCluster
  <2>3. Min(averaged[k]) = first /\ Max(averaged[k]) = last
    BY <2>2, IntervalEnds
  <2>4. \A i \in first .. last - 1 : Distance(i, i + 1) <= task.rmax
    BY <2>1, DistanceIsApart DEF IsCluster
  <2>5. task.rmax \in Nat
    BY <1>0, TaskType DEF TypeInv
  <2>6. Way(first, last) <= task.rmax
    BY <2>1, <2>5, WayIsLast DEF IsCluster
  <2> QED
    BY <2>2, <2>3, <2>4, <2>6
<1> QED
  BY <1>0, <1>1, <1>2 DEF ClustersRight
(***************************************************************************)
(* points_thingrid: the cells that have points, one after the other.       *)
(***************************************************************************)
FullStep(c, f, k) == IF k = 0 THEN << >>
                     ELSE IF c[k - 1] = {} THEN f[k - 1] ELSE Append(f[k - 1], c[k - 1])
FullLoop(c, M) == CHOOSE f : f = [k \in 0 .. M |-> FullStep(c, f, k)]

LEMMA FullLoopExists ==
  ASSUME NEW c, NEW M \in Nat
  PROVE  FullLoop(c, M) = [k \in 0 .. M |-> FullStep(c, FullLoop(c, M), k)]
<1> DEFINE T == {m \in Nat : \E f : f = [k \in 0 .. m |-> FullStep(c, f, k)]}
<1>1. 0 \in T
  <2> DEFINE f == [k \in 0 .. 0 |-> << >>]
  <2>1. f = [k \in 0 .. 0 |-> FullStep(c, f, k)]
    BY DEF FullStep
  <2> QED
    BY <2>1
<1>2. ASSUME NEW m \in Nat, m \in T PROVE m + 1 \in T
  <2>1. PICK f : f = [k \in 0 .. m |-> FullStep(c, f, k)]
    BY <1>2
  <2> DEFINE g == [k \in 0 .. m + 1 |-> IF k <= m THEN f[k] ELSE FullStep(c, f, k)]
  <2>2. ASSUME NEW k \in 0 .. m + 1 PROVE g[k] = FullStep(c, g, k)
    <3>1. FullStep(c, g, k) = FullStep(c, f, k)
      BY DEF FullStep
    <3>2. g[k] = FullStep(c, f, k)
      BY <2>1
    <3> QED
      BY <3>1, <3>2
  <2>3. g = [k \in 0 .. m + 1 |-> FullStep(c, g, k)]
    BY <2>2
  <2> HIDE DEF g
  <2>4. \E h : h = [k \in 0 .. m + 1 |-> FullStep(c, h, k)]
    BY <2>3
  <2> QED
    BY <2>4
<1>3. M \in T
  BY <1>1, <1>2, InductionOverNat
<1> QED
  BY <1>3 DEF FullLoop

\* A sequence of those of the first q cells that have points, each once.
FullOnes(s, c, q) ==
  /\ s \in Seq(SUBSET Int)
  /\ \A j \in 1 .. Len(s) : \E k \in 0 .. q - 1 : s[j] = c[k]
  /\ \A k \in 0 .. q - 1 : c[k] /= {} => \E j \in 1 .. Len(s) : s[j] = c[k]
  /\ \A j, l \in 1 .. Len(s) : j /= l => s[j] \cap s[l] = {}

LEMMA AppendFull ==
  ASSUME NEW q \in Nat, NEW c, NEW s, FullOnes(s, c, q), c[q] \in SUBSET Int,
         \A k \in 0 .. q - 1 : c[k] \cap c[q] = {}
  PROVE  /\ c[q] = {} => FullOnes(s, c, q + 1)
         /\ c[q] /= {} => FullOnes(Append(s, c[q]), c, q + 1)
<1>1. s \in Seq(SUBSET Int) /\ Len(s) \in Nat /\ (q + 1) - 1 = q
  BY DEF FullOnes
<1>2. CASE c[q] = {}
  <2>1. \A j \in 1 .. Len(s) : \E k \in 0 .. q : s[j] = c[k]
    <3> SUFFICES ASSUME NEW j \in 1 .. Len(s) PROVE \E k \in 0 .. q : s[j] = c[k]
      OBVIOUS
    <3>1. PICK k \in 0 .. q - 1 : s[j] = c[k]
      BY DEF FullOnes
    <3>2. k \in 0 .. q
      OBVIOUS
    <3> QED
      BY <3>1, <3>2
  <2>2. \A k \in 0 .. q : c[k] /= {} => k \in 0 .. q - 1
    BY <1>2
  <2>3. \A k \in 0 .. q : c[k] /= {} => \E j \in 1 .. Len(s) : s[j] = c[k]
    BY <2>2 DEF FullOnes
  <2> QED
    BY <1>1, <1>2, <2>1, <2>3 DEF FullOnes
<1>3. CASE c[q] /= {}
  <2> DEFINE t == Append(s, c[q])
  <2>1. /\ t \in Seq(SUBSET Int) /\ Len(t) = Len(s) + 1
        /\ \A j \in 1 .. Len(s) : t[j] = s[j]
        /\ t[Len(s) + 1] = c[q]
    BY <1>1, AppendProperties
  <2> HIDE DEF t
  <2>2. \A j \in 1 .. Len(t) : \E k \in 0 .. q : t[j] = c[k]
    <3> SUFFICES ASSUME NEW j \in 1 .. Len(t) PROVE \E k \in 0 .. q : t[j] = c[k]
      OBVIOUS
    <3>1. CASE j = Len(s) + 1
      BY <2>1, <3>1
    <3>2. CASE j \in 1 .. Len(s)
      <4>1. PICK k \in 0 .. q - 1 : s[j] = c[k]
        BY <3>2 DEF FullOnes
      <4>2. k \in 0 .. q
        OBVIOUS
      <4> QED
        BY <2>1, <3>2, <4>1, <4>2
    <3> QED
      BY <1>1, <2>1, <3>1, <3>2
  <2>3. ASSUME NEW k \in 0 .. q, c[k] /= {} PROVE \E j \in 1 .. Len(t) : t[j] = c[k]
    <3>1. CASE k = q
      BY <1>1, <2>1, <3>1
    <3>2. CASE k \in 0 .. q - 1
      <4>1. PICK j \in 1 .. Len(s) : s[j] = c[k]
        BY <2>3, <3>2 DEF FullOnes
      <4> QED
        BY <1>1, <2>1, <4>1
    <3> QED
      BY <3>1, <3>2
  <2>4. \A j \in 1 .. Len(s) : s[j] \cap c[q] = {}
    BY DEF FullOnes
  <2>5. ASSUME NEW j \in 1 .. Len(t), NEW l \in 1 .. Len(t), j /= l
        PROVE  t[j] \cap t[l] = {}
    <3>1. CASE j \in 1 .. Len(s) /\ l \in 1 .. Len(s)
      <4>1. s[j] \cap s[l] = {}
        BY <2>5, <3>1 DEF FullOnes
      <4> QED
        BY <2>1, <3>1, <4>1
    <3>2. CASE j \in 1 .. Len(s) /\ l = Len(s) + 1
      BY <2>1, <2>4, <3>2
    <3>3. CASE l \in 1 .. Len(s) /\ j = Len(s) + 1
      BY <2>1, <2>4, <3>3
    <3> QED
      BY <1>1, <2>1, <2>5, <3>1, <3>2, <3>3
  <2>6. FullOnes(t, c, q + 1)
    BY <1>1, <2>1, <2>2, <2>3, <2>5 DEF FullOnes
  <2> QED
    BY <1>3, <2>6 DEF t
<1> QED
  BY <1>2, <1>3

LEMMA LoopFull ==
  ASSUME NEW M \in Nat, NEW c,
         \A k \in 0 .. M - 1 : c[k] \in SUBSET Int,
         \A k, l \in 0 .. M - 1 : k /= l => c[k] \cap c[l] = {}
  PROVE  FullOnes(FullLoop(c, M)[M], c, M)
<1> DEFINE f == FullLoop(c, M)
           T == {q \in Nat : q <= M => FullOnes(f[q], c, q)}
<1>1. f = [k \in 0 .. M |-> FullStep(c, f, k)]
  BY FullLoopExists
<1> HIDE DEF f
<1>2. 0 \in T
  <2>1. f[0] = << >>
    BY <1>1 DEF FullStep
  <2>2. << >> \in Seq(SUBSET Int) /\ Len(<< >>) = 0
    BY EmptySeq
  <2>3. FullOnes(<< >>, c, 0)
    BY <2>2 DEF FullOnes
  <2> QED
    BY <2>1, <2>3
<1>3. ASSUME NEW q \in Nat, q \in T PROVE q + 1 \in T
  <2> SUFFICES ASSUME q + 1 <= M PROVE FullOnes(f[q + 1], c, q + 1)
    OBVIOUS
  <2>1. FullOnes(f[q], c, q)
    BY <1>3
  <2>2. q + 1 \in 0 .. M /\ q + 1 /= 0 /\ (q + 1) - 1 = q
    OBVIOUS
  <2>3. f[q + 1] = IF c[q] = {} THEN f[q] ELSE Append(f[q], c[q])
    BY <1>1, <2>2 DEF FullStep
  <2>4. c[q] \in SUBSET Int /\ \A k \in 0 .. q - 1 : c[k] \cap c[q] = {}
    OBVIOUS
  <2>5. /\ c[q] = {} => FullOnes(f[q], c, q + 1)
        /\ c[q] /= {} => FullOnes(Append(f[q], c[q]), c, q + 1)
    BY <2>1, <2>4, AppendFull
  <2> QED
    BY <2>3, <2>5
<1>4. Nat \subseteq T
  BY <1>2, <1>3, InductionOverNat
<1>5. FullOnes(f[M], c, M)
  BY <1>4
<1> QED
  BY <1>5 DEF f

LEMMA GridIsFull ==
  ASSUME NEW nan, NEW c,
         c = [k \in 0 .. task.nx * task.ny - 1 |-> InCell(k, nan)],
         task.nx * task.ny \in Nat
  PROVE  NewArray(nan) = FullLoop(c, task.nx * task.ny)[task.nx * task.ny]
<1> DEFINE M == task.nx * task.ny
           R(f) == [k \in 0 .. M |-> IF k = 0 THEN << >>
                                     ELSE IF InCell(k - 1, nan) = {} THEN f[k - 1]
                                     ELSE Append(f[k - 1], InCell(k - 1, nan))]
           Q(f) == [k \in 0 .. M |-> FullStep(c, f, k)]
<1>1. ASSUME NEW f PROVE R(f) = Q(f)
  <2>1. ASSUME NEW k \in 0 .. M PROVE R(f)[k] = Q(f)[k]
    <3>1. k /= 0 => k - 1 \in 0 .. M - 1
      OBVIOUS
    <3>2. k /= 0 => c[k - 1] = InCell(k - 1, nan)
      BY <3>1
    <3> QED
      BY <3>2 DEF FullStep
  <2> QED
    BY <2>1
<1>2. (CHOOSE f : f = R(f)) = CHOOSE f : f = Q(f)
  <2>1. \A f : (f = R(f)) <=> (f = Q(f))
    BY <1>1
  <2> HIDE DEF R, Q
  <2> QED
    BY <2>1
<1>3. NewArray(nan) = (CHOOSE f : f = R(f))[M]
  BY DEF NewArray
<1> QED
  BY <1>2, <1>3 DEF FullLoop
(***************************************************************************)
(* Which cell a point is in.                                               *)
(***************************************************************************)
LEMMA ArrayHasEnds ==
  ASSUME NEW q \in Nat, q >= 1, NEW f, \A i \in 1 .. q : f[i] \in Int
  PROVE  /\ \E i \in 1 .. q : \A j \in 1 .. q : f[i] <= f[j]
         /\ \E i \in 1 .. q : \A j \in 1 .. q : f[i] >= f[j]
<1> DEFINE T == {m \in Nat : m + 1 <= q =>
                   /\ \E i \in 1 .. m + 1 : \A j \in 1 .. m + 1 : f[i] <= f[j]
                   /\ \E i \in 1 .. m + 1 : \A j \in 1 .. m + 1 : f[i] >= f[j]}
<1>1. 0 \in T
  <2>1. f[1] \in Int
    OBVIOUS
  <2>2. \A i \in 1 .. 0 + 1 : i = 1
    OBVIOUS
  <2>3. 1 \in 1 .. 0 + 1 /\ f[1] <= f[1] /\ f[1] >= f[1]
    BY <2>1
  <2> QED
    BY <2>2, <2>3
<1>2. ASSUME NEW m \in Nat, m \in T PROVE m + 1 \in T
  <2> SUFFICES ASSUME (m + 1) + 1 <= q
               PROVE  /\ \E i \in 1 .. m + 2 : \A j \in 1 .. m + 2 : f[i] <= f[j]
                      /\ \E i \in 1 .. m + 2 : \A j \in 1 .. m + 2 : f[i] >= f[j]
    OBVIOUS
  <2>1. PICK i \in 1 .. m + 1 : \A j \in 1 .. m + 1 : f[i] <= f[j]
    BY <1>2
  <2>2. PICK h \in 1 .. m + 1 : \A j \in 1 .. m + 1 : f[h] >= f[j]
    BY <1>2
  <2>3. f[i] \in Int /\ f[h] \in Int /\ f[m + 2] \in Int /\ \A j \in 1 .. m + 1 : f[j] \in Int
    OBVIOUS
  <2>4. \E k \in 1 .. m + 2 : \A j \in 1 .. m + 2 : f[k] <= f[j]
    <3>1. CASE f[i] <= f[m + 2]
      <4>1. i \in 1 .. m + 2 /\ \A j \in 1 .. m + 2 : f[i] <= f[j]
        BY <2>1, <3>1
      <4> QED
        BY <4>1
    <3>2. CASE f[m + 2] <= f[i]
      <4>1. \A j \in 1 .. m + 1 : f[m + 2] <= f[j]
        BY <2>1, <2>3, <3>2
      <4>2. m + 2 \in 1 .. m + 2 /\ \A j \in 1 .. m + 2 : f[m + 2] <= f[j]
        BY <2>3, <4>1
      <4> QED
        BY <4>2
    <3> QED
      BY <2>3, <3>1, <3>2
  <2>5. \E k \in 1 .. m + 2 : \A j \in 1 .. m + 2 : f[k] >= f[j]
    <3>1. CASE f[h] >= f[m + 2]
      <4>1. h \in 1 .. m + 2 /\ \A j \in 1 .. m + 2 : f[h] >= f[j]
        BY <2>2, <3>1
      <4> QED
        BY <4>1
    <3>2. CASE f[m + 2] >= f[h]
      <4>1. \A j \in 1 .. m + 1 : f[m + 2] >= f[j]
        BY <2>2, <2>3, <3>2
      <4>2. m + 2 \in 1 .. m + 2 /\ \A j \in 1 .. m + 2 : f[m + 2] >= f[j]
        BY <2>3, <4>1
      <4> QED
        BY <4>2
    <3> QED
      BY <2>3, <3>1, <3>2
  <2> QED
    BY <2>4, <2>5
<1> HIDE DEF T
<1>3. Nat \subseteq T
  BY <1>1, <1>2, InductionOverNat
<1>4. q - 1 \in T
  BY <1>3
<1> USE DEF T
<1>5. (q - 1) + 1 = q
  OBVIOUS
<1> QED
  BY <1>4, <1>5

LEMMA EndsOfAxis ==
  ASSUME N \in Nat, N >= 1, \A i \in 1 .. N : points[i] \in Axis \X Axis,
         NEW axis \in 1 .. 2
  PROVE  /\ Low(axis) \in Int /\ High(axis) \in Int
         /\ \A i \in 1 .. N : /\ points[i][axis] \in Int
                              /\ Low(axis) <= points[i][axis]
                              /\ points[i][axis] <= High(axis)
<1> DEFINE f == [i \in 1 .. N |-> points[i][axis]]
           S == {points[i][axis] : i \in 1 .. N}
<1>1. \A i \in 1 .. N : points[i][axis] \in Int
  <2>1. \A i \in 1 .. N : points[i][1] \in Int /\ points[i][2] \in Int
    BY ThinAssumption
  <2>2. axis = 1 \/ axis = 2
    OBVIOUS
  <2> QED
    BY <2>1, <2>2
<1>2. /\ \E i \in 1 .. N : \A j \in 1 .. N : f[i] <= f[j]
      /\ \E i \in 1 .. N : \A j \in 1 .. N : f[i] >= f[j]
  <2>1. \A i \in 1 .. N : f[i] \in Int
    BY <1>1
  <2> HIDE DEF f
  <2> QED
    BY <2>1, ArrayHasEnds
<1>3. \E m \in S : \A y \in S : m <= y
  BY <1>2
<1>4. \E m \in S : \A y \in S : m >= y
  BY <1>2
<1>5. Min(S) \in S /\ \A y \in S : Min(S) <= y
  BY <1>3 DEF Min
<1>6. Max(S) \in S /\ \A y \in S : Max(S) >= y
  BY <1>4 DEF Max
<1>7. Low(axis) = Min(S) /\ High(axis) = Max(S)
  BY DEF Low, High
<1>8. \A y \in S : y \in Int
  BY <1>1
<1>9. \A i \in 1 .. N : points[i][axis] \in S
  OBVIOUS
<1> HIDE DEF S
<1>10. Min(S) \in Int /\ Max(S) \in Int
  BY <1>5, <1>6, <1>8
<1> QED
  BY <1>1, <1>5, <1>6, <1>7, <1>8, <1>9, <1>10

\* The product of a and m, divided by d, and where it lies.
IsQuotient(k, a, m, d) ==
  /\ k \in 0 .. m
  /\ k * d <= a * m /\ a * m < (k + 1) * d
  /\ k = m => a = d

LEMMA Quotient ==
  ASSUME NEW a \in Nat, NEW m \in Nat, NEW d \in Nat, m >= 1, d >= 1, a <= d,
         NEW k, k = (a * m) \div d
  PROVE  IsQuotient(k, a, m, d)
<1>0. a * m \in Nat
  OBVIOUS
<1>1. k \in Int /\ k * d <= a * m /\ a * m < k * d + d
  <2> DEFINE p == a * m
  <2> HIDE DEF p
  <2>1. ASSUME p \in Nat PROVE p \div d \in Int /\ (p \div d) * d <= p /\ p < (p \div d) * d + d
    BY <2>1
  <2> QED
    BY <1>0, <2>1 DEF p
<1>2. a * m <= d * m
  OBVIOUS
<1>3. ~(k > m)
  <2> SUFFICES ASSUME k >= m + 1 PROVE FALSE
    BY <1>1
  <2>1. k * d >= (m + 1) * d
    BY <1>1
  <2>2. (m + 1) * d = d * m + d
    OBVIOUS
  <2> QED
    BY <1>0, <1>1, <1>2, <2>1, <2>2
<1>4. ~(k < 0)
  <2> SUFFICES ASSUME k + 1 <= 0 PROVE FALSE
    BY <1>1
  <2>1. (k + 1) * d <= 0
    BY <1>1
  <2>2. (k + 1) * d = k * d + d
    BY <1>1
  <2> QED
    BY <1>0, <1>1, <2>1, <2>2
<1>5. ASSUME k = m PROVE a = d
  <2>1. m * d <= a * m
    BY <1>1, <1>5
  <2> SUFFICES ASSUME a + 1 <= d PROVE FALSE
    OBVIOUS
  <2>2. (a + 1) * m <= d * m
    OBVIOUS
  <2>3. (a + 1) * m = a * m + m
    OBVIOUS
  <2> QED
    BY <1>0, <2>1, <2>2, <2>3
<1>6. (k + 1) * d = k * d + d
  BY <1>1
<1> QED
  BY <1>1, <1>3, <1>4, <1>5, <1>6 DEF IsQuotient

\* Two such quotients that are the same row or column, the last one being that
\* of the end as well.
LEMMA SameCellNear ==
  ASSUME NEW a \in Nat, NEW b \in Nat, NEW m \in Nat, NEW d \in Nat,
         m >= 1, d >= 1, a <= d, b <= d,
         NEW k, NEW l, k = (a * m) \div d, l = (b * m) \div d,
         (IF k = m THEN k - 1 ELSE k) = (IF l = m THEN l - 1 ELSE l)
  PROVE  (a - b) * m <= d
<1>1. /\ k \in 0 .. m /\ k * d <= a * m /\ a * m < (k + 1) * d /\ (k = m => a = d)
  <2>1. IsQuotient(k, a, m, d)
    BY Quotient
  <2> QED
    BY <2>1 DEF IsQuotient
<1>2. /\ l \in 0 .. m /\ l * d <= b * m /\ b * m < (l + 1) * d /\ (l = m => b = d)
  <2>1. IsQuotient(l, b, m, d)
    BY Quotient
  <2> QED
    BY <2>1 DEF IsQuotient
<1>3. (IF k = m THEN k - 1 ELSE k) = (IF l = m THEN l - 1 ELSE l)
  OBVIOUS
<1>4. (a - b) * m = a * m - b * m /\ a * m \in Nat /\ b * m \in Nat
  OBVIOUS
<1>5. CASE k = m
  <2>1. a * m = m * d
    BY <1>1, <1>5
  <2>2. l = m \/ l = m - 1
    BY <1>1, <1>2, <1>3, <1>5
  <2>3. (m - 1) * d = m * d - d /\ m * d \in Nat
    OBVIOUS
  <2>4. l * d >= m * d - d
    BY <2>2, <2>3
  <2> QED
    BY <1>2, <1>4, <2>1, <2>3, <2>4
<1>6. CASE k /= m
  <2>1. l >= k
    BY <1>1, <1>2, <1>3, <1>6
  <2>2. k * d <= l * d /\ (k + 1) * d = k * d + d /\ k * d \in Nat /\ l * d \in Nat
    BY <1>1, <1>2, <2>1
  <2> QED
    BY <1>1, <1>2, <1>4, <2>2
<1> QED
  BY <1>5, <1>6

\* The number of a cell says in which row and column it is.
LEMMA RowsAndColumns ==
  ASSUME NEW q \in Nat, NEW x \in 0 .. q - 1, NEW u \in 0 .. q - 1,
         NEW y \in Nat, NEW w \in Nat, x + y * q = u + w * q
  PROVE  x = u /\ y = w
<1>1. ~(y < w)
  <2> SUFFICES ASSUME y + 1 <= w PROVE FALSE
    OBVIOUS
  <2>1. (y + 1) * q <= w * q /\ (y + 1) * q = y * q + q /\ y * q \in Nat /\ w * q \in Nat
    OBVIOUS
  <2> QED
    BY <2>1
<1>2. ~(w < y)
  <2> SUFFICES ASSUME w + 1 <= y PROVE FALSE
    OBVIOUS
  <2>1. (w + 1) * q <= y * q /\ (w + 1) * q = w * q + q /\ y * q \in Nat /\ w * q \in Nat
    OBVIOUS
  <2> QED
    BY <2>1
<1>3. y = w
  BY <1>1, <1>2
<1>4. y * q = w * q /\ y * q \in Nat
  BY <1>3
<1> QED
  BY <1>3, <1>4
LEMMA CellProperties ==
  ASSUME N \in Nat, N >= 1, \A i \in 1 .. N : points[i] \in Axis \X Axis,
         NEW axis \in 1 .. 2, Nodes(axis) \in Nat, Nodes(axis) >= 1,
         Nodes(axis) = 1 \/ Low(axis) /= High(axis), NEW nan
  PROVE  /\ \A i \in 1 .. N : Cell(i, axis, nan) \in 0 .. Nodes(axis) - 1
         /\ \A i, j \in 1 .. N : Cell(i, axis, nan) = Cell(j, axis, nan) =>
              (points[i][axis] - points[j][axis]) * Nodes(axis) <= High(axis) - Low(axis)
<1> DEFINE m == Nodes(axis)
           d == High(axis) - Low(axis)
           a(i) == points[i][axis] - Low(axis)
           k(i) == (a(i) * m) \div d
<1>1. /\ Low(axis) \in Int /\ High(axis) \in Int
      /\ \A i \in 1 .. N : /\ points[i][axis] \in Int
                           /\ Low(axis) <= points[i][axis]
                           /\ points[i][axis] <= High(axis)
  BY EndsOfAxis
<1>2. m \in Nat /\ m >= 1
  OBVIOUS
<1>3. \A i \in 1 .. N : a(i) \in Nat /\ a(i) <= d
  BY <1>1
<1>4. \A i, j \in 1 .. N : points[i][axis] - points[j][axis] = a(i) - a(j)
  BY <1>1
<1>5. \A i : Cell(i, axis, nan) =
               IF m = 1 THEN 0
               ELSE IF Low(axis) = High(axis) THEN nan
               ELSE IF k(i) = m THEN k(i) - 1 ELSE k(i)
  BY DEF Cell
<1>6. CASE m = 1
  <2>1. \A i \in 1 .. N : Cell(i, axis, nan) \in 0 .. m - 1
    BY <1>5, <1>6
  <2>2. \A i, j \in 1 .. N : (points[i][axis] - points[j][axis]) * 1 <= d
    BY <1>1
  <2> QED
    BY <1>6, <2>1, <2>2
<1>7. CASE m /= 1
  <2>1. Low(axis) /= High(axis) /\ d \in Nat /\ d >= 1
    <3>1. Low(axis) /= High(axis)
      BY <1>7
    <3>2. Low(axis) <= High(axis)
      BY <1>1
    <3> QED
      BY <1>1, <3>1, <3>2
  <2>2. \A i : Cell(i, axis, nan) = IF k(i) = m THEN k(i) - 1 ELSE k(i)
    BY <1>5, <1>7, <2>1
  <2>3. \A i \in 1 .. N : k(i) \in 0 .. m
    <3> SUFFICES ASSUME NEW i \in 1 .. N PROVE k(i) \in 0 .. m
      OBVIOUS
    <3>1. a(i) \in Nat /\ a(i) <= d
      BY <1>3
    <3> HIDE DEF a, d, m
    <3>2. IsQuotient(k(i), a(i), m, d)
      BY <1>2, <2>1, <3>1, Quotient
    <3> QED
      BY <3>2 DEF IsQuotient
  <2>4. \A i \in 1 .. N : Cell(i, axis, nan) \in 0 .. m - 1
    <3> SUFFICES ASSUME NEW i \in 1 .. N PROVE Cell(i, axis, nan) \in 0 .. m - 1
      OBVIOUS
    <3>1. k(i) \in 0 .. m
      BY <2>3
    <3> HIDE DEF k, m
    <3> QED
      BY <1>2, <2>2, <3>1
  <2>5. ASSUME NEW i \in 1 .. N, NEW j \in 1 .. N, Cell(i, axis, nan) = Cell(j, axis, nan)
        PROVE  (a(i) - a(j)) * m <= d
    <3>1. a(i) \in Nat /\ a(i) <= d /\ a(j) \in Nat /\ a(j) <= d
      BY <1>3
    <3>2. (IF k(i) = m THEN k(i) - 1 ELSE k(i)) = (IF k(j) = m THEN k(j) - 1 ELSE k(j))
      BY <2>2, <2>5
    <3> HIDE DEF a, d, m
    <3>3. k(i) = (a(i) * m) \div d /\ k(j) = (a(j) * m) \div d
      OBVIOUS
    <3> HIDE DEF k
    <3> QED
      BY <1>2, <2>1, <3>1, <3>2, <3>3, SameCellNear
  <2> QED
    BY <1>4, <2>4, <2>5
<1> QED
  BY <1>6, <1>7

LEMMA EachInOther == \A A, R : A \subseteq R /\ R \subseteq A => A = R
  OBVIOUS

\* What one call of points_thingrid does.
LEMMA GridStep ==
  ASSUME N \in Nat, N >= 1, \A i \in 1 .. N : points[i] \in Axis \X Axis,
         ~Thins, task \in Tasks, ThinGrid
  PROVE  averaged' \in Seq(SUBSET Int) /\ OnceOnly' /\ CellsRight'
<1> DEFINE M == task.nx * task.ny
<1>1. task.nx \in Nat /\ task.ny \in Nat
  BY TaskType
<1>2. M \in Nat
  BY <1>1
<1>3. PICK nan \in {0, -1000} :
        averaged' = NewArray(nan)
  BY DEF ThinGrid
<1> DEFINE c == [k \in 0 .. M - 1 |-> InCell(k, nan)]
<1>4. FullOnes(averaged', c, M)
  <2>1. averaged' = FullLoop(c, M)[M]
    <3>1. c = [k \in 0 .. task.nx * task.ny - 1 |-> InCell(k, nan)]
      OBVIOUS
    <3> HIDE DEF c
    <3> QED
      BY <1>2, <1>3, <3>1, GridIsFull
  <2>2. \A k \in 0 .. M - 1 : c[k] \in SUBSET Int
    BY DEF InCell
  <2>3. \A k, l \in 0 .. M - 1 : k /= l => c[k] \cap c[l] = {}
    BY DEF InCell
  <2> HIDE DEF c, M
  <2>4. FullOnes(FullLoop(c, M)[M], c, M)
    BY <1>2, <2>2, <2>3, LoopFull
  <2> QED
    BY <2>1, <2>4
<1>5. /\ averaged' \in Seq(SUBSET Int) /\ DOMAIN averaged' = 1 .. Len(averaged')
      /\ Averaged' = UNION {averaged'[k] : k \in 1 .. Len(averaged')}
  <2>1. averaged' \in Seq(SUBSET Int)
    BY <1>4 DEF FullOnes
  <2>2. DOMAIN averaged' = 1 .. Len(averaged')
    BY <2>1
  <2> QED
    BY <2>1, <2>2 DEF Averaged, ToSet
<1>6. OnceOnly'
  BY <1>4, <1>5 DEF OnceOnly, FullOnes
<1>7. points' = points /\ task' = task
  BY DEF ThinGrid
<1>8. ASSUME task.nx >= 1, task.ny >= 1,
             \A axis \in 1 .. 2 : Nodes(axis) = 1 \/ Low(axis) /= High(axis)
      PROVE  /\ Averaged' = 1 .. N
             /\ \A k \in DOMAIN averaged' : \A i, j \in averaged'[k], axis \in 1 .. 2 :
                  (points[i][axis] - points[j][axis]) * Nodes(axis) <= High(axis) - Low(axis)
  <2>1. Nodes(1) = task.nx /\ Nodes(2) = task.ny
    BY DEF Nodes
  <2>2. ASSUME NEW axis \in 1 .. 2
        PROVE  /\ \A i \in 1 .. N : Cell(i, axis, nan) \in 0 .. Nodes(axis) - 1
               /\ \A i, j \in 1 .. N : Cell(i, axis, nan) = Cell(j, axis, nan) =>
                    (points[i][axis] - points[j][axis]) * Nodes(axis) <= High(axis) - Low(axis)
    <3>1. Nodes(axis) \in Nat /\ Nodes(axis) >= 1
      <4>1. axis = 1 \/ axis = 2
        OBVIOUS
      <4> QED
        BY <1>1, <1>8, <2>1, <4>1
    <3>2. Nodes(axis) = 1 \/ Low(axis) /= High(axis)
      BY <1>8
    <3> QED
      BY <3>1, <3>2, CellProperties
  <2>3. \A i \in 1 .. N : /\ Cell(i, 1, nan) \in 0 .. task.nx - 1
                          /\ Cell(i, 2, nan) \in 0 .. task.ny - 1
    BY <2>1, <2>2
  <2>4. ASSUME NEW i \in 1 .. N PROVE Index(i, nan) \in 0 .. M - 1
    <3> DEFINE x == Cell(i, 1, nan)
               y == Cell(i, 2, nan)
    <3>1. x \in 0 .. task.nx - 1 /\ y \in 0 .. task.ny - 1
      BY <2>3
    <3> HIDE DEF x, y
    <3>2. y * task.nx \in Nat /\ y * task.nx <= (task.ny - 1) * task.nx
      BY <1>1, <3>1
    <3>3. (task.ny - 1) * task.nx = M - task.nx
      BY <1>1
    <3>4. x + y * task.nx \in 0 .. M - 1
      BY <1>1, <1>2, <3>1, <3>2, <3>3
    <3> QED
      BY <3>4 DEF Index, x, y
  <2>5. \A i \in 1 .. N : i \in c[Index(i, nan)]
    BY <2>4 DEF InCell
  <2>6. \A k \in 0 .. M - 1 : c[k] = InCell(k, nan) /\ c[k] \subseteq 1 .. N
    BY DEF InCell
  <2> HIDE DEF c, M
  <2>7. Averaged' \subseteq 1 .. N
    <3> SUFFICES ASSUME NEW k \in 1 .. Len(averaged') PROVE averaged'[k] \subseteq 1 .. N
      BY <1>5
    <3>1. PICK l \in 0 .. M - 1 : averaged'[k] = c[l]
      BY <1>4 DEF FullOnes
    <3> QED
      BY <2>6, <3>1
  <2>8. 1 .. N \subseteq Averaged'
    <3> SUFFICES ASSUME NEW i \in 1 .. N PROVE i \in Averaged'
      OBVIOUS
    <3>1. Index(i, nan) \in 0 .. M - 1 /\ i \in c[Index(i, nan)]
      BY <2>4, <2>5
    <3>2. PICK k \in 1 .. Len(averaged') : averaged'[k] = c[Index(i, nan)]
      BY <1>4, <3>1 DEF FullOnes
    <3> QED
      BY <1>5, <3>1, <3>2
  <2>9. ASSUME NEW k \in DOMAIN averaged', NEW i \in averaged'[k], NEW j \in averaged'[k],
               NEW axis \in 1 .. 2
        PROVE  (points[i][axis] - points[j][axis]) * Nodes(axis) <= High(axis) - Low(axis)
    <3>1. PICK l \in 0 .. M - 1 : averaged'[k] = c[l]
      BY <1>4, <1>5 DEF FullOnes
    <3>2. i \in 1 .. N /\ j \in 1 .. N /\ Index(i, nan) = Index(j, nan)
      BY <2>6, <3>1 DEF InCell
    <3>3. Cell(i, 1, nan) + Cell(i, 2, nan) * task.nx = Cell(j, 1, nan) + Cell(j, 2, nan) * task.nx
      BY <3>2 DEF Index
    <3>4. /\ Cell(i, 1, nan) \in 0 .. task.nx - 1 /\ Cell(j, 1, nan) \in 0 .. task.nx - 1
          /\ Cell(i, 2, nan) \in Nat /\ Cell(j, 2, nan) \in Nat
      BY <2>3, <3>2
    <3>5. Cell(i, 1, nan) = Cell(j, 1, nan) /\ Cell(i, 2, nan) = Cell(j, 2, nan)
      <4> DEFINE q == task.nx
                 x == Cell(i, 1, nan)
                 u == Cell(j, 1, nan)
                 y == Cell(i, 2, nan)
                 w == Cell(j, 2, nan)
      <4>1. /\ q \in Nat /\ x \in 0 .. q - 1 /\ u \in 0 .. q - 1 /\ y \in Nat /\ w \in Nat
            /\ x + y * q = u + w * q
        BY <1>1, <3>3, <3>4
      <4> HIDE DEF q, x, u, y, w
      <4>2. x = u /\ y = w
        BY <4>1, RowsAndColumns
      <4> QED
        BY <4>2 DEF x, u, y, w
    <3>6. Cell(i, axis, nan) = Cell(j, axis, nan)
      <4>1. axis = 1 \/ axis = 2
        OBVIOUS
      <4> QED
        BY <3>5, <4>1
    <3> QED
      BY <2>2, <3>2, <3>6
  <2>10. Averaged' = 1 .. N
    <3> DEFINE A == Averaged'
               R == 1 .. N
    <3>1. A \subseteq R /\ R \subseteq A
      BY <2>7, <2>8
    <3> HIDE DEF A, R
    <3>2. A = R
      BY <3>1, EachInOther
    <3> QED
      BY <3>2 DEF A, R
  <2> QED
    BY <2>9, <2>10, ZenonT(30)
<1>9. /\ N' = N
      /\ \A axis \in 1 .. 2 : /\ Nodes(axis)' = Nodes(axis)
                              /\ Low(axis)' = Low(axis) /\ High(axis)' = High(axis)
  BY <1>7 DEF N, Nodes, Low, High
<1>10. CellsRight'
  BY <1>7, <1>8, <1>9 DEF CellsRight
<1> QED
  BY <1>5, <1>6, <1>10

\* Before the call there are no averages, after it they are right.
GridInv ==
  ~Thins =>
    /\ \A i \in 1 .. N : points[i] \in Axis \X Axis
    /\ \/ read = 0 /\ averaged = << >>
       \/ read = N /\ OnceOnly /\ CellsRight

ThinInv == LinInv /\ GridInv

LEMMA InvIsRight == ASSUME ThinInv PROVE AveragesRight
<1>1. CASE Thins
  BY <1>1, LinRight DEF ThinInv, AveragesRight
<1>2. CASE ~Thins /\ read = 0 /\ averaged = << >>
  <2>1. DOMAIN averaged = {}
    BY <1>2, EmptySeq
  <2>2. OnceOnly
    BY <2>1 DEF OnceOnly
  <2>3. CellsRight
    BY <1>2 DEF CellsRight
  <2> QED
    BY <1>2, <2>2, <2>3 DEF AveragesRight
<1>3. CASE ~Thins /\ read = N /\ OnceOnly /\ CellsRight
  BY <1>3 DEF AveragesRight
<1> QED
  BY <1>1, <1>2, <1>3 DEF ThinInv, GridInv

LEMMA GridInit == ASSUME InitThin PROVE GridInv
<1> SUFFICES ASSUME ~Thins PROVE GridInv
  BY DEF GridInv
<1>1. LinInv /\ N \in Nat
  BY LinInit DEF N, LinInv, TypeInv
<1>2. NaN \notin {points[i] : i \in 1 .. N}
  <2>1. DOMAIN points = 1 .. N
    BY <1>1 DEF LinInv, TypeInv, N
  <2> QED
    BY <2>1 DEF InitThin, Thins, ToSet
<1>3. ASSUME NEW i \in 1 .. N PROVE points[i] \in Axis \X Axis
  <2>1. points[i] \in (Axis \X Axis) \cup {NaN}
    BY <1>1 DEF LinInv, TypeInv, N
  <2> QED
    BY <1>2, <2>1
<1>4. read = 0 /\ averaged = << >>
  BY DEF InitThin
<1> QED
  BY <1>3, <1>4 DEF GridInv

LEMMA ThinStutters ==
  ASSUME ThinInv, UNCHANGED thinVars
  PROVE  ThinInv'
<1>1. /\ points' = points /\ task' = task /\ read' = read /\ averaged' = averaged
      /\ cluster' = cluster /\ sum_r' = sum_r
  BY DEF thinVars
<1>2. LinInv'
  BY <1>1 DEF ThinInv, LinInv, TypeInv, Thins, ClusterInv, WrittenInv
<1>3. N' = N /\ Thins' = Thins /\ Averaged' = Averaged /\ OnceOnly' = OnceOnly
  BY <1>1 DEF N, Thins, Averaged, OnceOnly
<1>4. \A axis \in 1 .. 2 : /\ Nodes(axis)' = Nodes(axis)
                           /\ Low(axis)' = Low(axis) /\ High(axis)' = High(axis)
  BY <1>1 DEF N, Nodes, Low, High
<1>5. CellsRight' = CellsRight
  BY <1>1, <1>3, <1>4 DEF CellsRight
<1>6. GridInv'
  BY <1>1, <1>3, <1>5 DEF ThinInv, GridInv
<1> QED
  BY <1>2, <1>6 DEF ThinInv

(***************************************************************************)
(* For any points, NaN among them or not, and any rmax or number of nodes: *)
(* no point is averaged twice, and the averages are of clusters or cells   *)
(* as they should be (nncommon.c:212-298, 81-201).                         *)
(***************************************************************************)
THEOREM AveragesAlwaysRight == ThinSpec => []AveragesRight
<1>1. InitThin => ThinInv
  BY LinInit, GridInit DEF ThinInv
<1>2. ThinInv /\ [ThinNext]_thinVars => ThinInv'
  <2> SUFFICES ASSUME ThinInv, [ThinNext]_thinVars PROVE ThinInv'
    OBVIOUS
  <2>1. CASE SkipNaN \/ InitCluster \/ EndCluster \/ AddToCluster
    <3>1. LinInv'
      BY <2>1, LinStep DEF ThinInv
    <3>2. Thins /\ task' = task
      BY <2>1 DEF SkipNaN, InitCluster, EndCluster, AddToCluster, Reads
    <3>3. GridInv'
      BY <3>2 DEF GridInv, Thins
    <3> QED
      BY <3>1, <3>3 DEF ThinInv
  <2>2. CASE ThinGrid
    <3>1. ~Thins /\ read < N /\ read' = N /\ points' = points /\ task' = task
      BY <2>2 DEF ThinGrid
    <3>2. /\ \A i \in 1 .. N : points[i] \in Axis \X Axis
          /\ task \in Tasks /\ N \in Nat /\ N >= 1 /\ read \in Nat
          /\ points \in Seq((Axis \X Axis) \cup {NaN})
      BY <3>1 DEF ThinInv, GridInv, LinInv, TypeInv, N
    <3>3. averaged' \in Seq(SUBSET Int) /\ OnceOnly' /\ CellsRight'
      BY <2>2, <3>1, <3>2, GridStep
    <3>4. N' = N /\ Thins' = Thins
      BY <3>1 DEF N, Thins
    <3>5. TypeInv'
      BY <3>1, <3>2, <3>3 DEF TypeInv, N
    <3>6. LinInv'
      BY <3>1, <3>4, <3>5 DEF LinInv
    <3>7. GridInv'
      BY <3>1, <3>2, <3>3, <3>4 DEF GridInv
    <3> QED
      BY <3>6, <3>7 DEF ThinInv
  <2>3. CASE UNCHANGED thinVars
    BY <2>3, ThinStutters
  <2> QED
    BY <2>1, <2>2, <2>3 DEF ThinNext
<1>3. ThinInv => AveragesRight
  BY InvIsRight
<1> QED
  BY <1>1, <1>2, <1>3, PTL DEF ThinSpec
=============================================================================
