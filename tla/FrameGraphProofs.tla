--------------------------- MODULE FrameGraphProofs ---------------------------
(***************************************************************************)
(* Proofs about the passing of frames, for any number of framebuffers and  *)
(* however often the view appears.                                         *)
(*                                                                         *)
(* Three facts carry them.  The wiring task always ends with the full      *)
(* graph, and no frame is ahead of the first wiring task on the video      *)
(* queue.  The calls of a frame in process form a chain in that graph, so  *)
(* that its top tells how far the frame has come.  And the top tells who   *)
(* has a lock to give back, which accounts for every reference count.      *)
(***************************************************************************)
EXTENDS FrameGraph, SequenceTheorems, TLAPS

(***************************************************************************)
(* The types, the counts of locks being integers for now: that they never  *)
(* go below zero takes the account of the locks.                           *)
(***************************************************************************)
GraphTypes ==
  /\ targets \in [Node -> Seq(Node)]
  /\ queue \in Seq(Tasks)
  /\ wiring \in Seq([op : {"remove", "add"}, from : Node, to : Node])
  /\ calls \in Seq(FilterCall)

MainTypes ==
  /\ appeared \in 0 .. MaxAppear /\ mainPlace \in {"idle", "start"}
  /\ capturing \in BOOLEAN /\ rendering \in BOOLEAN

BufferTypes ==
  /\ refs \in [Framebuffers -> Int] /\ reading \in [Framebuffers -> Int]
  /\ content \in [Framebuffers -> {"old", "new"}]
  /\ input \in [Node -> Buffer] /\ output \in [Node -> Buffer]
  /\ reached \in SUBSET Node

(***************************************************************************)
(* The graph.  Wired(g, j) holds of g when j steps of the wiring task are  *)
(* done.                                                                   *)
(***************************************************************************)
Wired(g, j) ==
  /\ g["view"] = << >>
  /\ j >= 1 => g["camera"] = IF j < 6 THEN << >> ELSE <<"len">>
  /\ j >= 2 => g["landmark"] = << >>
  /\ j >= 3 => g["resize"] = IF j < 8 THEN << >> ELSE <<"landmark">>
  /\ j >= 4 => g["len"] = IF j < 7 THEN << >>
                          ELSE IF j < 9 THEN <<"resize">>
                          ELSE <<"resize", "mesh">>
  /\ j >= 5 => g["mesh"] = IF j < 10 THEN << >> ELSE <<"view">>

WiringAt(j) ==
  /\ Len(wiring) = 10 - j
  /\ \A k \in 1 .. 10 - j : wiring[k] = Wiring[j + k]
  /\ Wired(targets, j)

WillBeFull == wiring # << >> \/ targets = FullGraph

Waits(task) == \E i \in 1 .. Len(queue) : queue[i] = task

\* No frame is ahead of the first wiring task, unless the graph is or will be
\* complete without one.
WireFirst ==
  \A i \in 1 .. Len(queue) :
    queue[i] = "frame" => WillBeFull \/ \E k \in 1 .. i - 1 : queue[k] = "wire"

GraphInv ==
  /\ targets["view"] = << >>
  /\ wiring # << >> => calls = << >> /\ \E j \in 0 .. 9 : WiringAt(j)
  /\ calls # << >> => targets = FullGraph
  /\ capturing \/ mainPlace = "start" => WillBeFull \/ Waits("wire")
  /\ WireFirst

(***************************************************************************)
(* The calls.  Caller(n) is the call that waits while n runs.              *)
(***************************************************************************)
Waiting(n, todo) == [node |-> n, at |-> "call", todo |-> todo]

Caller(n) == CASE n = "len"      -> Waiting("camera", << >>)
               [] n = "resize"   -> Waiting("len", <<"mesh">>)
               [] n = "landmark" -> Waiting("resize", << >>)
               [] n = "mesh"     -> Waiting("len", << >>)
               [] n = "view"     -> Waiting("mesh", << >>)

Stacked(s) ==
  \A k \in 1 .. Len(s) :
    IF k = 1 THEN s[k].node = "camera"
    ELSE s[k].node # "camera" /\ s[k - 1] = Caller(s[k].node)

\* What a call may have left to do.
Rests(n) == CASE n = "camera" -> {<<"len">>, << >>}
              [] n = "len"    -> {<<"resize", "mesh">>, <<"mesh">>, << >>}
              [] n = "resize" -> {<<"landmark">>, << >>}
              [] n = "mesh"   -> {<<"view">>, << >>}
              [] OTHER        -> {}

Standing(c) ==
  \/ c.at = "render" /\ c.node # "camera" /\ c.todo = << >>
  \/ c.at = "read" /\ c.node = "landmark" /\ c.todo = << >>
  \/ c.at = "inform" /\ c.node \in {"camera", "len", "resize", "mesh"}
     /\ c.todo = << >>
  \/ c.at = "call" /\ c.todo \in Rests(c.node)

CallsInv == Stacked(calls) /\ (calls # << >> => Standing(Top))

(***************************************************************************)
(* The locks.  While c is on top of the calls, the filters in Owing(c)     *)
(* still have to unlock their inputs; a filter that informs its targets    *)
(* still has to unlock its output.                                         *)
(***************************************************************************)
Owing(c) == (CASE c.at \in {"render", "read"} -> {c.node}
               [] c.at = "inform"             -> {}
               [] c.at = "call"               -> ToSet(c.todo))
            \cup IF c.node \in {"resize", "landmark"} THEN {"mesh"} ELSE {}

InputLock(c, n, b) == IF n \in Owing(c) /\ input[n] = b THEN 1 ELSE 0
OutputLock(c, b) == IF c.at = "inform" /\ output[c.node] = b THEN 1 ELSE 0
InputLocks(c, b) == InputLock(c, "len", b) + InputLock(c, "resize", b)
                    + InputLock(c, "landmark", b) + InputLock(c, "mesh", b)
                    + InputLock(c, "view", b)
Locks(c, b) == InputLocks(c, b) + OutputLock(c, b)
ReadLocks(c, b) == IF c.at = "read" /\ input["landmark"] = b THEN 1 ELSE 0

LocksOf(c) ==
  /\ \A b \in Framebuffers : refs[b] = Locks(c, b) /\ reading[b] = ReadLocks(c, b)
  /\ \A n \in Owing(c) : input[n] \in Framebuffers /\ content[input[n]] = "new"
  /\ c.at = "inform" =>
       output[c.node] \in Framebuffers /\ content[output[c.node]] = "new"

LocksInv == IF calls = << >>
            THEN \A b \in Framebuffers : refs[b] = 0 /\ reading[b] = 0
            ELSE LocksOf(Top)

(***************************************************************************)
(* The progress.  Handled(c) are the filters that have handled the frame   *)
(* when c is on top of the calls.                                          *)
(***************************************************************************)
Before(n) == CASE n = "len"      -> {"camera"}
               [] n = "resize"   -> {"camera", "len"}
               [] n = "landmark" -> {"camera", "len", "resize"}
               [] n = "mesh"     -> {"camera", "len", "resize", "landmark"}
               [] n = "view"     -> Node \ {"view"}
               [] OTHER          -> {}

Handled(c) == CASE c.at = "render"             -> Before(c.node)
                [] c.at \in {"read", "inform"} -> Before(c.node) \cup {c.node}
                [] c.at = "call" -> IF c.todo # << >> THEN Before(Head(c.todo))
                                    ELSE IF c.node = "resize" THEN Before("mesh")
                                    ELSE Node

ReachedInv == IF calls = << >> THEN reached \in {{}, Node}
              ELSE reached = Handled(Top)

Inv == /\ GraphTypes /\ MainTypes /\ BufferTypes
       /\ GraphInv /\ CallsInv /\ LocksInv /\ ReachedInv
-----------------------------------------------------------------------------
(* A wiring step is a record of the right kind, and so is a call. *)
LEMMA WiringType ==
  Wiring \in Seq([op : {"remove", "add"}, from : Node, to : Node])
BY DEF Wiring, Cut, Join, Node

LEMMA EmptyNodes == << >> \in Seq(Node)
OBVIOUS

LEMMA NewCallType ==
  ASSUME NEW n \in Node
  PROVE  NewCall(n) \in FilterCall
BY EmptyNodes DEF NewCall, FilterCall

\* t is the stack of calls with another call, c, on top.
TopIs(t, c) ==
  /\ t \in Seq(FilterCall) /\ t # << >> /\ Len(t) = Len(calls) /\ t[Len(t)] = c
  /\ \A k \in 1 .. Len(calls) - 1 : t[k] = calls[k]

LEMMA ReplaceTop ==
  ASSUME calls \in Seq(FilterCall), calls # << >>, NEW c \in FilterCall
  PROVE  TopIs([calls EXCEPT ![Len(calls)] = c], c)
BY DEF TopIs

LEMMA DropTop ==
  ASSUME calls \in Seq(FilterCall), calls # << >>
  PROVE  /\ Return \in Seq(FilterCall) /\ Len(Return) = Len(calls) - 1
         /\ \A k \in 1 .. Len(calls) - 1 : Return[k] = calls[k]
<1> DEFINE s == calls
<1>1. PICK n \in Nat : n = Len(s) - 1
  OBVIOUS
<1>2. \A k \in 1 .. n : s[k] \in FilterCall
  BY <1>1
<1>3. /\ SubSeq(s, 1, n) \in Seq(FilterCall)
      /\ Len(SubSeq(s, 1, n)) = n
      /\ \A k \in 1 .. n : SubSeq(s, 1, n)[k] = s[k]
  <2>1. /\ SubSeq(s, 1, n) \in Seq(FilterCall)
        /\ Len(SubSeq(s, 1, n)) = IF 1 <= n THEN n - 1 + 1 ELSE 0
        /\ \A k \in 1 .. n - 1 + 1 : SubSeq(s, 1, n)[k] = s[1 + k - 1]
    BY <1>2, SubSeqProperties
  <2> QED
    BY <2>1
<1> QED
  BY <1>1, <1>3 DEF Return

LEMMA TopType ==
  ASSUME calls \in Seq(FilterCall), calls # << >>
  PROVE  Top \in FilterCall /\ Len(calls) \in Nat \ {0}
BY DEF Top

LEMMA GotoTop ==
  ASSUME calls \in Seq(FilterCall), calls # << >>,
         NEW place \in {"render", "read", "inform", "call"}
  PROVE  TopIs(Goto(place), [Top EXCEPT !.at = place])
<1>1. [Top EXCEPT !.at = place] \in FilterCall
  BY TopType DEF FilterCall
<1>2. [calls EXCEPT ![Len(calls)] = [Top EXCEPT !.at = place]] = Goto(place)
  BY DEF Goto, Top
<1> QED
  BY <1>1, <1>2, ReplaceTop

\* A call that goes on with the targets ts.
LEMMA WaitingCall ==
  ASSUME NEW c \in FilterCall, NEW ts \in Seq(Node), c.at = "call"
  PROVE  [c EXCEPT !.todo = ts] = Waiting(c.node, ts)
         /\ Waiting(c.node, ts) \in FilterCall
BY DEF FilterCall, Waiting

LEMMA AtCall ==
  ASSUME NEW c \in FilterCall
  PROVE  LET d == [c EXCEPT !.at = "call"] IN
         d \in FilterCall /\ d.at = "call" /\ d.node = c.node
BY DEF FilterCall

LEMMA InformTop ==
  ASSUME calls \in Seq(FilterCall), calls # << >>, NEW ts \in Seq(Node)
  PROVE  TopIs([Goto("call") EXCEPT ![Len(calls)].todo = ts],
               Waiting(Top.node, ts))
<1> DEFINE g == Goto("call")
           c == g[Len(calls)]
           t == [g EXCEPT ![Len(calls)] = [c EXCEPT !.todo = ts]]
<1>1. Top \in FilterCall /\ Len(calls) \in Nat \ {0}
  BY TopType
<1>2. TopIs(g, [Top EXCEPT !.at = "call"])
  BY GotoTop
<1>3. c = [Top EXCEPT !.at = "call"] /\ [c EXCEPT !.todo = ts] = Waiting(Top.node, ts)
      /\ Waiting(Top.node, ts) \in FilterCall
  <2> HIDE DEF g
  <2>1. c = [Top EXCEPT !.at = "call"]
    BY <1>2 DEF TopIs
  <2>2. c \in FilterCall /\ c.at = "call" /\ c.node = Top.node
    BY <1>1, <2>1, AtCall
  <2> QED
    <3> HIDE DEF c
    <3> QED
      BY <2>1, <2>2, WaitingCall
<1>4. t = [g EXCEPT ![Len(calls)] = Waiting(Top.node, ts)]
  BY <1>3
<1>5. TopIs(t, Waiting(Top.node, ts))
  <2> HIDE DEF g, t
  <2> QED
    BY <1>1, <1>2, <1>3, <1>4 DEF TopIs
<1>6. t = [g EXCEPT ![Len(calls)].todo = ts]
  <2> HIDE DEF g
  <2> QED
    OBVIOUS
<1> QED
  BY <1>5, <1>6

LEMMA CallTop ==
  ASSUME calls \in Seq(FilterCall), calls # << >>, Top.todo # << >>, Top.at = "call"
  PROVE  LET rest == Waiting(Top.node, Tail(Top.todo))
             t == Append([calls EXCEPT ![Len(calls)].todo = Tail(@)],
                         NewCall(Head(Top.todo)))
         IN  /\ t \in Seq(FilterCall) /\ Len(t) = Len(calls) + 1
             /\ t[Len(calls)] = rest /\ t[Len(t)] = NewCall(Head(Top.todo))
             /\ \A k \in 1 .. Len(calls) - 1 : t[k] = calls[k]
             /\ rest \in FilterCall
<1> DEFINE rest == Waiting(Top.node, Tail(Top.todo))
           g == [calls EXCEPT ![Len(calls)].todo = Tail(@)]
           t == Append(g, NewCall(Head(Top.todo)))
<1>1. Top \in FilterCall /\ Len(calls) \in Nat \ {0}
  BY TopType
<1>2. Head(Top.todo) \in Node /\ Tail(Top.todo) \in Seq(Node)
  BY <1>1, HeadTailProperties DEF FilterCall
<1>3. rest \in FilterCall /\ [Top EXCEPT !.todo = Tail(@)] = rest
  BY <1>1, <1>2, WaitingCall
<1>4. g = [calls EXCEPT ![Len(calls)] = [Top EXCEPT !.todo = Tail(@)]]
  BY DEF Top
<1>5. TopIs(g, rest)
  <2> HIDE DEF rest
  <2> QED
    BY <1>3, <1>4, ReplaceTop
<1>6. NewCall(Head(Top.todo)) \in FilterCall
  BY <1>2, NewCallType
<1> QED
  <2> HIDE DEF rest, g
  <2>1. /\ t \in Seq(FilterCall) /\ Len(t) = Len(calls) + 1
        /\ t[Len(calls)] = rest /\ t[Len(t)] = NewCall(Head(Top.todo))
        /\ \A k \in 1 .. Len(calls) - 1 : t[k] = calls[k]
    BY <1>1, <1>5, <1>6, AppendProperties DEF TopIs
  <2> QED
    BY <1>3, <2>1 DEF g, rest

(***************************************************************************)
(* Types.                                                                  *)
(***************************************************************************)
LEMMA GraphTypesStep ==
  ASSUME GraphTypes, [GraphNext]_graphVars
  PROVE  GraphTypes'
<1> USE DEF GraphTypes
<1>1. CASE Appear
  BY <1>1 DEF Appear, graph, Tasks
<1>2. CASE StartCapture
  BY <1>2 DEF StartCapture, graph
<1>3. CASE CaptureFrame
  BY <1>3 DEF CaptureFrame, graph, Tasks
<1>4. CASE StartWiring
  BY <1>4, WiringType DEF StartWiring
<1>5. CASE WireStep
  <2>1. Head(wiring) \in [op : {"remove", "add"}, from : Node, to : Node]
        /\ wiring' \in Seq([op : {"remove", "add"}, from : Node, to : Node])
    BY <1>5, HeadTailProperties DEF WireStep
  <2>2. \A ts \in Seq(Node) : Rewired(ts, Head(wiring)) \in Seq(Node)
    BY <2>1, EmptyNodes DEF Rewired
  <2> QED
    BY <1>5, <2>1, <2>2 DEF WireStep
<1>6. CASE StartFrame
  <2>1. NewCall("camera") \in FilterCall
    BY NewCallType DEF Node
  <2>2. [NewCall("camera") EXCEPT !.at = "inform"] \in FilterCall
    BY <2>1 DEF FilterCall
  <2>3. calls' \in Seq(FilterCall) /\ targets' = targets /\ wiring' = wiring
    BY <1>6, <2>2 DEF StartFrame, graph
  <2>4. queue' \in Seq(Tasks)
    BY <1>6, HeadTailProperties DEF StartFrame
  <2> QED
    BY <2>3, <2>4
<1>7. CASE Inform
  <2>1. targets[Top.node] \in Seq(Node)
    BY <1>7, TopType DEF Inform, Active, FilterCall
  <2> QED
    BY <1>7, <2>1, InformTop DEF Inform, Active, graph, TopIs
<1>8. CASE CallTarget
  BY <1>8, CallTop DEF CallTarget, Active, graph
<1>9. ASSUME calls # << >>, calls' = Return, UNCHANGED <<graph, queue>>
      PROVE  GraphTypes'
  BY <1>9, DropTop DEF graph
<1>10. ASSUME NEW place \in {"render", "read", "inform", "call"},
              calls # << >>, calls' = Goto(place), UNCHANGED <<graph, queue>>
       PROVE  GraphTypes'
  BY <1>10, GotoTop DEF graph, TopIs
<1>11. CASE ReturnCall
  BY <1>9, <1>11 DEF ReturnCall, Active
<1>12. ASSUME NEW n \in Node, RenderPlain(n) PROVE GraphTypes'
  BY <1>10, <1>12 DEF RenderPlain, Active
<1>13. CASE MeshPass \/ MeshDraw \/ LandmarkLock
  BY <1>10, <1>13 DEF MeshPass, MeshDraw, LandmarkLock, Active
<1>14. CASE LandmarkSkip \/ LandmarkNoPixels \/ LandmarkCopy \/ ViewShow
  BY <1>9, <1>14
  DEF LandmarkSkip, LandmarkNoPixels, LandmarkCopy, ViewShow, Active
<1>15. CASE UNCHANGED graphVars
  BY <1>15 DEF graphVars, graph
<1> QED
  BY <1>1, <1>2, <1>3, <1>4, <1>5, <1>6, <1>7, <1>8, <1>11, <1>12, <1>13,
     <1>14, <1>15 DEF GraphNext, MainStep, QueueStep

LEMMA MainTypesStep ==
  ASSUME MainTypes, [GraphNext]_graphVars
  PROVE  MainTypes'
<1> USE MaxAppearAssumption DEF MainTypes
<1>1. CASE Appear
  BY <1>1 DEF Appear
<1>2. CASE StartCapture \/ CaptureFrame
  BY <1>2 DEF StartCapture, CaptureFrame, main
<1>3. CASE QueueStep
  <2>1. main' = main /\ rendering' \in BOOLEAN
    BY <1>3 DEF QueueStep, StartWiring, WireStep, StartFrame, Inform, CallTarget,
       ReturnCall, RenderPlain, MeshPass, MeshDraw, LandmarkSkip, LandmarkLock,
       LandmarkNoPixels, LandmarkCopy, ViewShow
  <2> QED
    BY <2>1 DEF main
<1>4. CASE UNCHANGED graphVars
  BY <1>4 DEF graphVars, main
<1> QED
  BY <1>1, <1>2, <1>3, <1>4 DEF GraphNext, MainStep

\* The top of the calls has the frame's picture in its input.
LEMMA TopHasInput ==
  ASSUME GraphTypes, CallsInv, LocksInv
  PROVE  InputIsNew
<1> SUFFICES ASSUME calls # << >>, Top.at \in {"render", "read"}
             PROVE  /\ input[Top.node] \in Framebuffers
                    /\ refs[input[Top.node]] > 0
                    /\ content[input[Top.node]] = "new"
  BY DEF InputIsNew
<1> DEFINE n == Top.node
<1>1. Top \in FilterCall /\ n \in Node \ {"camera"}
  BY TopType DEF GraphTypes, CallsInv, Standing, FilterCall
<1>2. n \in Owing(Top) /\ LocksOf(Top)
  BY DEF Owing, LocksInv
<1>3. input[n] \in Framebuffers /\ content[input[n]] = "new"
  BY <1>2 DEF LocksOf
<1>4. \A m, b : InputLock(Top, m, b) \in {0, 1} /\ OutputLock(Top, b) \in {0, 1}
  BY DEF InputLock, OutputLock
<1>5. InputLock(Top, n, input[n]) = 1
  BY <1>2 DEF InputLock
<1>6. Locks(Top, input[n]) > 0
  BY <1>1, <1>4, <1>5 DEF Locks, InputLocks, Node
<1> QED
  BY <1>2, <1>3, <1>6 DEF LocksOf

LEMMA BufferTypesStep ==
  ASSUME GraphTypes, BufferTypes, InputIsNew, [GraphNext]_graphVars
  PROVE  BufferTypes'
<1> USE DEF BufferTypes, buffers
<1>0. "camera" \in Node /\ "landmark" \in Node /\ "mesh" \in Node /\ "view" \in Node
  BY DEF Node
<1>1. CASE Appear \/ StartCapture \/ CaptureFrame \/ StartWiring \/ WireStep
           \/ CallTarget \/ ReturnCall \/ UNCHANGED graphVars
  BY <1>1 DEF Appear, StartCapture, CaptureFrame, StartWiring, WireStep,
     CallTarget, ReturnCall, graphVars
<1>2. CASE StartFrame
  BY <1>2 DEF StartFrame, Buffer, Node
<1>3. CASE Inform
  <2>1. Top.node \in Node
    BY <1>3, TopType DEF GraphTypes, Inform, Active, FilterCall
  <2>2. output[Top.node] \in Buffer /\ Len(targets[Top.node]) \in Nat
    BY <2>1 DEF GraphTypes
  <2>3. output' \in [Node -> Buffer] /\ input' \in [Node -> Buffer]
    BY <1>3, <2>2 DEF Inform, Buffer
  <2>4. refs' \in [Framebuffers -> Int]
    BY <1>3, <2>2 DEF Inform, Buffer
  <2> QED
    BY <1>3, <2>3, <2>4 DEF Inform
<1>4. ASSUME NEW n \in Node, Active("render"), Top.node = n,
             NEW b \in Framebuffers,
             refs' = [refs EXCEPT ![b] = 1, ![input[n]] = @ - 1],
             content' = [content EXCEPT ![b] = content[input[n]]],
             output' = [output EXCEPT ![n] = b],
             reached' = reached \cup {n}, UNCHANGED <<reading, input>>
      PROVE  BufferTypes'
  <2>1. input[n] \in Framebuffers
    BY <1>4 DEF InputIsNew, Active
  <2>2. refs' \in [Framebuffers -> Int]
    BY <1>4, <2>1
  <2>3. content' \in [Framebuffers -> {"old", "new"}]
    BY <1>4, <2>1
  <2>4. output' \in [Node -> Buffer]
    BY <1>4 DEF Buffer
  <2> QED
    BY <1>4, <2>2, <2>3, <2>4
<1>5. ASSUME NEW n \in Node, RenderPlain(n) PROVE BufferTypes'
  BY <1>4, <1>5 DEF RenderPlain
<1>6. CASE MeshDraw
  BY <1>0, <1>4, <1>6 DEF MeshDraw
<1>7. ASSUME NEW n \in Node, Active("render") \/ Active("read"), Top.node = n,
             refs' = [refs EXCEPT ![input[n]] = @ - 1] \/ UNCHANGED refs,
             \/ reading' = [reading EXCEPT ![input[n]] = @ + 1]
             \/ reading' = [reading EXCEPT ![input[n]] = @ - 1]
             \/ UNCHANGED reading,
             input' = [input EXCEPT ![n] = NoBuffer] \/ UNCHANGED input,
             reached' = reached \cup {n} \/ UNCHANGED reached,
             UNCHANGED <<content, output>>
      PROVE  BufferTypes'
  <2>1. input[n] \in Framebuffers
    BY <1>7 DEF InputIsNew, Active
  <2>2. refs' \in [Framebuffers -> Int]
    BY <1>7, <2>1
  <2>3. reading' \in [Framebuffers -> Int]
    BY <1>7, <2>1
  <2>4. input' \in [Node -> Buffer]
    BY <1>7 DEF Buffer
  <2> QED
    BY <1>7, <2>2, <2>3, <2>4
<1>8. CASE LandmarkSkip \/ LandmarkLock
  BY <1>0, <1>7, <1>8 DEF LandmarkSkip, LandmarkLock
<1>9. CASE LandmarkNoPixels \/ LandmarkCopy
  BY <1>0, <1>7, <1>9 DEF LandmarkNoPixels, LandmarkCopy
<1>10. CASE ViewShow
  BY <1>0, <1>7, <1>10 DEF ViewShow
<1>11. CASE MeshPass
  <2>1. input["mesh"] \in Framebuffers
    BY <1>11 DEF MeshPass, InputIsNew, Active
  <2>2. refs' \in [Framebuffers -> Int]
    BY <1>11, <2>1 DEF MeshPass
  <2>3. output' \in [Node -> Buffer] /\ reached' \in SUBSET Node
    BY <1>0, <1>11, <2>1 DEF MeshPass, Buffer
  <2> QED
    BY <1>11, <2>2, <2>3 DEF MeshPass
<1> QED
  BY <1>1, <1>2, <1>3, <1>5, <1>6, <1>8, <1>9, <1>10, <1>11
  DEF GraphNext, MainStep, QueueStep

(***************************************************************************)
(* The graph.                                                              *)
(***************************************************************************)
\* The last of the ten steps leaves the full graph.
LEMMA AllWired ==
  ASSUME NEW g \in [Node -> Seq(Node)], Wired(g, 10)
  PROVE  g = FullGraph
<1>1. \A n \in Node : g[n] = FullGraph[n]
  BY DEF Wired, FullGraph, Node
<1> QED
  BY <1>1 DEF FullGraph

\* The graph after a step of the wiring task.
After(g, step) == [g EXCEPT ![step.from] = Rewired(@, step)]

LEMMA AfterCut ==
  ASSUME NEW g \in [Node -> Seq(Node)], NEW n \in Node
  PROVE  After(g, Cut(n)) = [g EXCEPT ![n] = << >>]
BY DEF After, Cut, Rewired

LEMMA ResizeThenMesh == Append(<<"resize">>, "mesh") = <<"resize", "mesh">>
<1>1. "resize" \in Node /\ "mesh" \in Node
  BY DEF Node
<1>2. <<"resize">> \in Seq(Node) /\ <<"resize", "mesh">> \in Seq(Node)
  BY <1>1
<1>3. /\ Append(<<"resize">>, "mesh") \in Seq(Node)
      /\ Len(Append(<<"resize">>, "mesh")) = 2
      /\ Append(<<"resize">>, "mesh")[1] = "resize"
      /\ Append(<<"resize">>, "mesh")[2] = "mesh"
  <2>1. Len(<<"resize">>) = 1 /\ <<"resize">>[1] = "resize"
    OBVIOUS
  <2> QED
    BY <1>1, <1>2, <2>1, AppendProperties
<1>4. \A i \in 1 .. 2 :
         Append(<<"resize">>, "mesh")[i] = <<"resize", "mesh">>[i]
  BY <1>3
<1>5. Len(<<"resize", "mesh">>) = 2
  OBVIOUS
<1> QED
  BY <1>2, <1>3, <1>4, <1>5, SeqEqual

LEMMA WiredStep ==
  ASSUME NEW g \in [Node -> Seq(Node)], NEW j \in 0 .. 9, Wired(g, j)
  PROVE  Wired(After(g, Wiring[j + 1]), j + 1)
<1>1. CASE j = 0
  <2>1. Wiring[j + 1] = Cut("camera") /\ "camera" \in Node
    BY <1>1 DEF Wiring, Node
  <2>2. After(g, Wiring[j + 1]) = [g EXCEPT !["camera"] = << >>]
    BY <2>1, AfterCut
  <2> QED
    BY <1>1, <2>2 DEF Wired, Node
<1>2. CASE j = 1
  <2>1. Wiring[j + 1] = Cut("landmark") /\ "landmark" \in Node
    BY <1>2 DEF Wiring, Node
  <2>2. After(g, Wiring[j + 1]) = [g EXCEPT !["landmark"] = << >>]
    BY <2>1, AfterCut
  <2> QED
    BY <1>2, <2>2 DEF Wired, Node
<1>3. CASE j = 2
  <2>1. Wiring[j + 1] = Cut("resize") /\ "resize" \in Node
    BY <1>3 DEF Wiring, Node
  <2>2. After(g, Wiring[j + 1]) = [g EXCEPT !["resize"] = << >>]
    BY <2>1, AfterCut
  <2> QED
    BY <1>3, <2>2 DEF Wired, Node
<1>4. CASE j = 3
  <2>1. Wiring[j + 1] = Cut("len") /\ "len" \in Node
    BY <1>4 DEF Wiring, Node
  <2>2. After(g, Wiring[j + 1]) = [g EXCEPT !["len"] = << >>]
    BY <2>1, AfterCut
  <2> QED
    BY <1>4, <2>2 DEF Wired, Node
<1>5. CASE j = 4
  <2>1. Wiring[j + 1] = Cut("mesh") /\ "mesh" \in Node
    BY <1>5 DEF Wiring, Node
  <2>2. After(g, Wiring[j + 1]) = [g EXCEPT !["mesh"] = << >>]
    BY <2>1, AfterCut
  <2> QED
    BY <1>5, <2>2 DEF Wired, Node
<1>6. CASE j = 5
  <2>1. Wiring[j + 1] = Join("camera", "len")
        /\ "camera" \in Node /\ "len" \in Node
    BY <1>6 DEF Wiring, Node
  <2>2. g["camera"] = << >>
    BY <1>6 DEF Wired
  <2>3. Append(<< >>, "len") = <<"len">>
    OBVIOUS
  <2>4. "len" \notin ToSet(<< >>)
    BY DEF ToSet
  <2>5. After(g, Join("camera", "len")) = [g EXCEPT !["camera"] = <<"len">>]
    BY <2>2, <2>3, <2>4 DEF After, Join, Rewired
  <2> QED
    BY <1>6, <2>1, <2>5 DEF Wired, Node
<1>7. CASE j = 6
  <2>1. Wiring[j + 1] = Join("len", "resize")
        /\ "len" \in Node /\ "resize" \in Node
    BY <1>7 DEF Wiring, Node
  <2>2. g["len"] = << >>
    BY <1>7 DEF Wired
  <2>3. Append(<< >>, "resize") = <<"resize">>
    OBVIOUS
  <2>4. "resize" \notin ToSet(<< >>)
    BY DEF ToSet
  <2>5. After(g, Join("len", "resize")) = [g EXCEPT !["len"] = <<"resize">>]
    BY <2>2, <2>3, <2>4 DEF After, Join, Rewired
  <2> QED
    BY <1>7, <2>1, <2>5 DEF Wired, Node
<1>8. CASE j = 7
  <2>1. Wiring[j + 1] = Join("resize", "landmark")
        /\ "resize" \in Node /\ "landmark" \in Node
    BY <1>8 DEF Wiring, Node
  <2>2. g["resize"] = << >>
    BY <1>8 DEF Wired
  <2>3. Append(<< >>, "landmark") = <<"landmark">>
    OBVIOUS
  <2>4. "landmark" \notin ToSet(<< >>)
    BY DEF ToSet
  <2>5. After(g, Join("resize", "landmark")) = [g EXCEPT !["resize"] = <<"landmark">>]
    BY <2>2, <2>3, <2>4 DEF After, Join, Rewired
  <2> QED
    BY <1>8, <2>1, <2>5 DEF Wired, Node
<1>9. CASE j = 8
  <2>1. Wiring[j + 1] = Join("len", "mesh")
        /\ "len" \in Node /\ "mesh" \in Node
    BY <1>9 DEF Wiring, Node
  <2>2. g["len"] = <<"resize">>
    BY <1>9 DEF Wired
  <2>3. Append(<<"resize">>, "mesh") = <<"resize", "mesh">>
    BY ResizeThenMesh
  <2>4. "mesh" \notin ToSet(<<"resize">>)
    BY DEF ToSet
  <2>5. After(g, Join("len", "mesh")) = [g EXCEPT !["len"] = <<"resize", "mesh">>]
    BY <2>2, <2>3, <2>4 DEF After, Join, Rewired
  <2> QED
    BY <1>9, <2>1, <2>5 DEF Wired, Node
<1>10. CASE j = 9
  <2>1. Wiring[j + 1] = Join("mesh", "view")
        /\ "mesh" \in Node /\ "view" \in Node
    BY <1>10 DEF Wiring, Node
  <2>2. g["mesh"] = << >>
    BY <1>10 DEF Wired
  <2>3. Append(<< >>, "view") = <<"view">>
    OBVIOUS
  <2>4. "view" \notin ToSet(<< >>)
    BY DEF ToSet
  <2>5. After(g, Join("mesh", "view")) = [g EXCEPT !["mesh"] = <<"view">>]
    BY <2>2, <2>3, <2>4 DEF After, Join, Rewired
  <2> QED
    BY <1>10, <2>1, <2>5 DEF Wired, Node
<1> QED
  BY <1>1, <1>2, <1>3, <1>4, <1>5, <1>6, <1>7, <1>8, <1>9, <1>10

LEMMA WireStepCorrect ==
  ASSUME GraphTypes, WireStep, NEW j \in 0 .. 9, WiringAt(j)
  PROVE  /\ j = 9 => wiring' = << >> /\ targets' = FullGraph
         /\ j < 9 => WiringAt(j + 1)'
<1>1. Head(wiring) = Wiring[j + 1] /\ wiring # << >>
  BY DEF WiringAt, WireStep, GraphTypes
<1>2. /\ Len(wiring') = 10 - (j + 1)
      /\ \A k \in 1 .. 10 - (j + 1) : wiring'[k] = Wiring[(j + 1) + k]
  <2>1. /\ wiring' \in Seq([op : {"remove", "add"}, from : Node, to : Node])
        /\ Len(wiring') = Len(wiring) - 1
        /\ \A i \in 1 .. Len(wiring') : wiring'[i] = wiring[i + 1]
    BY <1>1, HeadTailProperties DEF WireStep, GraphTypes
  <2>2. \A k \in 1 .. 10 - (j + 1) : k + 1 \in 1 .. 10 - j
    OBVIOUS
  <2> QED
    BY <2>1, <2>2 DEF WiringAt
<1>3. Wired(targets', j + 1) /\ targets' \in [Node -> Seq(Node)]
  <2>1. targets' = After(targets, Wiring[j + 1])
    BY <1>1 DEF WireStep, After
  <2>2. GraphTypes'
    BY GraphTypesStep DEF GraphNext, QueueStep
  <2> QED
    BY <2>1, <2>2, WiredStep DEF GraphTypes, WiringAt
<1>4. j < 9 => WiringAt(j + 1)'
  BY <1>2, <1>3 DEF WiringAt
<1>5. CASE j = 9
  <2>1. GraphTypes'
    BY GraphTypesStep DEF GraphNext, QueueStep
  <2>2. wiring' = << >>
    BY <1>2, <1>5, <2>1 DEF GraphTypes
  <2> QED
    BY <1>3, <1>5, <2>2, AllWired
<1> QED
  BY <1>4, <1>5

LEMMA QueueGrows ==
  ASSUME queue \in Seq(Tasks), NEW task \in Tasks, queue' = Append(queue, task)
  PROVE  /\ Waits("wire") => Waits("wire")'
         /\ Waits(task)'
         /\ Len(queue') = Len(queue) + 1 /\ queue'[Len(queue) + 1] = task
         /\ \A i \in 1 .. Len(queue) : queue'[i] = queue[i]
BY AppendProperties DEF Waits

LEMMA QueueShrinks ==
  ASSUME queue \in Seq(Tasks), queue # << >>, queue' = Tail(queue),
         Head(queue) = "frame"
  PROVE  /\ Waits("wire") => Waits("wire")'
         /\ Len(queue') = Len(queue) - 1 /\ Len(queue) \in Nat
         /\ \A i \in 1 .. Len(queue') : queue'[i] = queue[i + 1]
         /\ queue[1] = "frame"
<1>1. /\ Len(queue') = Len(queue) - 1 /\ Len(queue) \in Nat
      /\ \A i \in 1 .. Len(queue') : queue'[i] = queue[i + 1]
      /\ queue[1] = "frame"
  BY HeadTailProperties
<1>2. ASSUME Waits("wire") PROVE Waits("wire")'
  <2>1. PICK i \in 1 .. Len(queue) : queue[i] = "wire"
    BY <1>2 DEF Waits
  <2>2. i # 1
    BY <1>1, <2>1
  <2>3. i - 1 \in 1 .. Len(queue') /\ (i - 1) + 1 = i
    BY <1>1, <2>2
  <2>4. queue'[i - 1] = "wire"
    BY <1>1, <2>1, <2>3
  <2> QED
    BY <2>3, <2>4 DEF Waits
<1> QED
  BY <1>1, <1>2

LEMMA GraphInvStep ==
  ASSUME GraphTypes, MainTypes, GraphInv, [GraphNext]_graphVars
  PROVE  GraphInv'
<1> USE DEF GraphTypes, GraphInv, WireFirst
<1>1. CASE Appear
  <2>1. UNCHANGED <<targets, wiring, calls, capturing>> /\ queue' = Append(queue, "wire")
    BY <1>1 DEF Appear, graph
  <2>2. Waits("wire")'
    BY <2>1, QueueGrows DEF Tasks
  <2>3. WillBeFull' = WillBeFull
    BY <2>1 DEF WillBeFull
  <2>4. \A i \in 1 .. Len(queue') : queue'[i] = "frame" => i \in 1 .. Len(queue)
                                                          /\ queue[i] = "frame"
    BY <2>1, QueueGrows, SMTT(30) DEF Tasks
  <2>5. WireFirst'
    <3> SUFFICES ASSUME NEW i \in 1 .. Len(queue'), queue'[i] = "frame", ~WillBeFull
                 PROVE  \E k \in 1 .. i - 1 : queue'[k] = "wire"
      BY <2>3 DEF WireFirst
    <3>1. i \in 1 .. Len(queue) /\ queue[i] = "frame"
      BY <2>4
    <3>2. PICK k \in 1 .. i - 1 : queue[k] = "wire"
      BY <3>1
    <3>3. k \in 1 .. Len(queue)
      BY <3>1
    <3> QED
      BY <2>1, <3>2, <3>3, QueueGrows DEF Tasks
  <2> QED
    BY <2>1, <2>2, <2>5 DEF WireFirst, WiringAt
<1>2. CASE StartCapture
  BY <1>2 DEF StartCapture, graph, WillBeFull, Waits, WiringAt
<1>3. CASE CaptureFrame
  <2>1. UNCHANGED <<targets, wiring, calls, main>> /\ queue' = Append(queue, "frame")
        /\ (WillBeFull \/ Waits("wire"))
    BY <1>3 DEF CaptureFrame, graph
  <2>2. WillBeFull' = WillBeFull
    BY <2>1 DEF WillBeFull
  <2>3. WillBeFull' \/ Waits("wire")'
    BY <2>1, <2>2, QueueGrows DEF Tasks
  <2>4. WireFirst'
    <3> SUFFICES ASSUME NEW i \in 1 .. Len(queue'), queue'[i] = "frame", ~WillBeFull
                 PROVE  \E k \in 1 .. i - 1 : queue'[k] = "wire"
      BY <2>2 DEF WireFirst
    <3>1. PICK k \in 1 .. Len(queue) : queue[k] = "wire"
                                     /\ (i \in 1 .. Len(queue) => k \in 1 .. i - 1)
      <4>1. CASE i \in 1 .. Len(queue)
        <5>1. queue[i] = "frame"
          BY <2>1, <4>1, QueueGrows DEF Tasks
        <5>2. PICK k \in 1 .. i - 1 : queue[k] = "wire"
          BY <4>1, <5>1
        <5> QED
          BY <4>1, <5>2
      <4>2. CASE i \notin 1 .. Len(queue)
        BY <2>1, <4>2 DEF Waits
      <4> QED
        BY <4>1, <4>2
    <3>2. Len(queue') = Len(queue) + 1 /\ queue'[k] = "wire" /\ Len(queue) \in Nat
      BY <2>1, <3>1, QueueGrows DEF Tasks
    <3>3. k \in 1 .. i - 1
      BY <3>1, <3>2
    <3> QED
      BY <3>2, <3>3
  <2> QED
    BY <2>1, <2>3, <2>4 DEF WireFirst, WiringAt, main
<1>4. CASE StartWiring
  <2>1. UNCHANGED <<targets, calls, main>> /\ wiring' = Wiring /\ calls = << >>
    BY <1>4 DEF StartWiring, Idle
  <2>2. Len(Wiring) = 10 /\ Wiring # << >>
    BY DEF Wiring
  <2>3. WillBeFull'
    BY <2>1, <2>2 DEF WillBeFull
  <2>4. WiringAt(0)'
    BY <2>1, <2>2 DEF WiringAt, Wired
  <2>5. \E j \in 0 .. 9 : WiringAt(j)'
    BY <2>4
  <2> QED
    BY <2>1, <2>3, <2>5
<1>5. CASE WireStep
  <2>1. PICK j \in 0 .. 9 : WiringAt(j)
    BY <1>5 DEF WireStep
  <2>2. UNCHANGED <<queue, calls, main>> /\ wiring # << >> /\ calls = << >>
    BY <1>5 DEF WireStep
  <2>3. CASE j = 9
    <3>1. wiring' = << >> /\ targets' = FullGraph
      BY <1>5, <2>1, <2>3, WireStepCorrect
    <3>2. FullGraph["view"] = << >>
      BY DEF FullGraph, Node
    <3> QED
      BY <2>2, <3>1, <3>2 DEF WillBeFull
  <2>4. CASE j < 9
    <3>1. WiringAt(j + 1)'
      BY <1>5, <2>1, <2>4, WireStepCorrect
    <3>2. wiring' # << >>
      BY <2>4, <3>1 DEF WiringAt
    <3>3. targets'["view"] = << >>
      BY <3>1 DEF WiringAt, Wired
    <3>4. \E i \in 0 .. 9 : WiringAt(i)'
      <4>1. PICK i \in 0 .. 9 : i = j + 1
        BY <2>4
      <4>2. WiringAt(i)'
        BY <3>1, <4>1
      <4> QED
        BY <4>2
    <3> QED
      BY <2>2, <3>2, <3>3, <3>4 DEF WillBeFull
  <2> QED
    BY <2>3, <2>4
<1>6. CASE StartFrame
  <2>1. /\ UNCHANGED <<targets, wiring, main>> /\ wiring = << >>
        /\ queue' = Tail(queue) /\ queue # << >> /\ Head(queue) = "frame"
    BY <1>6 DEF StartFrame, Idle, graph
  <2>2. 1 \in 1 .. Len(queue) /\ queue[1] = "frame"
    BY <2>1
  <2>3. targets = FullGraph
    BY <2>1, <2>2 DEF WillBeFull
  <2>4. WillBeFull'
    BY <2>1, <2>3 DEF WillBeFull
  <2> QED
    BY <2>1, <2>3, <2>4
<1>7. ASSUME calls # << >>, UNCHANGED <<graph, queue, main>>
      PROVE  GraphInv'
  BY <1>7 DEF graph, main, WillBeFull, Waits
<1>8. CASE Inform \/ CallTarget \/ ReturnCall \/ MeshPass \/ MeshDraw
           \/ LandmarkSkip \/ LandmarkLock \/ LandmarkNoPixels \/ LandmarkCopy
           \/ ViewShow \/ \E n \in Node : RenderPlain(n)
  BY <1>7, <1>8 DEF Inform, CallTarget, ReturnCall, MeshPass, MeshDraw,
     LandmarkSkip, LandmarkLock, LandmarkNoPixels, LandmarkCopy, ViewShow,
     RenderPlain, Active
<1>9. CASE UNCHANGED graphVars
  BY <1>9 DEF graphVars, graph, main, WillBeFull, Waits, WiringAt
<1> QED
  BY <1>1, <1>2, <1>3, <1>4, <1>5, <1>6, <1>8, <1>9
  DEF GraphNext, MainStep, QueueStep

(***************************************************************************)
(* The calls.                                                              *)
(***************************************************************************)
\* What the last call may be before and after a call of a target.
LEMMA Steps ==
  /\ Len(<<"len">>) = 1 /\ Head(<<"len">>) = "len" /\ Tail(<<"len">>) = << >>
  /\ Head(<<"mesh">>) = "mesh" /\ Tail(<<"mesh">>) = << >>
  /\ Head(<<"landmark">>) = "landmark" /\ Tail(<<"landmark">>) = << >>
  /\ Head(<<"view">>) = "view" /\ Tail(<<"view">>) = << >>
  /\ Head(<<"resize", "mesh">>) = "resize"
  /\ Tail(<<"resize", "mesh">>) = <<"mesh">>
OBVIOUS

\* A filter is called by the one that waits for it.
LEMMA CalledByCaller ==
  ASSUME GraphTypes, CallsInv, Active("call"), Top.todo # << >>
  PROVE  /\ Head(Top.todo) \in Node \ {"camera"}
         /\ Waiting(Top.node, Tail(Top.todo)) = Caller(Head(Top.todo))
<1>1. Top.todo \in Rests(Top.node) /\ Top.node \in Node
  BY TopType DEF CallsInv, Standing, Active, GraphTypes, FilterCall
<1>2. CASE Top.node = "camera"
  BY <1>1, <1>2, Steps DEF Rests, Caller, Waiting, Node
<1>3. CASE Top.node = "len"
  BY <1>1, <1>3, Steps DEF Rests, Caller, Waiting, Node
<1>4. CASE Top.node = "resize"
  BY <1>1, <1>4, Steps DEF Rests, Caller, Waiting, Node
<1>5. CASE Top.node = "mesh"
  BY <1>1, <1>5, Steps DEF Rests, Caller, Waiting, Node
<1>6. CASE Top.node \in {"landmark", "view"}
  BY <1>1, <1>6 DEF Rests
<1> QED
  BY <1>1, <1>2, <1>3, <1>4, <1>5, <1>6 DEF Node

LEMMA StackedTop ==
  ASSUME calls \in Seq(FilterCall), calls # << >>, Stacked(calls),
         NEW t, NEW c, TopIs(t, c), c.node = Top.node
  PROVE  Stacked(t)
<1>1. Len(calls) \in Nat \ {0} /\ Len(t) = Len(calls)
  BY DEF TopIs
<1>2. \A k \in 1 .. Len(calls) : t[k].node = calls[k].node
                               /\ (k # Len(calls) => t[k] = calls[k])
  BY <1>1 DEF TopIs, Top
<1>3. \A k \in 2 .. Len(calls) : k - 1 \in 1 .. Len(calls) /\ k - 1 # Len(calls)
  BY <1>1
<1>4. \A k \in 2 .. Len(calls) : t[k - 1] = calls[k - 1]
  BY <1>2, <1>3
<1>5. \A k \in 1 .. Len(calls) : k = 1 \/ k \in 2 .. Len(calls)
  BY <1>1
<1> QED
  BY <1>1, <1>2, <1>4, <1>5 DEF Stacked

LEMMA StackedReturn ==
  ASSUME calls \in Seq(FilterCall), calls # << >>, Stacked(calls)
  PROVE  /\ Stacked(Return) /\ Return \in Seq(FilterCall)
         /\ Top.node = "camera" <=> Return = << >>
         /\ Return # << >> => Return[Len(Return)] = Caller(Top.node)
<1>1. Len(calls) \in Nat \ {0}
  OBVIOUS
<1>2. /\ Return \in Seq(FilterCall) /\ Len(Return) = Len(calls) - 1
      /\ \A k \in 1 .. Len(calls) - 1 : Return[k] = calls[k]
  BY DropTop
<1>3. Stacked(Return)
  <2> SUFFICES ASSUME NEW k \in 1 .. Len(Return)
               PROVE  IF k = 1 THEN Return[k].node = "camera"
                      ELSE /\ Return[k].node # "camera"
                           /\ Return[k - 1] = Caller(Return[k].node)
    BY DEF Stacked
  <2>1. k \in 1 .. Len(calls) /\ Return[k] = calls[k]
    BY <1>1, <1>2
  <2>2. k # 1 => Return[k - 1] = calls[k - 1]
    BY <1>1, <1>2
  <2> QED
    BY <2>1, <2>2 DEF Stacked
<1>4. Return = << >> <=> Len(calls) = 1
  BY <1>1, <1>2
<1>5. Top = calls[Len(calls)]
  BY DEF Top
<1>6. CASE Len(calls) = 1
  BY <1>4, <1>5, <1>6 DEF Stacked
<1>7. CASE Len(calls) > 1
  <2>1. Top.node # "camera" /\ calls[Len(calls) - 1] = Caller(Top.node)
    BY <1>1, <1>5, <1>7 DEF Stacked
  <2>2. Return[Len(Return)] = calls[Len(calls) - 1]
    BY <1>1, <1>2, <1>7
  <2> QED
    BY <1>2, <1>3, <1>4, <1>7, <2>1, <2>2
<1> QED
  BY <1>1, <1>2, <1>3, <1>6, <1>7

LEMMA StackedCall ==
  ASSUME GraphTypes, CallsInv, CallTarget
  PROVE  Stacked(calls') /\ calls' # << >> /\ Top' = NewCall(Head(Top.todo))
<1>1. calls # << >> /\ Top.at = "call" /\ Top.todo # << >> /\ Active("call")
  BY DEF CallTarget, Active
<1> DEFINE L == Len(calls)
           h == Head(Top.todo)
<1>2. L \in Nat \ {0} /\ calls \in Seq(FilterCall)
  BY <1>1 DEF GraphTypes
<1>3. /\ calls' \in Seq(FilterCall) /\ Len(calls') = L + 1
      /\ calls'[L] = Waiting(Top.node, Tail(Top.todo))
      /\ calls'[Len(calls')] = NewCall(h)
      /\ \A k \in 1 .. L - 1 : calls'[k] = calls[k]
  BY <1>1, <1>2, CallTop DEF CallTarget
<1>4. h # "camera" /\ calls'[L] = Caller(h)
  BY <1>1, <1>3, CalledByCaller
<1>5. calls'[L].node = calls[L].node
  BY <1>3 DEF Waiting, Top
<1>6. calls'[L + 1].node = h
  BY <1>2, <1>3 DEF NewCall
<1> HIDE DEF h, L
<1>7. \A k \in 1 .. L : calls'[k].node = calls[k].node
  BY <1>2, <1>3, <1>5
<1>8. ASSUME NEW k \in 2 .. L
      PROVE  calls'[k].node # "camera" /\ calls'[k - 1] = Caller(calls'[k].node)
  <2>1. k \in 1 .. L /\ k - 1 \in 1 .. L - 1 /\ k # 1
    BY <1>2
  <2> QED
    BY <1>3, <1>7, <2>1 DEF CallsInv, Stacked, L
<1>9. calls'[1].node = "camera"
  BY <1>2, <1>7 DEF CallsInv, Stacked, L
<1>10. \A k \in 1 .. Len(calls') : k = 1 \/ k \in 2 .. L \/ k = L + 1
  BY <1>2, <1>3
<1>11. Stacked(calls')
  BY <1>2, <1>4, <1>6, <1>8, <1>9, <1>10 DEF Stacked
<1> QED
  BY <1>2, <1>3, <1>11 DEF Top, h

(***************************************************************************)
(* The top of the calls after each step of a frame.                        *)
(***************************************************************************)
LEMMA TopAfterInform ==
  ASSUME GraphTypes, GraphInv, CallsInv, Inform
  PROVE  /\ Top' = Waiting(Top.node, FullGraph[Top.node])
         /\ Top.node \in {"camera", "len", "resize", "mesh"}
         /\ CallsInv' /\ calls' # << >>
<1> DEFINE n == Top.node
<1>1. calls # << >> /\ Top \in FilterCall /\ Top.at = "inform"
  BY TopType DEF Inform, Active, GraphTypes
<1>2. n \in {"camera", "len", "resize", "mesh"}
  BY <1>1 DEF CallsInv, Standing
<1>3. targets[n] = FullGraph[n] /\ targets[n] \in Seq(Node)
  BY <1>1 DEF GraphInv, GraphTypes, FilterCall
<1>4. TopIs(calls', Waiting(n, FullGraph[n]))
  BY <1>1, <1>3, InformTop DEF Inform, GraphTypes
<1>5. calls' # << >> /\ Top' = Waiting(n, FullGraph[n])
  BY <1>4 DEF TopIs, Top
<1>6. Waiting(n, FullGraph[n]).node = n
  BY DEF Waiting
<1>7. Stacked(calls')
  BY <1>1, <1>4, <1>6, StackedTop DEF CallsInv, GraphTypes
<1>8. FullGraph[n] \in Rests(n)
  BY <1>2 DEF FullGraph, Rests, Node
<1>9. Standing(Top')
  BY <1>5, <1>8 DEF Standing, Waiting
<1> QED
  BY <1>2, <1>5, <1>7, <1>9 DEF CallsInv

LEMMA TopAfterCall ==
  ASSUME GraphTypes, CallsInv, CallTarget
  PROVE  /\ Top' = NewCall(Head(Top.todo))
         /\ CallsInv' /\ calls' # << >>
<1>1. Stacked(calls') /\ calls' # << >> /\ Top' = NewCall(Head(Top.todo))
  BY StackedCall
<1>2. Head(Top.todo) # "camera"
  BY CalledByCaller DEF CallTarget
<1>3. Standing(Top')
  BY <1>1, <1>2 DEF Standing, NewCall
<1> QED
  BY <1>1, <1>3 DEF CallsInv

LEMMA TopAfterReturn ==
  ASSUME GraphTypes, CallsInv, calls # << >>, calls' = Return
  PROVE  /\ CallsInv'
         /\ Top.node = "camera" <=> calls' = << >>
         /\ calls' # << >> => Top' = Caller(Top.node)
<1>1. /\ Stacked(calls') /\ calls' \in Seq(FilterCall)
      /\ Top.node = "camera" <=> calls' = << >>
      /\ calls' # << >> => calls'[Len(calls')] = Caller(Top.node)
  BY StackedReturn DEF CallsInv, GraphTypes
<1>2. calls' # << >> => Top' = Caller(Top.node)
  BY <1>1 DEF Top
<1>3. ASSUME NEW n \in Node \ {"camera"} PROVE Standing(Caller(n))
  BY <1>3 DEF Standing, Caller, Waiting, Rests, Node
<1>4. Top.node \in Node
  BY TopType DEF GraphTypes, FilterCall
<1>5. calls' # << >> => Standing(Top')
  BY <1>1, <1>2, <1>3, <1>4
<1> QED
  BY <1>1, <1>2, <1>5 DEF CallsInv

LEMMA TopAfterGoto ==
  ASSUME GraphTypes, CallsInv, NEW place \in {"read", "inform"},
         Active("render"), calls' = Goto(place),
         Standing([Top EXCEPT !.at = place])
  PROVE  /\ CallsInv' /\ calls' # << >>
         /\ Top' \in FilterCall /\ Top'.node = Top.node /\ Top'.at = place
         /\ Top'.todo = << >>
<1>1. calls \in Seq(FilterCall) /\ calls # << >> /\ Top.at = "render" /\ Top \in FilterCall
  BY TopType DEF Active, GraphTypes
<1>2. TopIs(calls', [Top EXCEPT !.at = place])
  BY <1>1, GotoTop
<1>3. /\ [Top EXCEPT !.at = place].node = Top.node
      /\ [Top EXCEPT !.at = place].at = place
      /\ [Top EXCEPT !.at = place].todo = Top.todo
      /\ [Top EXCEPT !.at = place] \in FilterCall
  BY <1>1 DEF FilterCall
<1>4. calls' # << >> /\ Top' = [Top EXCEPT !.at = place]
  BY <1>2 DEF TopIs, Top
<1>5. Stacked(calls')
  BY <1>1, <1>2, <1>3, StackedTop DEF CallsInv
<1>6. Top.todo = << >>
  BY <1>1 DEF CallsInv, Standing
<1> QED
  BY <1>3, <1>4, <1>5, <1>6 DEF CallsInv

LEMMA TopAfterStart ==
  ASSUME StartFrame
  PROVE  /\ CallsInv' /\ calls' # << >>
         /\ Top' \in FilterCall /\ Top'.node = "camera" /\ Top'.at = "inform"
         /\ Top'.todo = << >>
<1>1. "camera" \in Node
  BY DEF Node
<1> DEFINE c == [NewCall("camera") EXCEPT !.at = "inform"]
<1>2. c \in FilterCall /\ c.node = "camera" /\ c.at = "inform" /\ c.todo = << >>
  BY <1>1, EmptyNodes DEF NewCall, FilterCall
<1>3. calls' = <<c>>
  BY DEF StartFrame
<1> HIDE DEF c
<1>4. Len(calls') = 1 /\ calls'[1] = c /\ calls' # << >>
  BY <1>3
<1>5. Top' = c
  BY <1>4 DEF Top
<1>6. Stacked(calls')
  BY <1>2, <1>4 DEF Stacked
<1> QED
  BY <1>2, <1>4, <1>5, <1>6 DEF CallsInv, Standing

LEMMA TopAfterRender ==
  ASSUME GraphTypes, CallsInv,
         MeshPass \/ MeshDraw \/ \E n \in Node : RenderPlain(n)
  PROVE  /\ CallsInv' /\ calls' # << >>
         /\ Top' \in FilterCall /\ Top'.node = Top.node /\ Top'.at = "inform"
         /\ Top'.todo = << >>
         /\ Top.node \in {"len", "resize", "mesh"} /\ Top.at = "render"
<1>1. /\ Active("render") /\ calls' = Goto("inform")
      /\ Top.node \in {"len", "resize", "mesh"}
  BY DEF MeshPass, MeshDraw, RenderPlain
<1>2. Top \in FilterCall /\ Top.at = "render" /\ Top.todo = << >>
  BY <1>1, TopType DEF GraphTypes, Active, CallsInv, Standing
<1>3. Standing([Top EXCEPT !.at = "inform"])
  BY <1>1, <1>2 DEF Standing, FilterCall
<1> QED
  BY <1>1, <1>2, <1>3, TopAfterGoto

LEMMA TopAfterLock ==
  ASSUME GraphTypes, CallsInv, LandmarkLock
  PROVE  /\ CallsInv' /\ calls' # << >>
         /\ Top' \in FilterCall /\ Top'.node = "landmark" /\ Top'.at = "read"
         /\ Top'.todo = << >>
         /\ Top.node = "landmark" /\ Top.at = "render"
<1>1. Active("render") /\ calls' = Goto("read") /\ Top.node = "landmark"
  BY DEF LandmarkLock
<1>2. Top \in FilterCall /\ Top.at = "render" /\ Top.todo = << >>
  BY <1>1, TopType DEF GraphTypes, Active, CallsInv, Standing
<1>3. Standing([Top EXCEPT !.at = "read"])
  BY <1>1, <1>2 DEF Standing, FilterCall
<1> QED
  BY <1>1, <1>2, <1>3, TopAfterGoto

\* A leaf of the graph returns to the filter that called it.
LEMMA TopAfterLeaf ==
  ASSUME GraphTypes, CallsInv,
         LandmarkSkip \/ LandmarkNoPixels \/ LandmarkCopy \/ ViewShow
  PROVE  /\ CallsInv' /\ calls' # << >> /\ calls # << >>
         /\ Top.node \in {"landmark", "view"}
         /\ Top.node = "landmark" => Top' = Waiting("resize", << >>)
         /\ Top.node = "view" => Top' = Waiting("mesh", << >>)
<1>1. /\ calls # << >> /\ calls' = Return
      /\ Top.node = "landmark" \/ Top.node = "view"
  BY DEF LandmarkSkip, LandmarkNoPixels, LandmarkCopy, ViewShow, Active
<1>2. CallsInv' /\ calls' # << >> /\ Top' = Caller(Top.node)
  BY <1>1, TopAfterReturn
<1> QED
  BY <1>1, <1>2 DEF Caller

LEMMA TopAfterReturnCall ==
  ASSUME GraphTypes, CallsInv, ReturnCall
  PROVE  /\ CallsInv' /\ calls # << >> /\ Top.at = "call" /\ Top.todo = << >>
         /\ \/ Top.node = "camera" /\ calls' = << >>
            \/ Top.node = "len" /\ calls' # << >> /\ Top' = Waiting("camera", << >>)
            \/ Top.node = "resize" /\ calls' # << >>
               /\ Top' = Waiting("len", <<"mesh">>)
            \/ Top.node = "mesh" /\ calls' # << >> /\ Top' = Waiting("len", << >>)
<1>1. calls # << >> /\ calls' = Return /\ Top.at = "call" /\ Top.todo = << >>
  BY DEF ReturnCall, Active
<1>2. Top.node \in Node /\ Top.todo \in Rests(Top.node)
  BY <1>1, TopType DEF CallsInv, Standing, GraphTypes, FilterCall
<1>3. Top.node \in {"camera", "len", "resize", "mesh"}
  BY <1>2 DEF Rests, Node
<1>4. /\ CallsInv'
      /\ Top.node = "camera" <=> calls' = << >>
      /\ calls' # << >> => Top' = Caller(Top.node)
  BY <1>1, TopAfterReturn
<1> QED
  BY <1>1, <1>3, <1>4 DEF Caller

LEMMA CallsInvStep ==
  ASSUME GraphTypes, GraphInv, CallsInv, [GraphNext]_graphVars
  PROVE  CallsInv'
<1>1. CASE calls' = calls
  BY <1>1 DEF CallsInv, Top
<1>2. CASE StartFrame
  BY <1>2, TopAfterStart
<1>3. CASE Inform
  BY <1>3, TopAfterInform
<1>4. CASE CallTarget
  BY <1>4, TopAfterCall
<1>5. CASE ReturnCall
  BY <1>5, TopAfterReturnCall
<1>6. CASE MeshPass \/ MeshDraw \/ \E n \in Node : RenderPlain(n)
  BY <1>6, TopAfterRender
<1>7. CASE LandmarkLock
  BY <1>7, TopAfterLock
<1>8. CASE LandmarkSkip \/ LandmarkNoPixels \/ LandmarkCopy \/ ViewShow
  BY <1>8, TopAfterLeaf
<1> QED
  BY <1>1, <1>2, <1>3, <1>4, <1>5, <1>6, <1>7, <1>8
  DEF GraphNext, MainStep, QueueStep, Appear, StartCapture, CaptureFrame,
      StartWiring, WireStep, graphVars

(***************************************************************************)
(* The order in which the filters handle a frame.                          *)
(***************************************************************************)
LEMMA ReachedInvStep ==
  ASSUME GraphTypes, GraphInv, CallsInv, ReachedInv, [GraphNext]_graphVars
  PROVE  ReachedInv'
<1>1. CASE UNCHANGED <<calls, reached>>
  BY <1>1 DEF ReachedInv, Top
<1>2. CASE StartFrame
  <2>1. reached' = {"camera"}
    BY <1>2 DEF StartFrame
  <2>2. calls' # << >> /\ Top'.at = "inform" /\ Top'.node = "camera"
    BY <1>2, TopAfterStart
  <2>3. Handled(Top') = {"camera"}
    BY <2>2 DEF Handled, Before
  <2> QED
    BY <2>1, <2>2, <2>3 DEF ReachedInv
<1>3. CASE Inform
  <2>1. /\ Top' = Waiting(Top.node, FullGraph[Top.node]) /\ calls' # << >>
        /\ Top.node \in {"camera", "len", "resize", "mesh"}
    BY <1>3, TopAfterInform
  <2>2. Top.at = "inform" /\ calls # << >> /\ reached' = reached
    BY <1>3 DEF Inform, Active
  <2>3. reached = Before(Top.node) \cup {Top.node}
    BY <2>2 DEF ReachedInv, Handled
  <2>4. /\ FullGraph["camera"] = <<"len">> /\ FullGraph["resize"] = <<"landmark">>
        /\ FullGraph["mesh"] = <<"view">> /\ FullGraph["len"] = <<"resize", "mesh">>
    BY DEF FullGraph, Node
  <2>5. Top'.at = "call" /\ Top'.todo = FullGraph[Top.node] /\ Top'.node = Top.node
    BY <2>1 DEF Waiting
  <2>6. Top'.todo # << >>
    BY <2>1, <2>4, <2>5
  <2>7. Handled(Top') = Before(Head(Top'.todo))
    BY <2>5, <2>6 DEF Handled
  <2>8. Before(Head(Top'.todo)) = Before(Top.node) \cup {Top.node}
    BY <2>1, <2>4, <2>5, Steps DEF Before, Node
  <2> QED
    BY <2>1, <2>2, <2>3, <2>7, <2>8 DEF ReachedInv
<1>4. CASE CallTarget
  <2>1. Top' = NewCall(Head(Top.todo)) /\ calls' # << >>
    BY <1>4, TopAfterCall
  <2>2. calls # << >> /\ Top.at = "call" /\ Top.todo # << >> /\ reached' = reached
    BY <1>4 DEF CallTarget, Active
  <2>3. reached = Before(Head(Top.todo))
    BY <2>2 DEF ReachedInv, Handled
  <2> QED
    BY <2>1, <2>2, <2>3 DEF ReachedInv, Handled, NewCall
<1>5. CASE ReturnCall
  <2>1. reached' = reached /\ calls # << >> /\ Top.at = "call" /\ Top.todo = << >>
    BY <1>5, TopAfterReturnCall DEF ReturnCall
  <2>2. reached = IF Top.node = "resize" THEN Before("mesh") ELSE Node
    BY <2>1 DEF ReachedInv, Handled
  <2> QED
    BY <1>5, <2>1, <2>2, TopAfterReturnCall, Steps
    DEF ReachedInv, Handled, Waiting
<1>6. CASE MeshPass \/ MeshDraw \/ \E n \in Node : RenderPlain(n)
  <2>1. /\ calls' # << >> /\ Top'.node = Top.node /\ Top'.at = "inform"
        /\ Top.node \in {"len", "resize", "mesh"} /\ Top.at = "render"
    BY <1>6, TopAfterRender
  <2>2. reached' = reached \cup {Top.node} /\ calls # << >>
    BY <1>6 DEF MeshPass, MeshDraw, RenderPlain, Active
  <2> QED
    BY <2>1, <2>2 DEF ReachedInv, Handled
<1>7. CASE LandmarkLock
  <2>1. /\ calls' # << >> /\ Top'.node = Top.node /\ Top'.at = "read"
        /\ Top.at = "render"
    BY <1>7, TopAfterLock
  <2>2. reached' = reached \cup {Top.node} /\ calls # << >>
    BY <1>7 DEF LandmarkLock, Active
  <2> QED
    BY <2>1, <2>2 DEF ReachedInv, Handled
<1>8. CASE LandmarkSkip \/ LandmarkNoPixels \/ LandmarkCopy \/ ViewShow
  <2>1. reached' = reached \cup {Top.node}
    BY <1>8 DEF ReachedInv, Handled, LandmarkSkip, LandmarkNoPixels,
       LandmarkCopy, ViewShow, Active
  <2>2. /\ calls' # << >> /\ calls # << >> /\ Top.node \in {"landmark", "view"}
        /\ Top.node = "landmark" => Top' = Waiting("resize", << >>)
        /\ Top.node = "view" => Top' = Waiting("mesh", << >>)
    BY <1>8, TopAfterLeaf
  <2>3. Top.at \in {"render", "read"}
    BY <1>8 DEF LandmarkSkip, LandmarkNoPixels, LandmarkCopy, ViewShow, Active
  <2>4. reached' = Before(Top.node) \cup {Top.node}
    BY <2>1, <2>2, <2>3 DEF ReachedInv, Handled
  <2>5. reached' = Handled(Top')
    BY <2>2, <2>4 DEF Handled, Waiting, Before, Node
  <2> QED
    BY <2>2, <2>5 DEF ReachedInv
<1> QED
  BY <1>1, <1>2, <1>3, <1>4, <1>5, <1>6, <1>7, <1>8
  DEF GraphNext, MainStep, QueueStep, Appear, StartCapture, CaptureFrame,
      StartWiring, WireStep, graphVars

(***************************************************************************)
(* The locks.                                                              *)
(***************************************************************************)
\* Who owes an unlock, place by place.
LEMMA OwingAt ==
  ASSUME NEW c
  PROVE  /\ c.at \in {"render", "read"} =>
              /\ c.node \in {"len", "mesh", "view"} => Owing(c) = {c.node}
              /\ c.node \in {"resize", "landmark"} => Owing(c) = {c.node, "mesh"}
         /\ c.at = "inform" =>
              /\ c.node \in {"camera", "len", "mesh", "view"} => Owing(c) = {}
              /\ c.node = "resize" => Owing(c) = {"mesh"}
         /\ c.at = "call" =>
              /\ c.node = "resize" => Owing(c) = ToSet(c.todo) \cup {"mesh"}
              /\ c.node \in {"camera", "len", "mesh"} => Owing(c) = ToSet(c.todo)
BY DEF Owing

LEMMA TodoSets ==
  /\ ToSet(<< >>) = {} /\ ToSet(<<"len">>) = {"len"}
  /\ ToSet(<<"mesh">>) = {"mesh"} /\ ToSet(<<"landmark">>) = {"landmark"}
  /\ ToSet(<<"view">>) = {"view"} /\ ToSet(<<"resize", "mesh">>) = {"resize", "mesh"}
<1>1. ToSet(<< >>) = {} /\ ToSet(<<"len">>) = {"len"} /\ ToSet(<<"mesh">>) = {"mesh"}
  BY DEF ToSet
<1>2. ToSet(<<"landmark">>) = {"landmark"} /\ ToSet(<<"view">>) = {"view"}
  BY DEF ToSet
<1>3. ToSet(<<"resize", "mesh">>) = {"resize", "mesh"}
  BY DEF ToSet
<1> QED
  BY <1>1, <1>2, <1>3

LEMMA LocksSame ==
  ASSUME LocksInv, calls # << >>, calls' # << >>, Owing(Top') = Owing(Top),
         UNCHANGED <<buffers, input, output>>,
         Top.at \in {"render", "call"}, Top'.at \in {"render", "call"}
  PROVE  LocksInv'
BY DEF LocksInv, LocksOf, Locks, InputLocks, InputLock, OutputLock, ReadLocks, buffers

LEMMA LocksStart ==
  ASSUME GraphTypes, BufferTypes, LocksInv, StartFrame
  PROVE  LocksInv'
<1>1. calls' # << >> /\ Top'.node = "camera" /\ Top'.at = "inform"
  BY TopAfterStart
<1>2. Owing(Top') = {}
  BY <1>1, OwingAt
<1>3. PICK b \in Framebuffers :
        /\ refs' = [refs EXCEPT ![b] = 1]
        /\ content' = [c \in Framebuffers |-> IF c = b THEN "new" ELSE "old"]
        /\ output' = [output EXCEPT !["camera"] = b]
  BY DEF StartFrame
<1>4. output'["camera"] = b /\ content'[b] = "new"
  BY <1>3 DEF BufferTypes, Node
<1>5. \A c \in Framebuffers : refs[c] = 0 /\ reading[c] = 0 /\ reading'[c] = 0
  BY DEF StartFrame, Idle, LocksInv
<1>6. \A c \in Framebuffers : refs'[c] = IF c = b THEN 1 ELSE 0
  BY <1>3, <1>5 DEF BufferTypes
<1>7. ASSUME NEW c \in Framebuffers
      PROVE  refs'[c] = Locks(Top, c)' /\ reading'[c] = ReadLocks(Top, c)'
  BY <1>1, <1>2, <1>4, <1>5, <1>6
  DEF Locks, InputLocks, InputLock, OutputLock, ReadLocks
<1> QED
  BY <1>1, <1>2, <1>4, <1>7 DEF LocksInv, LocksOf

LEMMA LocksInform ==
  ASSUME GraphTypes, BufferTypes, GraphInv, CallsInv, LocksInv, Inform
  PROVE  LocksInv'
<1> DEFINE n == Top.node
           out == output[n]
           ts == FullGraph[n]
<1>1. /\ calls' # << >> /\ Top' = Waiting(n, ts)
      /\ n \in {"camera", "len", "resize", "mesh"}
  BY TopAfterInform
<1>2. calls # << >> /\ Top.at = "inform" /\ targets[n] = ts
  BY DEF Inform, Active, GraphInv
<1>3. LocksOf(Top) /\ out \in Framebuffers /\ content[out] = "new"
  BY <1>2 DEF LocksInv, LocksOf
<1>4. /\ input' = [m \in Node |-> IF m \in ToSet(ts) THEN out ELSE input[m]]
      /\ refs' = [refs EXCEPT ![out] = @ + Len(ts) - 1]
      /\ UNCHANGED <<reading, content>>
  BY <1>2, <1>3, NoBufferAssumption DEF Inform
<1>5. Top'.at = "call" /\ Top'.node = n /\ Top'.todo = ts
  BY <1>1 DEF Waiting
<1> DEFINE k == Len(ts)
<1>6. /\ n = "camera" => ts = <<"len">> /\ k = 1
      /\ n = "len"    => ts = <<"resize", "mesh">> /\ k = 2
      /\ n = "resize" => ts = <<"landmark">> /\ k = 1
      /\ n = "mesh"   => ts = <<"view">> /\ k = 1
  BY DEF FullGraph, Node
<1>7. /\ n = "camera" => Owing(Top) = {} /\ Owing(Top') = {"len"}
      /\ n = "len"    => Owing(Top) = {} /\ Owing(Top') = {"resize", "mesh"}
      /\ n = "resize" => Owing(Top) = {"mesh"} /\ Owing(Top') = {"landmark", "mesh"}
      /\ n = "mesh"   => Owing(Top) = {} /\ Owing(Top') = {"view"}
  BY <1>1, <1>2, <1>5, <1>6, OwingAt, TodoSets
<1>8. /\ n = "camera" => ToSet(ts) = {"len"}
      /\ n = "len"    => ToSet(ts) = {"resize", "mesh"}
      /\ n = "resize" => ToSet(ts) = {"landmark"}
      /\ n = "mesh"   => ToSet(ts) = {"view"}
  BY <1>6, TodoSets
<1>9. k \in Nat /\ \A b \in Framebuffers :
        refs'[b] = refs[b] + IF b = out THEN k - 1 ELSE 0
  BY <1>1, <1>3, <1>4, <1>6 DEF BufferTypes
<1>10. \A m \in Node : input'[m] = IF m \in ToSet(ts) THEN out ELSE input[m]
  BY <1>4
<1> HIDE DEF n, out, ts, k
<1>11. \A b \in Framebuffers : reading'[b] = ReadLocks(Top, b)'
  BY <1>2, <1>3, <1>4, <1>5 DEF LocksOf, ReadLocks
<1>12. ASSUME NEW b \in Framebuffers
       PROVE  Locks(Top, b)' = Locks(Top, b) + IF b = out THEN k - 1 ELSE 0
  <2>1. OutputLock(Top, b) = (IF b = out THEN 1 ELSE 0) /\ OutputLock(Top, b)' = 0
    BY <1>2, <1>5 DEF OutputLock, n, out
  <2>2. \A m \in Node : InputLock(Top, m, b)' =
          IF m \in Owing(Top')
            THEN IF m \in ToSet(ts) THEN (IF b = out THEN 1 ELSE 0)
                                    ELSE IF input[m] = b THEN 1 ELSE 0
            ELSE 0
    BY <1>10 DEF InputLock
  <2>3. \A m \in Node : InputLock(Top, m, b) =
          IF m \in Owing(Top) /\ input[m] = b THEN 1 ELSE 0
    BY DEF InputLock
  <2>4. CASE n = "camera"
    BY <1>6, <1>7, <1>8, <2>1, <2>2, <2>3, <2>4 DEF Locks, InputLocks, Node
  <2>5. CASE n = "len"
    BY <1>6, <1>7, <1>8, <2>1, <2>2, <2>3, <2>5 DEF Locks, InputLocks, Node
  <2>6. CASE n = "resize"
    BY <1>6, <1>7, <1>8, <2>1, <2>2, <2>3, <2>6 DEF Locks, InputLocks, Node
  <2>7. CASE n = "mesh"
    BY <1>6, <1>7, <1>8, <2>1, <2>2, <2>3, <2>7 DEF Locks, InputLocks, Node
  <2> QED
    BY <1>1, <2>4, <2>5, <2>6, <2>7
<1>13. \A b \in Framebuffers : refs'[b] = Locks(Top, b)'
  BY <1>3, <1>9, <1>12 DEF LocksOf
<1>14. \A m \in Owing(Top') : input'[m] \in Framebuffers /\ content'[input'[m]] = "new"
  <2>1. Owing(Top') \subseteq ToSet(ts) \cup Owing(Top) /\ Owing(Top') \subseteq Node
    BY <1>1, <1>7, <1>8 DEF Node
  <2> QED
    BY <1>3, <1>4, <1>10, <2>1 DEF LocksOf
<1> QED
  BY <1>1, <1>5, <1>11, <1>13, <1>14 DEF LocksInv, LocksOf

\* A filter that unlocks its input takes one lock off that framebuffer.
LEMMA OneLockLess ==
  ASSUME NEW c, NEW d, NEW n \in {"len", "resize", "landmark", "mesh", "view"},
         Owing(c) = Owing(d) \cup {n}, n \notin Owing(d),
         NEW b
  PROVE  InputLocks(c, b) = InputLocks(d, b) + IF input[n] = b THEN 1 ELSE 0
<1>1. \A m : m # n => InputLock(c, m, b) = InputLock(d, m, b)
  BY DEF InputLock
<1>2. InputLock(c, n, b) = (IF input[n] = b THEN 1 ELSE 0) /\ InputLock(d, n, b) = 0
  BY DEF InputLock
<1>3. \A m : InputLock(d, m, b) \in {0, 1}
  BY DEF InputLock
<1> QED
  BY <1>1, <1>2, <1>3 DEF InputLocks

LEMMA LocksCall ==
  ASSUME GraphTypes, CallsInv, LocksInv, CallTarget
  PROVE  LocksInv'
<1>1. Top' = NewCall(Head(Top.todo)) /\ calls' # << >>
  BY TopAfterCall
<1>2. calls # << >> /\ Top.at = "call" /\ Top.todo # << >>
      /\ UNCHANGED <<buffers, input, output>>
  BY DEF CallTarget, Active
<1>3. Top.todo \in Rests(Top.node) /\ Top.node \in Node
  BY <1>2, TopType DEF CallsInv, Standing, GraphTypes, FilterCall
<1>4. Top'.at = "render" /\ Top'.node = Head(Top.todo)
  BY <1>1 DEF NewCall
<1>5. \/ Top.node = "camera" /\ Top.todo = <<"len">>
      \/ Top.node = "len" /\ Top.todo = <<"resize", "mesh">>
      \/ Top.node = "len" /\ Top.todo = <<"mesh">>
      \/ Top.node = "resize" /\ Top.todo = <<"landmark">>
      \/ Top.node = "mesh" /\ Top.todo = <<"view">>
  BY <1>2, <1>3 DEF Rests, Node
<1>6. Owing(Top') = Owing(Top)
  <2>1. CASE Top.node = "camera" /\ Top.todo = <<"len">>
    <3>1. Owing(Top) = {"len"}
      BY <1>2, <2>1, OwingAt, TodoSets
    <3> QED
      BY <1>4, <2>1, <3>1, OwingAt, Steps
  <2>2. CASE Top.node = "len" /\ Top.todo = <<"resize", "mesh">>
    <3>1. Owing(Top) = {"resize", "mesh"}
      BY <1>2, <2>2, OwingAt, TodoSets
    <3> QED
      BY <1>4, <2>2, <3>1, OwingAt, Steps
  <2>3. CASE Top.node = "len" /\ Top.todo = <<"mesh">>
    <3>1. Owing(Top) = {"mesh"}
      BY <1>2, <2>3, OwingAt, TodoSets
    <3> QED
      BY <1>4, <2>3, <3>1, OwingAt, Steps
  <2>4. CASE Top.node = "resize" /\ Top.todo = <<"landmark">>
    <3>1. Owing(Top) = {"landmark", "mesh"}
      BY <1>2, <2>4, OwingAt, TodoSets
    <3> QED
      BY <1>4, <2>4, <3>1, OwingAt, Steps
  <2>5. CASE Top.node = "mesh" /\ Top.todo = <<"view">>
    <3>1. Owing(Top) = {"view"}
      BY <1>2, <2>5, OwingAt, TodoSets
    <3> QED
      BY <1>4, <2>5, <3>1, OwingAt, Steps
  <2> QED
    BY <1>5, <2>1, <2>2, <2>3, <2>4, <2>5
<1> QED
  BY <1>1, <1>2, <1>4, <1>6, LocksSame

LEMMA LocksReturnCall ==
  ASSUME GraphTypes, CallsInv, LocksInv, ReturnCall
  PROVE  LocksInv'
<1>1. calls # << >> /\ UNCHANGED <<buffers, input, output>>
  BY DEF ReturnCall, Active
<1>2. /\ Top.at = "call" /\ Top.todo = << >>
      /\ \/ Top.node = "camera" /\ calls' = << >>
         \/ Top.node = "len" /\ calls' # << >> /\ Top' = Waiting("camera", << >>)
         \/ Top.node = "resize" /\ calls' # << >>
            /\ Top' = Waiting("len", <<"mesh">>)
         \/ Top.node = "mesh" /\ calls' # << >> /\ Top' = Waiting("len", << >>)
  BY TopAfterReturnCall
<1>3. CASE calls' = << >>
  <2>1. Owing(Top) = {}
    BY <1>2, <1>3, OwingAt, TodoSets
  <2>2. \A b \in Framebuffers : refs[b] = 0 /\ reading[b] = 0
    BY <1>1, <1>2, <2>1 DEF LocksInv, LocksOf, Locks, InputLocks, InputLock,
       OutputLock, ReadLocks
  <2> QED
    BY <1>1, <1>3, <2>2 DEF LocksInv, buffers
<1>4. CASE calls' # << >>
  <2>1. \/ Top.node = "len" /\ Top'.node = "camera" /\ Top'.todo = << >>
        \/ Top.node = "resize" /\ Top'.node = "len" /\ Top'.todo = <<"mesh">>
        \/ Top.node = "mesh" /\ Top'.node = "len" /\ Top'.todo = << >>
    BY <1>2, <1>4 DEF Waiting
  <2>2. Top'.at = "call"
    BY <1>2, <1>4 DEF Waiting
  <2>3. Owing(Top') = Owing(Top)
    <3>1. CASE Top.node = "resize"
      <4>1. Owing(Top) = {"mesh"}
        BY <1>2, <3>1, OwingAt, TodoSets
      <4>2. Owing(Top') = ToSet(<<"mesh">>)
        BY <2>1, <2>2, <3>1, OwingAt
      <4> QED
        BY <4>1, <4>2, TodoSets
    <3>2. CASE Top.node # "resize"
      <4>1. Owing(Top) = {}
        BY <1>2, <2>1, <3>2, OwingAt, TodoSets
      <4>2. Owing(Top') = ToSet(<< >>)
        BY <2>1, <2>2, <3>2, OwingAt
      <4> QED
        BY <4>1, <4>2, TodoSets
    <3> QED
      BY <3>1, <3>2
  <2> QED
    BY <1>1, <1>2, <1>4, <2>2, <2>3, LocksSame
<1> QED
  BY <1>3, <1>4

LEMMA LocksLock ==
  ASSUME GraphTypes, BufferTypes, CallsInv, LocksInv, LandmarkLock
  PROVE  LocksInv'
<1>1. /\ calls' # << >> /\ Top'.node = "landmark" /\ Top'.at = "read"
      /\ Top.node = "landmark" /\ Top.at = "render"
  BY TopAfterLock
<1>2. /\ calls # << >> /\ UNCHANGED <<refs, content, input, output>>
      /\ reading' = [reading EXCEPT ![input["landmark"]] = @ + 1]
  BY DEF LandmarkLock, Active
<1>3. Owing(Top') = {"landmark", "mesh"} /\ Owing(Top) = {"landmark", "mesh"}
  BY <1>1, OwingAt
<1>4. LocksOf(Top)
  BY <1>2 DEF LocksInv
<1>5. ASSUME NEW b \in Framebuffers
      PROVE  refs'[b] = Locks(Top, b)' /\ reading'[b] = ReadLocks(Top, b)'
  <2>1. Locks(Top, b)' = Locks(Top, b)
    BY <1>1, <1>2, <1>3 DEF Locks, InputLocks, InputLock, OutputLock
  <2>2. reading[b] = 0
    BY <1>1, <1>4 DEF LocksOf, ReadLocks
  <2>3. reading'[b] = IF input["landmark"] = b THEN 1 ELSE 0
    BY <1>2, <2>2 DEF BufferTypes
  <2> QED
    BY <1>1, <1>2, <1>4, <2>1, <2>3 DEF LocksOf, ReadLocks
<1> QED
  BY <1>1, <1>2, <1>3, <1>4, <1>5 DEF LocksInv, LocksOf

LEMMA LocksLeaf ==
  ASSUME GraphTypes, BufferTypes, CallsInv, LocksInv,
         LandmarkSkip \/ LandmarkNoPixels \/ LandmarkCopy \/ ViewShow
  PROVE  LocksInv'
<1> DEFINE n == Top.node
<1>1. /\ calls' # << >> /\ calls # << >> /\ n \in {"landmark", "view"}
      /\ n = "landmark" => Top' = Waiting("resize", << >>)
      /\ n = "view" => Top' = Waiting("mesh", << >>)
  BY TopAfterLeaf
<1>2. /\ Top.at \in {"render", "read"}
      /\ refs' = [refs EXCEPT ![input[n]] = @ - 1]
      /\ IF Top.at = "read" THEN reading' = [reading EXCEPT ![input["landmark"]] = @ - 1]
                            ELSE reading' = reading
      /\ UNCHANGED content
      /\ \A m \in Node \ {"view"} : input'[m] = input[m]
      /\ n # "view" => input' = input
  BY DEF LandmarkSkip, LandmarkNoPixels, LandmarkCopy, ViewShow, Active, BufferTypes
<1>3. Top'.at = "call" /\ Top'.todo = << >>
      /\ (n = "landmark" => Top'.node = "resize") /\ (n = "view" => Top'.node = "mesh")
  BY <1>1 DEF Waiting
<1>4. /\ n = "landmark" => Owing(Top) = {"landmark", "mesh"} /\ Owing(Top') = {"mesh"}
      /\ n = "view" => Owing(Top) = {"view"} /\ Owing(Top') = {}
  BY <1>1, <1>2, <1>3, OwingAt, TodoSets
<1>5. LocksOf(Top)
  BY <1>1 DEF LocksInv
<1> HIDE DEF n
<1>6. ASSUME NEW b \in Framebuffers
      PROVE  refs'[b] = Locks(Top, b)' /\ reading'[b] = ReadLocks(Top, b)'
  <2>1. InputLocks(Top, b) = InputLocks(Top', b) + IF input[n] = b THEN 1 ELSE 0
    BY <1>1, <1>4, OneLockLess
  <2>2. InputLocks(Top, b)' = InputLocks(Top', b)
    BY <1>1, <1>2, <1>4 DEF InputLocks, InputLock, Node
  <2>3. OutputLock(Top, b) = 0 /\ OutputLock(Top, b)' = 0
    BY <1>2, <1>3 DEF OutputLock
  <2>4. InputLocks(Top', b) \in Int
    BY DEF InputLocks, InputLock
  <2>5. refs'[b] = Locks(Top, b)'
    BY <1>2, <1>5, <2>1, <2>2, <2>3, <2>4 DEF LocksOf, Locks, BufferTypes
  <2>6. reading'[b] = 0
    BY <1>2, <1>5 DEF LocksOf, ReadLocks, BufferTypes
  <2> QED
    BY <1>3, <2>5, <2>6 DEF ReadLocks
<1>7. \A m \in Owing(Top') : input'[m] \in Framebuffers /\ content'[input'[m]] = "new"
  BY <1>1, <1>2, <1>4, <1>5 DEF LocksOf, Node
<1> QED
  BY <1>1, <1>3, <1>6, <1>7 DEF LocksInv, LocksOf

\* A filter draws its input into a free framebuffer, or passes it on.
LEMMA LocksRender ==
  ASSUME GraphTypes, BufferTypes, CallsInv, LocksInv,
         MeshPass \/ MeshDraw \/ \E n \in Node : RenderPlain(n)
  PROVE  LocksInv'
<1> DEFINE n == Top.node
<1>1. /\ calls' # << >> /\ Top'.node = n /\ Top'.at = "inform"
      /\ n \in {"len", "resize", "mesh"} /\ Top.at = "render"
  BY TopAfterRender
<1>2. calls # << >> /\ UNCHANGED <<reading, input>>
  BY DEF MeshPass, MeshDraw, RenderPlain, Active
<1>3. LocksOf(Top) /\ InputIsNew
  BY <1>2, TopHasInput DEF LocksInv
<1>4. /\ input[n] \in Framebuffers /\ refs[input[n]] > 0
      /\ content[input[n]] = "new" /\ n \in Node
  BY <1>1, <1>2, <1>3 DEF InputIsNew, Node
<1>5. \E b \in Framebuffers :
        /\ output' = [output EXCEPT ![n] = b] /\ content'[b] = "new"
        /\ \A c \in Framebuffers : c # b => content'[c] = content[c]
        /\ \A c \in Framebuffers :
             refs'[c] = refs[c] + (IF c = b THEN 1 ELSE 0)
                                - (IF c = input[n] THEN 1 ELSE 0)
  <2>1. CASE MeshPass
    <3>1. /\ n = "mesh" /\ output' = [output EXCEPT ![n] = input[n]]
          /\ refs' = [refs EXCEPT ![input[n]] = @ + 1 - 1] /\ content' = content
      BY <2>1 DEF MeshPass
    <3>2. \A c \in Framebuffers : refs'[c] = refs[c]
      BY <1>4, <3>1 DEF BufferTypes
    <3>3. \A c \in Framebuffers :
            refs'[c] = refs[c] + (IF c = input[n] THEN 1 ELSE 0)
                               - (IF c = input[n] THEN 1 ELSE 0)
      BY <3>2 DEF BufferTypes
    <3> QED
      BY <1>4, <3>1, <3>3
  <2>2. CASE MeshDraw \/ \E m \in Node : RenderPlain(m)
    <3>1. PICK b \in Framebuffers :
            /\ InCache(b)
            /\ refs' = [refs EXCEPT ![b] = 1, ![input[n]] = @ - 1]
            /\ content' = [content EXCEPT ![b] = content[input[n]]]
            /\ output' = [output EXCEPT ![n] = b]
      BY <2>2 DEF MeshDraw, RenderPlain
    <3>2. refs[b] = 0 /\ b # input[n]
      BY <1>4, <3>1 DEF InCache
    <3>3. \A c \in Framebuffers :
            refs'[c] = refs[c] + (IF c = b THEN 1 ELSE 0)
                               - (IF c = input[n] THEN 1 ELSE 0)
      BY <1>4, <3>1, <3>2 DEF BufferTypes
    <3>4. content'[b] = "new"
          /\ \A c \in Framebuffers : c # b => content'[c] = content[c]
      BY <1>4, <3>1 DEF BufferTypes
    <3> QED
      BY <3>1, <3>3, <3>4
  <2> QED
    BY <2>1, <2>2
<1>6. PICK b \in Framebuffers :
        /\ output' = [output EXCEPT ![n] = b] /\ content'[b] = "new"
        /\ \A c \in Framebuffers : c # b => content'[c] = content[c]
        /\ \A c \in Framebuffers :
             refs'[c] = refs[c] + (IF c = b THEN 1 ELSE 0)
                                - (IF c = input[n] THEN 1 ELSE 0)
  BY <1>5
<1>7. output'[n] = b
  BY <1>4, <1>6 DEF BufferTypes
<1>8. /\ n = "len" => Owing(Top) = {"len"} /\ Owing(Top') = {}
      /\ n = "resize" => Owing(Top) = {"resize", "mesh"} /\ Owing(Top') = {"mesh"}
      /\ n = "mesh" => Owing(Top) = {"mesh"} /\ Owing(Top') = {}
  BY <1>1, OwingAt
<1> HIDE DEF n
<1>9. ASSUME NEW c \in Framebuffers
      PROVE  refs'[c] = Locks(Top, c)' /\ reading'[c] = ReadLocks(Top, c)'
  <2>1. InputLocks(Top, c) = InputLocks(Top', c) + IF input[n] = c THEN 1 ELSE 0
    <3>1. Owing(Top) = Owing(Top') \cup {n} /\ n \notin Owing(Top')
      BY <1>1, <1>8
    <3> QED
      BY <1>1, <3>1, OneLockLess
  <2>2. InputLocks(Top, c)' = InputLocks(Top', c)
    BY <1>2 DEF InputLocks, InputLock
  <2>3. OutputLock(Top, c) = 0 /\ OutputLock(Top, c)' = IF c = b THEN 1 ELSE 0
    BY <1>1, <1>7 DEF OutputLock
  <2>4. InputLocks(Top', c) \in Int
    BY DEF InputLocks, InputLock
  <2>5. refs[c] = InputLocks(Top, c)
    BY <1>3, <2>1, <2>3, <2>4 DEF LocksOf, Locks
  <2>6. refs'[c] = Locks(Top, c)'
    BY <1>6, <2>1, <2>2, <2>3, <2>4, <2>5 DEF Locks
  <2>7. reading'[c] = 0
    BY <1>1, <1>2, <1>3 DEF LocksOf, ReadLocks
  <2> QED
    BY <1>1, <2>6, <2>7 DEF ReadLocks
<1>10. \A m \in Owing(Top') : input'[m] \in Framebuffers /\ content'[input'[m]] = "new"
  <2>1. Owing(Top') \subseteq Owing(Top)
    BY <1>1, <1>8
  <2> QED
    BY <1>2, <1>3, <1>6, <2>1 DEF LocksOf
<1> QED
  BY <1>1, <1>6, <1>7, <1>9, <1>10 DEF LocksInv, LocksOf

LEMMA LocksInvStep ==
  ASSUME GraphTypes, BufferTypes, GraphInv, CallsInv, LocksInv, [GraphNext]_graphVars
  PROVE  LocksInv'
<1>1. CASE Appear \/ StartCapture \/ CaptureFrame \/ StartWiring \/ WireStep
           \/ UNCHANGED graphVars
  <2>1. UNCHANGED <<calls, buffers, input, output>>
    BY <1>1 DEF Appear, StartCapture, CaptureFrame, StartWiring, WireStep, graphVars
  <2> QED
    BY <2>1 DEF LocksInv, LocksOf, Locks, InputLocks, InputLock, OutputLock,
       ReadLocks, Top, buffers
<1>2. CASE StartFrame
  BY <1>2, LocksStart
<1>3. CASE Inform
  BY <1>3, LocksInform
<1>4. CASE CallTarget
  BY <1>4, LocksCall
<1>5. CASE ReturnCall
  BY <1>5, LocksReturnCall
<1>6. CASE MeshPass \/ MeshDraw \/ \E n \in Node : RenderPlain(n)
  BY <1>6, LocksRender
<1>7. CASE LandmarkLock
  BY <1>7, LocksLock
<1>8. CASE LandmarkSkip \/ LandmarkNoPixels \/ LandmarkCopy \/ ViewShow
  BY <1>8, LocksLeaf
<1> QED
  BY <1>1, <1>2, <1>3, <1>4, <1>5, <1>6, <1>7, <1>8
  DEF GraphNext, MainStep, QueueStep

(***************************************************************************)
(* Together.                                                               *)
(***************************************************************************)
LEMMA InitInv == InitGraph => Inv
<1> SUFFICES ASSUME InitGraph PROVE Inv
  OBVIOUS
<1> USE DEF InitGraph
<1>1. GraphTypes
  BY EmptySeq DEF GraphTypes
<1>2. MainTypes
  <2>1. appeared \in 0 .. MaxAppear
    BY MaxAppearAssumption
  <2>2. mainPlace \in {"idle", "start"}
    OBVIOUS
  <2>3. capturing \in BOOLEAN /\ rendering \in BOOLEAN
    BY Zenon
  <2> QED
    BY <2>1, <2>2, <2>3 DEF MainTypes
<1>3. BufferTypes
  BY DEF BufferTypes, Buffer
<1>4. GraphInv
  <2>1. targets["view"] = << >> /\ Len(queue) = 0
    BY DEF Node
  <2> QED
    BY <2>1 DEF GraphInv, WireFirst
<1>5. CallsInv
  BY DEF CallsInv, Stacked
<1>6. LocksInv /\ ReachedInv
  BY DEF LocksInv, ReachedInv
<1> QED
  BY <1>1, <1>2, <1>3, <1>4, <1>5, <1>6 DEF Inv

LEMMA NextInv == Inv /\ [GraphNext]_graphVars => Inv'
<1> SUFFICES ASSUME Inv, [GraphNext]_graphVars PROVE Inv'
  OBVIOUS
<1>1. InputIsNew
  BY TopHasInput DEF Inv
<1> QED
  BY <1>1, GraphTypesStep, MainTypesStep, BufferTypesStep, GraphInvStep,
     CallsInvStep, LocksInvStep, ReachedInvStep DEF Inv

LEMMA InvHolds == GraphSpec => []Inv
BY InitInv, NextInv, PTL DEF GraphSpec

(* The account of the locks never shows a negative count. *)
LEMMA CountsNatural ==
  ASSUME Inv
  PROVE  /\ refs \in [Framebuffers -> Nat] /\ reading \in [Framebuffers -> Nat]
         /\ \A b \in Framebuffers : refs[b] = 0 => reading[b] = 0
<1>1. \A b \in Framebuffers : refs[b] \in Nat /\ reading[b] \in Nat
                              /\ (refs[b] = 0 => reading[b] = 0)
  <2>1. CASE calls = << >>
    BY <2>1 DEF Inv, LocksInv
  <2>2. CASE calls # << >>
    <3> SUFFICES ASSUME NEW b \in Framebuffers
                 PROVE  /\ refs[b] \in Nat /\ reading[b] \in Nat
                        /\ refs[b] = 0 => reading[b] = 0
      OBVIOUS
    <3>1. refs[b] = Locks(Top, b) /\ reading[b] = ReadLocks(Top, b)
      BY <2>2 DEF Inv, LocksInv, LocksOf
    <3>2. \A n : InputLock(Top, n, b) \in {0, 1}
      BY DEF InputLock
    <3>3. OutputLock(Top, b) \in {0, 1} /\ ReadLocks(Top, b) \in {0, 1}
      BY DEF OutputLock, ReadLocks
    <3>4. Locks(Top, b) \in Nat
          /\ (Locks(Top, b) = 0 => InputLock(Top, "landmark", b) = 0)
      BY <3>2, <3>3 DEF Locks, InputLocks
    <3>5. ReadLocks(Top, b) = 1 => InputLock(Top, "landmark", b) = 1
      <4>1. Top.at = "read" => Top.node = "landmark"
        BY <2>2 DEF Inv, CallsInv, Standing
      <4>2. Top.at = "read" => "landmark" \in Owing(Top)
        BY <4>1, OwingAt
      <4> QED
        BY <4>2 DEF ReadLocks, InputLock
    <3> QED
      BY <3>1, <3>3, <3>4, <3>5
  <2> QED
    BY <2>1, <2>2
<1> QED
  BY <1>1 DEF Inv, BufferTypes

(* A frame only ever meets the full graph: the wiring task that a view's
   appearance submits is ahead of the frames of the camera started after it,
   and no task runs inside another (FSPipelineManager.m:79-106,
   ViewController.m:69-70).                                                *)
THEOREM FramesMeetFullGraph == GraphSpec => []FullGraphInFrame
<1>1. Inv => FullGraphInFrame
  BY DEF Inv, GraphInv, FullGraphInFrame
<1> QED
  BY <1>1, InvHolds, PTL

(* A filter that is called finds this frame's picture in its input, locked
   (FSLenFilter.m:38-76, FSFaceMeshFilter.m:221-243).                      *)
THEOREM InputsAreNew == GraphSpec => []InputIsNew
<1>1. Inv => InputIsNew
  BY TopHasInput DEF Inv
<1> QED
  BY <1>1, InvHolds, PTL

(* No lock is lost or given back twice: all variables keep their types,
   between frames every framebuffer is back in the cache, and none goes back
   while it is locked for reading (mm:62, 75-91, FSFaceMeshFilter.m:30-31). *)
THEOREM CacheStaysRight == GraphSpec => []CacheRight
<1>1. Inv => GraphTypeOK
  BY CountsNatural DEF Inv, GraphTypes, MainTypes, BufferTypes, GraphTypeOK
<1>2. Inv => NothingKept
  BY DEF Inv, LocksInv, NothingKept
<1>3. Inv => NotReadInCache
  BY CountsNatural DEF NotReadInCache
<1>4. Inv => CacheRight
  BY <1>1, <1>2, <1>3 DEF CacheRight
<1> QED
  BY <1>4, InvHolds, PTL

(* The landmark filter handles a frame before the mesh filter does
   (FSPipelineManager.m:89-94).                                            *)
THEOREM LandmarkBeforeMesh == GraphSpec => []LandmarkFirst
<1>1. ASSUME Inv PROVE LandmarkFirst
  <2>1. ASSUME NEW c, "mesh" \in Handled(c), Standing(c), c.node \in Node
        PROVE  "landmark" \in Handled(c)
    <3>1. \A n \in Node : "mesh" \in Before(n) \cup {n}
                          => n \in {"mesh", "view"}
      BY DEF Before, Node
    <3>2. \A n \in {"mesh", "view"} : "landmark" \in Before(n)
      BY DEF Before, Node
    <3>3. CASE c.at \in {"render", "read", "inform"}
      BY <2>1, <3>1, <3>2, <3>3 DEF Handled
    <3>4. CASE c.at = "call" /\ c.todo # << >>
      <4>1. Head(c.todo) \in Node
        BY <2>1, <3>4, Steps DEF Standing, Rests, Node
      <4> QED
        BY <2>1, <3>1, <3>2, <3>4, <4>1 DEF Handled
    <3>5. CASE c.at = "call" /\ c.todo = << >>
      BY <3>2, <3>5 DEF Handled, Node
    <3> QED
      BY <2>1, <3>3, <3>4, <3>5 DEF Standing
  <2>2. CASE calls = << >>
    BY <1>1, <2>2 DEF Inv, ReachedInv, LandmarkFirst, Node
  <2>3. CASE calls # << >>
    <3>1. reached = Handled(Top) /\ Standing(Top) /\ Top.node \in Node
      BY <1>1, <2>3, TopType DEF Inv, ReachedInv, CallsInv, GraphTypes, FilterCall
    <3> QED
      BY <2>1, <3>1 DEF LandmarkFirst
  <2> QED
    BY <2>2, <2>3
<1> QED
  BY <1>1, InvHolds, PTL

(* Every frame that is started has been through all filters, the screen
   among them, when its task ends (FSFaceMeshFilter.m:27-32, 206).         *)
THEOREM FramesReachView == GraphSpec => FrameReachesView
<1>1. Inv /\ [GraphNext]_graphVars => (calls # << >> /\ calls' = << >> => reached = Node)
  <2> SUFFICES ASSUME Inv, [GraphNext]_graphVars, calls # << >>, calls' = << >>
               PROVE  reached = Node
    OBVIOUS
  <2> USE DEF Inv
  <2>1. CASE ReturnCall
    <3>1. Top.node = "camera" /\ Top.at = "call" /\ Top.todo = << >>
      BY <2>1, TopAfterReturnCall
    <3> QED
      BY <3>1 DEF ReachedInv, Handled
  <2>2. ~(Inform \/ CallTarget \/ MeshPass \/ MeshDraw \/ LandmarkLock
          \/ (\E n \in Node : RenderPlain(n)) \/ LandmarkSkip
          \/ LandmarkNoPixels \/ LandmarkCopy \/ ViewShow)
    BY TopAfterInform, TopAfterCall, TopAfterRender, TopAfterLock, TopAfterLeaf
  <2>3. ~(Appear \/ StartCapture \/ CaptureFrame \/ StartWiring \/ WireStep
          \/ StartFrame \/ UNCHANGED graphVars)
    BY DEF Appear, StartCapture, CaptureFrame, StartWiring, WireStep, StartFrame,
       Idle, graphVars
  <2> QED
    BY <2>1, <2>2, <2>3 DEF GraphNext, MainStep, QueueStep
<1> QED
  BY <1>1, InvHolds, PTL DEF GraphSpec, FrameReachesView
=============================================================================
