----------------------------- MODULE FrameGraph -----------------------------
(***************************************************************************)
(* How a camera frame travels through the filters, and how the filters are *)
(* wired.  Wiring and frames are tasks on one serial queue, the video      *)
(* queue; the main thread submits the wiring each time the view appears    *)
(* and then starts the camera.  A filter hands its framebuffer to all its  *)
(* targets, lets go of it, and then calls the targets one by one, each     *)
(* doing the same in turn.  Framebuffers are reference counted and come    *)
(* from a cache that gives a framebuffer out again as soon as its count is *)
(* back at zero.                                                           *)
(*                                                                         *)
(* GPUImage is only there as headers: its half of the protocol is modelled *)
(* from FSLenFilter.m:31-76, which repeats it, and from the filters here.  *)
(***************************************************************************)
EXTENDS Integers, Sequences, SequencesExt

CONSTANTS Framebuffers,  \* the framebuffers of the cache
          NoBuffer,      \* nil
          MaxAppear      \* bound: how often the view appears

ASSUME NoBufferAssumption == NoBuffer \notin Framebuffers
ASSUME MaxAppearAssumption == MaxAppear \in Nat \ {0}

VARIABLES
  targets,     \* per output, the filters it informs, in this order
  queue,       \* tasks waiting on the video queue
  wiring,      \* the running wiring task: what it has yet to do
  calls,       \* the running frame task: a stack of newFrameReady calls
  appeared,    \* how often the view has appeared
  mainPlace,   \* the main thread's place in viewDidAppear
  capturing,   \* the capture session runs
  rendering,   \* a frame is waiting or in process (frameRenderingSemaphore)
  refs,        \* reference counts
  reading,     \* how often a framebuffer is locked for reading
  content,     \* the picture in a framebuffer: "old", or "new" for this frame
  input,       \* per filter, firstInputFramebuffer
  output,      \* per filter, outputFramebuffer
  reached      \* the filters that have handled the frame in process

graph == <<targets, wiring>>
main == <<appeared, mainPlace, capturing>>
buffers == <<refs, reading, content>>
graphVars == <<graph, queue, calls, main, rendering, buffers, input, output, reached>>

----------------------------------------------------------------------------
Node == {"camera", "len", "resize", "landmark", "mesh", "view"}
Buffer == Framebuffers \cup {NoBuffer}

Cut(n) == [op |-> "remove", from |-> n, to |-> n]
Join(m, n) == [op |-> "add", from |-> m, to |-> n]

\* Mutant: the mesh filter is added before the resize filter.
MeshFirst ==
  << Cut("camera"), Cut("landmark"), Cut("resize"), Cut("len"),
     Cut("mesh"), Join("camera", "len"), Join("len", "mesh"),
     Join("mesh", "view"), Join("len", "resize"), Join("resize", "landmark") >>

\* What the block of updateFilterPipeline does, in its order.
Wiring ==
  << Cut("camera"), Cut("landmark"), Cut("resize"), Cut("len"),
     Cut("mesh"), Join("camera", "len"), Join("len", "resize"),
     Join("resize", "landmark"), Join("len", "mesh"), Join("mesh", "view") >>

FullGraph == [n \in Node |-> CASE n = "camera" -> <<"len">>
                               [] n = "len"    -> <<"resize", "mesh">>
                               [] n = "resize" -> <<"landmark">>
                               [] n = "mesh"   -> <<"view">>
                               [] OTHER        -> << >>]

\* A call of a filter draws ("render"), or has its input locked for reading
\* ("read"), informs the targets ("inform"), then calls those in todo ("call").
FilterCall == [node : Node, at : {"render", "read", "inform", "call"}, todo : Seq(Node)]
NewCall(n) == [node |-> n, at |-> "render", todo |-> << >>]

Idle == wiring = << >> /\ calls = << >>
Top == calls[Len(calls)]
Active(place) == calls # << >> /\ Top.at = place
Goto(place) == [calls EXCEPT ![Len(calls)].at = place]
Return == SubSeq(calls, 1, Len(calls) - 1)

InitGraph ==
  /\ targets = [n \in Node |-> << >>]
  /\ queue = << >> /\ wiring = << >> /\ calls = << >>
  /\ appeared = 0 /\ mainPlace = "idle"
  /\ capturing = FALSE /\ rendering = FALSE
  /\ refs = [b \in Framebuffers |-> 0]
  /\ reading = [b \in Framebuffers |-> 0]
  /\ content = [b \in Framebuffers |-> "old"]
  /\ input = [n \in Node |-> NoBuffer] /\ output = [n \in Node |-> NoBuffer]
  /\ reached = {}

----------------------------------------------------------------------------
(* The main thread, and the camera. *)

\* Mutant: the filters are wired at once instead of on the video queue.
AppearDirectly ==
  /\ mainPlace = "idle" /\ appeared < MaxAppear
  /\ appeared' = appeared + 1
  /\ wiring' = Wiring
  /\ mainPlace' = "start"
  /\ UNCHANGED <<targets, queue, calls, capturing, rendering, buffers, input,
                 output, reached>>

\* viewDidAppear: updateFilterPipeline submits the wiring...
Appear ==
  /\ mainPlace = "idle" /\ appeared < MaxAppear
  /\ appeared' = appeared + 1
  /\ queue' = Append(queue, "wire")
  /\ mainPlace' = "start"
  /\ UNCHANGED <<graph, calls, capturing, rendering, buffers, input, output,
                 reached>>

\* ...and the camera is started, which has no effect when it already runs.
StartCapture ==
  /\ mainPlace = "start"
  /\ capturing' = TRUE
  /\ mainPlace' = "idle"
  /\ UNCHANGED <<graph, queue, calls, appeared, rendering, buffers, input,
                 output, reached>>

\* The camera submits a frame, unless the last one is still in process.
CaptureFrame ==
  /\ capturing /\ ~rendering
  /\ rendering' = TRUE
  /\ queue' = Append(queue, "frame")
  /\ UNCHANGED <<graph, calls, main, buffers, input, output, reached>>

----------------------------------------------------------------------------
(* The video queue: the wiring task. *)

StartWiring ==
  /\ Idle /\ queue # << >> /\ Head(queue) = "wire"
  /\ queue' = Tail(queue)
  /\ wiring' = Wiring
  /\ UNCHANGED <<targets, calls, main, rendering, buffers, input, output,
                 reached>>

Rewired(ts, step) ==
  IF step.op = "remove" THEN << >>
  ELSE IF step.to \in ToSet(ts) THEN ts ELSE Append(ts, step.to)

WireStep ==
  /\ wiring # << >>
  /\ targets' = [targets EXCEPT ![Head(wiring).from] = Rewired(@, Head(wiring))]
  /\ wiring' = Tail(wiring)
  /\ UNCHANGED <<queue, calls, main, rendering, buffers, input, output, reached>>

----------------------------------------------------------------------------
(* The video queue: the frame task. *)

InCache(b) == refs[b] = 0

\* The camera renders the sample into a framebuffer of the cache.
StartFrame ==
  /\ Idle /\ queue # << >> /\ Head(queue) = "frame"
  /\ queue' = Tail(queue)
  /\ \E b \in Framebuffers :
       /\ InCache(b)
       /\ refs' = [refs EXCEPT ![b] = 1]
       /\ content' = [c \in Framebuffers |-> IF c = b THEN "new" ELSE "old"]
       /\ output' = [output EXCEPT !["camera"] = b]
  /\ calls' = << [NewCall("camera") EXCEPT !.at = "inform"] >>
  /\ reached' = {"camera"}
  /\ UNCHANGED <<graph, main, rendering, reading, input>>

\* Mutant: only one of the targets locks the output.
InformOnce ==
  /\ Active("inform")
  /\ LET n == Top.node  out == output[n]  ts == targets[n] IN
     /\ input' = [m \in Node |-> IF m \in ToSet(ts) THEN out ELSE input[m]]
     /\ refs' = IF out = NoBuffer THEN refs
                ELSE [refs EXCEPT ![out] = @ + (IF ts = << >> THEN 0 ELSE 1) - 1]
     /\ output' = [output EXCEPT ![n] = NoBuffer]
     /\ calls' = [Goto("call") EXCEPT ![Len(calls)].todo = ts]
  /\ UNCHANGED <<graph, queue, main, rendering, reading, content, reached>>

\* informTargetsAboutNewFrame: every target takes the output as its input and
\* locks it; then the filter unlocks it and forgets it.
Inform ==
  /\ Active("inform")
  /\ LET n == Top.node  out == output[n]  ts == targets[n] IN
     /\ input' = [m \in Node |-> IF m \in ToSet(ts) THEN out ELSE input[m]]
     /\ refs' = IF out = NoBuffer THEN refs
                ELSE [refs EXCEPT ![out] = @ + Len(ts) - 1]
     /\ output' = [output EXCEPT ![n] = NoBuffer]
     /\ calls' = [Goto("call") EXCEPT ![Len(calls)].todo = ts]
  /\ UNCHANGED <<graph, queue, main, rendering, reading, content, reached>>

CallTarget ==
  /\ Active("call") /\ Top.todo # << >>
  /\ calls' = Append([calls EXCEPT ![Len(calls)].todo = Tail(@)],
                     NewCall(Head(Top.todo)))
  /\ UNCHANGED <<graph, queue, main, rendering, buffers, input, output, reached>>

\* The last target returned.  After the camera's call the next frame may come.
ReturnCall ==
  /\ Active("call") /\ Top.todo = << >>
  /\ calls' = Return
  /\ rendering' = (calls' # << >>)
  /\ UNCHANGED <<graph, queue, main, buffers, input, output, reached>>

\* GPUImageFilter: draws its input into a framebuffer of the cache and unlocks
\* the input.
RenderPlain(n) ==
  /\ Active("render") /\ Top.node = n /\ n \in {"len", "resize"}
  /\ \E b \in Framebuffers :
       /\ InCache(b)
       /\ refs' = [refs EXCEPT ![b] = 1, ![input[n]] = @ - 1]
       /\ content' = [content EXCEPT ![b] = content[input[n]]]
       /\ output' = [output EXCEPT ![n] = b]
  /\ calls' = Goto("inform")
  /\ reached' = reached \cup {n}
  /\ UNCHANGED <<graph, queue, main, rendering, reading, input>>

\* Mutant: the frame without a face is not passed on.
MeshPassDrops ==
  /\ Active("render") /\ Top.node = "mesh"
  /\ refs' = [refs EXCEPT ![input["mesh"]] = @ - 1]
  /\ calls' = Goto("call")
  /\ reached' = reached \cup {"mesh"}
  /\ UNCHANGED <<graph, queue, main, rendering, reading, content, input, output>>

\* FSFaceMeshFilter without a face: its input, locked once more and unlocked
\* once, is its output.
MeshPass ==
  /\ Active("render") /\ Top.node = "mesh"
  /\ output' = [output EXCEPT !["mesh"] = input["mesh"]]
  /\ refs' = [refs EXCEPT ![input["mesh"]] = @ + 1 - 1]
  /\ calls' = Goto("inform")
  /\ reached' = reached \cup {"mesh"}
  /\ UNCHANGED <<graph, queue, main, rendering, reading, content, input>>

\* With a face it draws the mesh from its input into another framebuffer.
MeshDraw ==
  /\ Active("render") /\ Top.node = "mesh"
  /\ \E b \in Framebuffers :
       /\ InCache(b)
       /\ refs' = [refs EXCEPT ![b] = 1, ![input["mesh"]] = @ - 1]
       /\ content' = [content EXCEPT ![b] = content[input["mesh"]]]
       /\ output' = [output EXCEPT !["mesh"] = b]
  /\ calls' = Goto("inform")
  /\ reached' = reached \cup {"mesh"}
  /\ UNCHANGED <<graph, queue, main, rendering, reading, input>>

\* FSFaceLandmarkFilter has no targets.  An empty framebuffer is unlocked and
\* not read; otherwise it is locked for reading first.
LandmarkSkip ==
  /\ Active("render") /\ Top.node = "landmark"
  /\ refs' = [refs EXCEPT ![input["landmark"]] = @ - 1]
  /\ calls' = Return
  /\ reached' = reached \cup {"landmark"}
  /\ UNCHANGED <<graph, queue, main, rendering, reading, content, input, output>>

LandmarkLock ==
  /\ Active("render") /\ Top.node = "landmark"
  /\ reading' = [reading EXCEPT ![input["landmark"]] = @ + 1]
  /\ calls' = Goto("read")
  /\ reached' = reached \cup {"landmark"}
  /\ UNCHANGED <<graph, queue, main, rendering, refs, content, input, output>>

\* Mutant: the way out without pixels forgets to unlock the reading.
LandmarkNoPixelsReading ==
  /\ Active("read") /\ Top.node = "landmark"
  /\ refs' = [refs EXCEPT ![input["landmark"]] = @ - 1]
  /\ calls' = Return
  /\ UNCHANGED <<graph, queue, main, rendering, reading, content, input, output,
                 reached>>

\* byteBuffer is NULL.
LandmarkNoPixels ==
  /\ Active("read") /\ Top.node = "landmark"
  /\ reading' = [reading EXCEPT ![input["landmark"]] = @ - 1]
  /\ refs' = [refs EXCEPT ![input["landmark"]] = @ - 1]
  /\ calls' = Return
  /\ UNCHANGED <<graph, queue, main, rendering, content, input, output, reached>>

\* The rows are copied; what follows does not touch the framebuffer any more.
LandmarkCopy ==
  /\ Active("read") /\ Top.node = "landmark"
  /\ reading' = [reading EXCEPT ![input["landmark"]] = @ - 1]
  /\ refs' = [refs EXCEPT ![input["landmark"]] = @ - 1]
  /\ calls' = Return
  /\ UNCHANGED <<graph, queue, main, rendering, content, input, output, reached>>

\* GPUImageView draws its input on the screen and lets go of it.
ViewShow ==
  /\ Active("render") /\ Top.node = "view"
  /\ refs' = [refs EXCEPT ![input["view"]] = @ - 1]
  /\ input' = [input EXCEPT !["view"] = NoBuffer]
  /\ calls' = Return
  /\ reached' = reached \cup {"view"}
  /\ UNCHANGED <<graph, queue, main, rendering, reading, content, output>>

----------------------------------------------------------------------------
MainStep == Appear \/ StartCapture

QueueStep ==
  \/ StartWiring \/ WireStep \/ StartFrame
  \/ Inform \/ CallTarget \/ ReturnCall
  \/ \E n \in Node : RenderPlain(n)
  \/ MeshPass \/ MeshDraw
  \/ LandmarkSkip \/ LandmarkLock \/ LandmarkNoPixels \/ LandmarkCopy
  \/ ViewShow

GraphNext == MainStep \/ CaptureFrame \/ QueueStep

GraphSpec == InitGraph /\ [][GraphNext]_graphVars

\* The main thread finishes viewDidAppear, the video queue runs its tasks, and
\* the running camera delivers.
GraphLiveSpec ==
  /\ GraphSpec
  /\ WF_graphVars(StartCapture) /\ WF_graphVars(CaptureFrame) /\ WF_graphVars(QueueStep)

----------------------------------------------------------------------------
Tasks == {"wire", "frame"}

GraphTypeOK ==
  /\ targets \in [Node -> Seq(Node)]
  /\ queue \in Seq(Tasks)
  /\ wiring \in Seq([op : {"remove", "add"}, from : Node, to : Node])
  /\ calls \in Seq(FilterCall)
  /\ appeared \in 0 .. MaxAppear /\ mainPlace \in {"idle", "start"}
  /\ capturing \in BOOLEAN /\ rendering \in BOOLEAN
  /\ refs \in [Framebuffers -> Nat] /\ reading \in [Framebuffers -> Nat]
  /\ content \in [Framebuffers -> {"old", "new"}]
  /\ input \in [Node -> Buffer] /\ output \in [Node -> Buffer]
  /\ reached \in SUBSET Node

(* However often the view appears, a frame only ever meets the full graph:
   never one that is half taken down or half built (FSPipelineManager.m:79-106,
   ViewController.m:69-70).                                                *)
FullGraphInFrame == calls # << >> => targets = FullGraph

(* A filter that is called finds its own frame's picture in its input, in a
   framebuffer that has not gone back to the cache in the meantime
   (FSLenFilter.m:38-76, FSFaceMeshFilter.m:221-243).                      *)
InputIsNew ==
  calls # << >> /\ Top.at \in {"render", "read"} =>
    /\ input[Top.node] \in Framebuffers
    /\ refs[input[Top.node]] > 0
    /\ content[input[Top.node]] = "new"

(* Between frames all framebuffers are back in the cache: no path through a
   handler keeps one (mm:62, 78-79, 90-91, FSFaceMeshFilter.m:30-31, 243). *)
NothingKept == calls = << >> => \A b \in Framebuffers : refs[b] = 0

(* A framebuffer does not go back to the cache locked for reading
   (mm:75-79, 90).                                                         *)
NotReadInCache == \A b \in Framebuffers : refs[b] = 0 => reading[b] = 0

(* The cache gets every framebuffer back, as it should be and only once: all
   variables keep their types, the counts of locks among them.             *)
CacheRight == GraphTypeOK /\ NothingKept /\ NotReadInCache

(* The landmark filter handles a frame before the mesh filter does, so that
   the mesh can be drawn with the frame's own points: the order in which the
   targets were added decides (FSPipelineManager.m:89-94).                 *)
LandmarkFirst == "mesh" \in reached => "landmark" \in reached

(* Every frame that is started reaches the screen before the next one is
   taken, face or no face, whatever the landmark filter does with it
   (FSFaceMeshFilter.m:27-32, 206).                                        *)
FrameReachesView ==
  [][calls # << >> /\ calls' = << >> => reached = Node]_graphVars

(* Once the camera runs, the screen is refreshed again and again, however
   often the pipeline is wired anew (ViewController.m:65-71).              *)
ViewKeepsShowing == capturing ~> (calls # << >> /\ Top.node = "view")

(* Both of them: no frame is lost on its way, and there is always another. *)
FramesShown == FrameReachesView /\ ViewKeepsShowing
=============================================================================
