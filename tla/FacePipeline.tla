---------------------------- MODULE FacePipeline ----------------------------
(***************************************************************************)
(* One camera frame after the other runs through FSFaceLandmarkFilter and  *)
(* then FSFaceMeshFilter on GPUImage's serial video queue, while face      *)
(* detection runs for one of them at a time on face_detect_queue.  The two *)
(* queues share image_buffer, face_detecting and the face rectangles, with *)
(* no lock between them that covers more than one property access.         *)
(*                                                                         *)
(* vpc and dpc say where each queue is in its handler; a step ends where   *)
(* the other queue can see or change what the next step uses.  A CGRect is *)
(* stored and loaded half by half (its origin and its size), in any order: *)
(* the code reads the instance variables, not the atomic accessors.        *)
(***************************************************************************)
EXTENDS Integers, Sequences

CONSTANTS Rects,    \* the nonempty face rectangles a detection may report
          Zero,     \* CGRectZero
          Heights,  \* heights, in rows, of the frames that come in (0: empty)
          MaxFrame  \* bound: frames are numbered 1, 2, ..., then all MaxFrame

ASSUME RectsAssumption == Zero \notin Rects
ASSUME HeightsAssumption == Heights \subseteq Nat
ASSUME MaxFrameAssumption == MaxFrame \in Nat \ {0}

VARIABLES
  frame,           \* number of the frame in process; 0 before the first
  input,           \* its framebuffer: height, and whether byteBuffer is there
  vpc,             \* the video queue's place in the frame
  row,             \* next row of the frame to copy
  image_buffer,    \* per row, the frame it was copied from
  oneFaceRect,     \* the rectangle given to the shape predictor
  corners,         \* the rectangle whose corners are put into the mesh
  unread,          \* halves of a rectangle the video queue has yet to load
  keyPoints,       \* landmark filter's points
  key_points,      \* pipeline manager's copy of them
  facePoints,      \* mesh filter's pointer: "NULL" or "key_points"
  output,          \* what the mesh filter did with the last frame
  face_detecting,
  detect_queue,    \* blocks waiting on face_detect_queue
  block,           \* what the running block captured
  dpc,             \* the detection queue's place in the block
  drow,            \* next row to copy out of image_buffer
  imageData,       \* the block's copy: per row, the frame it shows
  found,           \* the detector's answer for it
  unset,           \* halves of a rectangle the detection queue has yet to store
  faceRect,        \* landmark filter's rectangle
  managerRect,     \* pipeline manager's
  meshRect         \* mesh filter's

video == <<frame, input, row, oneFaceRect, corners, unread, output>>
points == <<keyPoints, key_points, facePoints>>
detect == <<block, dpc, drow, imageData, found, unset>>
rects == <<faceRect, managerRect, meshRect>>
videoSide == <<video, vpc, image_buffer, points>>
detectionSide == <<face_detecting, detect_queue, detect, rects>>
vars == <<videoSide, detectionSide>>

----------------------------------------------------------------------------
Half == {"origin", "size"}
Faces == Rects \cup {Zero}
CGRect == [Half -> Faces]
RectOf(f) == [h \in Half |-> f]
Whole(r) == r["origin"] = r["size"]

\* CGSizeEqualToSize(CGSizeZero, r.size)
NoSize(r) == r["size"] = Zero

Frames == 0 .. MaxFrame
NextFrame(n) == IF n < MaxFrame THEN n + 1 ELSE n

\* Images and copies of them, whatever their number of rows.
Image == UNION {[1 .. n -> Frames] : n \in Heights \cup {0}}
NoImage == [r \in 1 .. 0 |-> 0]

\* The points are told apart by whether there are any (num_of_points is 71)
\* and whether they were computed from the frame in process.
KeyPoints == [num_of_points : {0, 71}, current : BOOLEAN]

\* A block captures a pointer to image_buffer's pixels, the frame's height,
\* and, for the properties, the frame; "live" says that the pointer is valid.
Block == [height : Heights \cup {0}, frame : Frames, live : BOOLEAN]
NoBlock == [height |-> 0, frame |-> 0, live |-> FALSE]

LandmarkPlaces == {"landmark", "copy", "test", "dispatch", "rect", "readRect",
                   "predict"}
MeshPlaces == {"mesh", "warp", "corners", "draw"}
VideoPlaces == {"idle", "crashed"} \cup LandmarkPlaces \cup MeshPlaces
DetectPlaces == {"idle", "snapshot", "detect", "setFaceRect", "tell",
                 "setMeshRect", "done"}

Alive == vpc # "crashed"

Init ==
  /\ frame = 0 /\ vpc = "idle" /\ row = 1
  /\ input = [height |-> 0, pixels |-> FALSE]
  /\ image_buffer = NoImage
  /\ oneFaceRect = RectOf(Zero) /\ corners = RectOf(Zero) /\ unread = {}
  /\ keyPoints = [num_of_points |-> 0, current |-> FALSE]
  /\ key_points = keyPoints
  /\ facePoints = "NULL" /\ output = "none"
  /\ face_detecting = FALSE /\ detect_queue = << >>
  /\ block = NoBlock
  /\ dpc = "idle" /\ drow = 1 /\ imageData = NoImage
  /\ found = Zero /\ unset = {}
  /\ faceRect = RectOf(Zero) /\ managerRect = faceRect /\ meshRect = faceRect

----------------------------------------------------------------------------
(* The video queue: FSFaceLandmarkFilter's newFrameReadyAtTime, then
   FSFaceMeshFilter's.                                                     *)

\* The camera's next frame goes down the filter chain.  The resize filter's
\* scale is 1, so both filters see the same height.
NewFrame(h, hasPixels) ==
  /\ vpc = "idle"
  /\ frame' = NextFrame(frame)
  /\ input' = [height |-> h, pixels |-> hasPixels]
  /\ vpc' = "landmark"
  /\ keyPoints' = [keyPoints EXCEPT !.current = FALSE]
  /\ key_points' = [key_points EXCEPT !.current = FALSE]
  /\ UNCHANGED <<row, oneFaceRect, corners, unread, output, image_buffer,
                 facePoints, detectionSide>>

\* Mutant: the size is taken for a new one every time.
SizeAlwaysDiffers(h) == h >= 0

SizeDiffers(h) == Len(image_buffer) # h

\* array2d::set_size: another size frees the pixels and whatever points to
\* them; the new ones are uninitialised.
SetSize(h) ==
  IF SizeDiffers(h)
  THEN /\ image_buffer' = [r \in 1 .. h |-> 0]
       /\ block' = [block EXCEPT !.live = FALSE]
       /\ detect_queue' = [i \in 1 .. Len(detect_queue) |->
                             [detect_queue[i] EXCEPT !.live = FALSE]]
  ELSE UNCHANGED <<image_buffer, block, detect_queue>>

\* An empty framebuffer is skipped before image_buffer is touched, one
\* without pixels after image_buffer was given its size.
EmptyFrame ==
  /\ vpc = "landmark" /\ input.height <= 0
  /\ vpc' = "mesh"
  /\ UNCHANGED <<video, image_buffer, points, detectionSide>>

\* Mutant: the copy loop is left out.
LockPixelsNoCopy ==
  /\ vpc = "landmark" /\ input.height > 0
  /\ SetSize(input.height)
  /\ row' = 1
  /\ vpc' = IF input.pixels THEN "test" ELSE "mesh"
  /\ UNCHANGED <<frame, input, oneFaceRect, corners, unread, output, points,
                 face_detecting, dpc, drow, imageData, found, unset, rects>>

LockPixels ==
  /\ vpc = "landmark" /\ input.height > 0
  /\ SetSize(input.height)
  /\ row' = 1
  /\ vpc' = IF input.pixels THEN "copy" ELSE "mesh"
  /\ UNCHANGED <<frame, input, oneFaceRect, corners, unread, output, points,
                 face_detecting, dpc, drow, imageData, found, unset, rects>>

\* Mutant: the loop ends one row early.
CopyRowShort ==
  /\ vpc = "copy"
  /\ image_buffer' = [image_buffer EXCEPT ![row] = frame]
  /\ row' = row + 1
  /\ vpc' = IF row + 1 >= input.height THEN "test" ELSE "copy"
  /\ UNCHANGED <<frame, input, oneFaceRect, corners, unread, output, points,
                 detectionSide>>

\* The memcpy loop, row by row: the detection queue may read meanwhile.
CopyRow ==
  /\ vpc = "copy"
  /\ image_buffer' = [image_buffer EXCEPT ![row] = frame]
  /\ row' = row + 1
  /\ vpc' = IF row = input.height THEN "test" ELSE "copy"
  /\ UNCHANGED <<frame, input, oneFaceRect, corners, unread, output, points,
                 detectionSide>>

\* Mutants: every frame is dispatched; a frame is left alone during detection.
TestDetectingNever ==
  /\ vpc = "test"
  /\ vpc' = "dispatch"
  /\ UNCHANGED <<video, image_buffer, points, detectionSide>>

TestDetectingReturns ==
  /\ vpc = "test"
  /\ vpc' = IF face_detecting THEN "mesh" ELSE "dispatch"
  /\ UNCHANGED <<video, image_buffer, points, detectionSide>>

TestDetecting ==
  /\ vpc = "test"
  /\ vpc' = IF face_detecting THEN "rect" ELSE "dispatch"
  /\ UNCHANGED <<video, image_buffer, points, detectionSide>>

\* face_detecting = YES, and dispatch_async of the block.
DispatchDetection ==
  /\ vpc = "dispatch"
  /\ face_detecting' = TRUE
  /\ detect_queue' = Append(detect_queue, [height |-> input.height,
                                           frame |-> frame, live |-> TRUE])
  /\ vpc' = "rect"
  /\ UNCHANGED <<video, image_buffer, points, detect, rects>>

TestFaceRect ==
  /\ vpc = "rect"
  /\ IF NoSize(faceRect)
     THEN vpc' = "mesh" /\ UNCHANGED unread
     ELSE vpc' = "readRect" /\ unread' = Half
  /\ UNCHANGED <<frame, input, row, oneFaceRect, corners, output, image_buffer,
                 points, detectionSide>>

\* oneFaceRect is built from _faceRect, loaded anew after the test.
ReadFaceRect(h) ==
  /\ vpc = "readRect" /\ h \in unread
  /\ oneFaceRect' = [oneFaceRect EXCEPT ![h] = faceRect[h]]
  /\ unread' = unread \ {h}
  /\ vpc' = IF unread' = {} THEN "predict" ELSE "readRect"
  /\ UNCHANGED <<frame, input, row, corners, output, image_buffer, points,
                 detectionSide>>

\* Mutant: only the predictor's own 68 points are counted.
PredictShape68 ==
  /\ vpc = "predict"
  /\ keyPoints' = [num_of_points |-> 68, current |-> TRUE]
  /\ key_points' = keyPoints'
  /\ facePoints' = "key_points"
  /\ vpc' = "mesh"
  /\ UNCHANGED <<video, image_buffer, detectionSide>>

\* The shape predictor's points, averaged with the last ones if there are
\* any, become keyPoints; the delegate passes them on to the mesh filter.
PredictShape ==
  /\ vpc = "predict"
  /\ keyPoints' = [num_of_points |-> 71, current |-> TRUE]
  /\ key_points' = keyPoints'
  /\ facePoints' = "key_points"
  /\ vpc' = "mesh"
  /\ UNCHANGED <<video, image_buffer, detectionSide>>

\* No face, or no picture: the frame goes through as it is.
PassThrough ==
  /\ vpc = "mesh" /\ (NoSize(meshRect) \/ input.height = 0)
  /\ output' = "plain"
  /\ vpc' = "idle"
  /\ UNCHANGED <<frame, input, row, oneFaceRect, corners, unread, image_buffer,
                 points, detectionSide>>

StartMesh ==
  /\ vpc = "mesh" /\ ~NoSize(meshRect) /\ input.height # 0
  /\ vpc' = "warp"
  /\ UNCHANGED <<video, image_buffer, points, detectionSide>>

\* Through _facePoints, whatever it is: NULL takes the app down.
ReadPoints ==
  /\ vpc = "warp"
  /\ IF facePoints = "NULL"
     THEN vpc' = "crashed" /\ UNCHANGED unread
     ELSE vpc' = "corners" /\ unread' = Half
  /\ UNCHANGED <<frame, input, row, oneFaceRect, corners, output, image_buffer,
                 points, detectionSide>>

\* The corners come from _faceRect as it is by now.
ReadCorners(h) ==
  /\ vpc = "corners" /\ h \in unread
  /\ corners' = [corners EXCEPT ![h] = meshRect[h]]
  /\ unread' = unread \ {h}
  /\ vpc' = IF unread' = {} THEN "draw" ELSE "corners"
  /\ UNCHANGED <<frame, input, row, oneFaceRect, output, image_buffer, points,
                 detectionSide>>

DrawMesh ==
  /\ vpc = "draw"
  /\ output' = "warped"
  /\ vpc' = "idle"
  /\ UNCHANGED <<frame, input, row, oneFaceRect, corners, unread, image_buffer,
                 points, detectionSide>>

----------------------------------------------------------------------------
(* The detection queue: the block of FSFaceLandmarkFilter.mm:95-133.  A
   crash on the video queue stops it too.                                  *)

StartBlock ==
  /\ Alive /\ dpc = "idle" /\ detect_queue # << >>
  /\ block' = Head(detect_queue)
  /\ detect_queue' = Tail(detect_queue)
  /\ imageData' = [r \in 1 .. block'.height |-> 0]
  /\ drow' = 1
  /\ dpc' = "snapshot"
  /\ UNCHANGED <<videoSide, face_detecting, found, unset, rects>>

\* dataWithBytes reads image_buffer while the video queue may be writing the
\* next frame into it; through a dangling pointer it may read anything.
SnapshotRow ==
  /\ Alive /\ dpc = "snapshot"
  /\ \E n \in IF block.live THEN {image_buffer[drow]} ELSE Frames :
       imageData' = [imageData EXCEPT ![drow] = n]
  /\ drow' = drow + 1
  /\ dpc' = IF drow = block.height THEN "detect" ELSE "snapshot"
  /\ UNCHANGED <<videoSide, face_detecting, detect_queue, block, found, unset,
                 rects>>

\* Mutant: face_detecting is reset before the result is handed out.
DetectFaceEarlyReset(f) ==
  /\ Alive /\ dpc = "detect"
  /\ found' = f
  /\ unset' = Half
  /\ dpc' = "setFaceRect"
  /\ face_detecting' = FALSE
  /\ UNCHANGED <<videoSide, detect_queue, block, drow, imageData, rects>>

\* featuresInImage may find any face, or none (CGRectZero is stored then).
DetectFace(f) ==
  /\ Alive /\ dpc = "detect"
  /\ found' = f
  /\ unset' = Half
  /\ dpc' = "setFaceRect"
  /\ UNCHANGED <<videoSide, face_detecting, detect_queue, block, drow,
                 imageData, rects>>

SetFaceRect(h) ==
  /\ Alive /\ dpc = "setFaceRect" /\ h \in unset
  /\ faceRect' = [faceRect EXCEPT ![h] = found]
  /\ unset' = unset \ {h}
  /\ dpc' = IF unset' = {} THEN "tell" ELSE "setFaceRect"
  /\ UNCHANGED <<videoSide, face_detecting, detect_queue, block, drow,
                 imageData, found, managerRect, meshRect>>

\* Mutants: the mesh filter is not told, or not told that the face is gone; the
\* mesh filter's points are dropped when the face is gone.
TellManagerOnly ==
  /\ Alive /\ dpc = "tell"
  /\ managerRect' = faceRect
  /\ dpc' = "done"
  /\ UNCHANGED <<videoSide, face_detecting, detect_queue, block, drow,
                 imageData, found, unset, faceRect, meshRect>>

TellManagerFaces ==
  /\ Alive /\ dpc = "tell"
  /\ managerRect' = faceRect
  /\ IF NoSize(faceRect) THEN dpc' = "done" /\ unset' = {}
                         ELSE dpc' = "setMeshRect" /\ unset' = Half
  /\ UNCHANGED <<videoSide, face_detecting, detect_queue, block, drow,
                 imageData, found, faceRect, meshRect>>

TellManagerClears ==
  /\ Alive /\ dpc = "tell"
  /\ managerRect' = faceRect
  /\ facePoints' = IF NoSize(faceRect) THEN "NULL" ELSE facePoints
  /\ unset' = Half
  /\ dpc' = "setMeshRect"
  /\ UNCHANGED <<video, vpc, image_buffer, keyPoints, key_points,
                 face_detecting, detect_queue, block, drow, imageData, found,
                 faceRect, meshRect>>

\* didUpdateFaceRect: the manager keeps the rectangle, which nothing reads
\* back, and hands it on to the mesh filter.
TellManager ==
  /\ Alive /\ dpc = "tell"
  /\ managerRect' = faceRect
  /\ unset' = Half
  /\ dpc' = "setMeshRect"
  /\ UNCHANGED <<videoSide, face_detecting, detect_queue, block, drow,
                 imageData, found, faceRect, meshRect>>

SetMeshRect(h) ==
  /\ Alive /\ dpc = "setMeshRect" /\ h \in unset
  /\ meshRect' = [meshRect EXCEPT ![h] = managerRect[h]]
  /\ unset' = unset \ {h}
  /\ dpc' = IF unset' = {} THEN "done" ELSE "setMeshRect"
  /\ UNCHANGED <<videoSide, face_detecting, detect_queue, block, drow,
                 imageData, found, faceRect, managerRect>>

\* Mutant: face_detecting is not reset.
FinishBlockNoReset ==
  /\ Alive /\ dpc = "done"
  /\ dpc' = "idle"
  /\ imageData' = NoImage
  /\ block' = NoBlock
  /\ UNCHANGED <<videoSide, face_detecting, detect_queue, drow, found, unset,
                 rects>>

\* face_detecting = NO, the block's last statement.
FinishBlock ==
  /\ Alive /\ dpc = "done"
  /\ face_detecting' = FALSE
  /\ dpc' = "idle"
  /\ imageData' = NoImage
  /\ block' = NoBlock
  /\ UNCHANGED <<videoSide, detect_queue, drow, found, unset, rects>>

----------------------------------------------------------------------------
Camera == \E h \in Heights, p \in BOOLEAN : NewFrame(h, p)

LandmarkStep == \/ EmptyFrame \/ LockPixels \/ CopyRow \/ TestDetecting
                \/ DispatchDetection \/ TestFaceRect
                \/ \E h \in Half : ReadFaceRect(h)
                \/ PredictShape

MeshStep == \/ PassThrough \/ StartMesh \/ ReadPoints
            \/ \E h \in Half : ReadCorners(h)
            \/ DrawMesh

BlockStep == \/ StartBlock \/ SnapshotRow
             \/ \E f \in Faces : DetectFace(f)
             \/ \E h \in Half : SetFaceRect(h)
             \/ TellManager
             \/ \E h \in Half : SetMeshRect(h)
             \/ FinishBlock

Next == Camera \/ LandmarkStep \/ MeshStep \/ BlockStep

Spec == Init /\ [][Next]_vars

\* A frame with pixels comes down the chain.
GoodFrame == \E h \in Heights \ {0} : NewFrame(h, TRUE)

\* Both serial queues keep running their handlers.  The capture session
\* keeps delivering frames, and byteBuffer does not fail for ever.
LiveSpec == /\ Spec
            /\ WF_vars(LandmarkStep \/ MeshStep)
            /\ WF_vars(BlockStep)
            /\ WF_vars(Camera) /\ SF_vars(GoodFrame)

----------------------------------------------------------------------------
TypeOK ==
  /\ frame \in Frames
  /\ input \in [height : Heights \cup {0}, pixels : BOOLEAN]
  /\ vpc \in VideoPlaces
  /\ row \in Nat \ {0}
  /\ image_buffer \in Image
  /\ oneFaceRect \in CGRect /\ corners \in CGRect /\ unread \in SUBSET Half
  /\ keyPoints \in KeyPoints /\ key_points \in KeyPoints
  /\ facePoints \in {"NULL", "key_points"}
  /\ output \in {"none", "plain", "warped"}
  /\ face_detecting \in BOOLEAN
  /\ detect_queue \in Seq(Block) /\ block \in Block
  /\ dpc \in DetectPlaces
  /\ drow \in Nat \ {0} /\ imageData \in Image
  /\ found \in Faces /\ unset \in SUBSET Half
  /\ faceRect \in CGRect /\ managerRect \in CGRect /\ meshRect \in CGRect

(* face_detecting is a plain BOOL, tested on one queue and reset on the
   other.  It is YES exactly while one block is waiting or running; there
   are never two, however the queues interleave (mm:93-94, 132).           *)
InFlight == Len(detect_queue) + (IF dpc = "idle" THEN 0 ELSE 1)
OneDetection == InFlight = (IF face_detecting THEN 1 ELSE 0)

(* Once a detection was released, the landmark filter, the manager and the
   mesh filter hold the same rectangle, and it is one that was stored whole
   (mm:119-129, FSPipelineManager.m:141-147).                              *)
RectsInSync ==
  ~face_detecting => /\ Whole(faceRect)
                     /\ managerRect = faceRect
                     /\ meshRect = faceRect

\* Every frame that is not empty has the height the capture session was set to.
OneSize == \A g, h \in Heights \ {0} : g = h

(* The picture the detector looks at may be torn between frames, since the
   buffer is refilled before face_detecting is looked at; but no row of it is
   older than the frame that was dispatched (mm:86-88 against mm:103).     *)
SnapshotNotStale ==
  OneSize /\ dpc # "idle" =>
    \A r \in 1 .. Len(imageData) :
      (dpc = "snapshot" => r < drow) => imageData[r] >= block.frame

(* As long as all frames have one size, image_buffer is never reallocated
   under a block that still holds the raw pointer (mm:66-69, 85, 103).     *)
BufferAlive ==
  OneSize => /\ dpc # "idle" => block.live
             /\ \A i \in 1 .. Len(detect_queue) : detect_queue[i].live

(* The shape predictor sees the frame in process and nothing else: all its
   rows, none of an earlier frame or of uninitialised memory (mm:146).     *)
PredictorSeesFrame ==
  vpc \in {"predict", "readRect"} =>
    /\ Len(image_buffer) = input.height
    /\ \A r \in 1 .. Len(image_buffer) : image_buffer[r] = frame

(* The app can die of the missing points only before the first face was ever
   marked: from then on _facePoints stays good, whatever is lost and found
   again (FSFaceMeshFilter.m:38, FSPipelineManager.m:155).                 *)
CrashOnlyBeforeFirstPoints == vpc = "crashed" => keyPoints.num_of_points = 0

----------------------------------------------------------------------------
(* What the declarations say, and the code does not keep.                  *)

(* faceRect is declared atomic (FSFaceLandmarkFilter.h:16): who reads it gets
   a rectangle that was stored as one, never the origin of one face with the
   size of another.  newFrameReadyAtTime reads the instance variable.      *)
FaceRectAtomic == vpc = "predict" => Whole(oneFaceRect)

(* facePoints are the face's feature points (FSFaceMeshFilter.h:15), so they
   are there when the mesh filter has a face rectangle and uses them.      *)
MeshHasPoints == vpc = "warp" => facePoints = "key_points"

----------------------------------------------------------------------------
(* Liveness, under LiveSpec.                                               *)

FindsFace == \E f \in Rects : DetectFace(f)
FindsNobody == DetectFace(Zero)
BadFrame == \E h \in Heights, p \in BOOLEAN :
              NewFrame(h, p) /\ (h = 0 \/ ~p)

(* When everybody leaves the picture for good, the video is shown unchanged
   from some frame on: the rectangle does not outlive the face (mm:118-119).*)
FaceLossShows ==
  (<>[][~FindsFace]_vars) => <>[](Alive => output # "warped")

(* When a face is found every time from some detection on, and every frame
   has pixels, each frame is in the end warped with points computed from that
   very frame, not with ones left over (mm:136-182).                       *)
PointsKeepUp ==
  (<>[][~FindsNobody /\ ~BadFrame]_vars) =>
     <>[](Alive => /\ output = "warped"
                   /\ vpc = "draw" => key_points.current)

----------------------------------------------------------------------------
(* DetectionService: a request lasts as long as face_detecting is YES, and
   its result counts as published when the last half of the mesh filter's
   rectangle is stored.                                                    *)
phase == IF ~face_detecting THEN "free"
         ELSE IF dpc = "done" THEN "told" ELSE "looking"

published == meshRect[IF dpc = "setMeshRect" THEN CHOOSE h \in unset : TRUE
                      ELSE "size"]

Service == INSTANCE DetectionService WITH alive <- Alive

(* Every step of the two queues is a step of the service or leaves it alone;
   in particular the mesh filter's rectangle changes once per request.     *)
ServiceSafety == Service!DSSafety

(* The service's liveness as well: a request is answered and released.     *)
ServiceSpec == Service!DSSpec
=============================================================================
