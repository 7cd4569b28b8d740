------------------------- MODULE FacePipelineProofs -------------------------
(***************************************************************************)
(* Theorems about FacePipeline, for any faces, frame heights and bound on  *)
(* the frame numbers.                                                      *)
(***************************************************************************)
EXTENDS FacePipeline, TLAPS

USE DEF videoSide, detectionSide

\* What ties the buffers to the places of the two queues: whoever copies rows
\* copies rows that exist, and a pointer that is live leads to an image of the
\* height that was captured with it.
BufferInv ==
  /\ vpc \in LandmarkPlaces \ {"landmark", "copy"} =>
       Len(image_buffer) = input.height /\ input.height > 0
  /\ vpc = "copy" =>
       Len(image_buffer) = input.height /\ row \in 1 .. input.height
  /\ \A i \in 1 .. Len(detect_queue) :
       /\ detect_queue[i].height > 0
       /\ detect_queue[i].live => Len(image_buffer) = detect_queue[i].height
  /\ dpc # "idle" =>
       /\ block.height > 0
       /\ Len(imageData) = block.height
       /\ block.live => Len(image_buffer) = block.height
  /\ dpc = "snapshot" => drow \in 1 .. block.height

\* One block at a time, and the video queue's decision to dispatch one stays
\* good between the test of face_detecting and the store.
QueueInv == OneDetection /\ (vpc = "dispatch" => ~face_detecting)

\* How far the block is with handing out the new rectangle.
RectInv ==
  /\ dpc # "setFaceRect" => Whole(faceRect)
  /\ dpc # "setMeshRect" => Whole(meshRect)
  /\ dpc \notin {"setFaceRect", "tell"} => managerRect = faceRect
  /\ dpc \notin {"setFaceRect", "tell", "setMeshRect"} => meshRect = faceRect
  /\ dpc \in {"setFaceRect", "setMeshRect"} => unset # {}
  /\ dpc = "setFaceRect" => \A h \in Half \ unset : faceRect[h] = found
  /\ dpc = "setMeshRect" =>
       /\ \A h \in Half \ unset : meshRect[h] = managerRect[h]
       /\ \A g, h \in unset : meshRect[g] = meshRect[h]

----------------------------------------------------------------------------
(* The queue of blocks. *)

LEMMA QueueInvInit == Init => QueueInv
BY DEF Init, QueueInv, OneDetection, InFlight

\* Steps of the video queue: only the dispatch adds a block.
LEMMA QueueInvVideo ==
  ASSUME detect_queue \in Seq(Block), QueueInv, Camera \/ LandmarkStep \/ MeshStep
  PROVE  QueueInv'
<1> USE DEF QueueInv, OneDetection, InFlight, detect
<1>1. CASE Camera
  BY <1>1 DEF Camera, NewFrame
<1>2. CASE DispatchDetection
  BY <1>2 DEF DispatchDetection
<1>3. CASE LockPixels
  <2>1. Len(detect_queue') = Len(detect_queue)
    BY <1>3 DEF LockPixels, SetSize
  <2> QED BY <1>3, <2>1 DEF LockPixels
<1>4. CASE EmptyFrame \/ CopyRow \/ TestDetecting \/ TestFaceRect
           \/ (\E h \in Half : ReadFaceRect(h)) \/ PredictShape
  BY <1>4 DEF EmptyFrame, CopyRow, TestDetecting, TestFaceRect, ReadFaceRect,
              PredictShape
<1>5. CASE MeshStep
  BY <1>5 DEF MeshStep, PassThrough, StartMesh, ReadPoints, ReadCorners,
              DrawMesh
<1> QED BY <1>1, <1>2, <1>3, <1>4, <1>5 DEF LandmarkStep

\* Steps of the detection queue: the block that starts was the only one.
LEMMA QueueInvBlock ==
  ASSUME detect_queue \in Seq(Block), face_detecting \in BOOLEAN, QueueInv,
         BlockStep
  PROVE  QueueInv'
<1> USE DEF QueueInv, OneDetection, InFlight
<1>1. CASE StartBlock
  <2>1. detect_queue # << >> /\ detect_queue' = Tail(detect_queue)
    BY <1>1 DEF StartBlock
  <2>2. Len(detect_queue') = Len(detect_queue) - 1
    BY <2>1
  <2> QED BY <1>1, <2>2 DEF StartBlock
<1>2. CASE FinishBlock
  <2>1. face_detecting /\ Len(detect_queue) = 0
    BY <1>2 DEF FinishBlock
  <2> QED BY <1>2, <2>1 DEF FinishBlock
<1>3. CASE SnapshotRow \/ (\E f \in Faces : DetectFace(f)) \/ TellManager
  BY <1>3 DEF SnapshotRow, DetectFace, TellManager
<1>4. CASE \E h \in Half : SetFaceRect(h) \/ SetMeshRect(h)
  BY <1>4 DEF SetFaceRect, SetMeshRect
<1> QED BY <1>1, <1>2, <1>3, <1>4 DEF BlockStep

LEMMA QueueInvStutter ==
  ASSUME QueueInv, UNCHANGED vars
  PROVE  QueueInv'
BY DEF QueueInv, OneDetection, InFlight, vars, detect

----------------------------------------------------------------------------
(* The rectangles. *)

LEMMA RectInvInit == Init => RectInv
BY DEF Init, RectInv, Whole, RectOf, Half

\* The video queue only reads them.
LEMMA RectInvVideo ==
  ASSUME RectInv, Camera \/ LandmarkStep \/ MeshStep
  PROVE  RectInv'
<1>1. UNCHANGED <<dpc, found, unset, rects>>
  BY DEF Camera, NewFrame, LandmarkStep, EmptyFrame, LockPixels, CopyRow,
         TestDetecting, DispatchDetection, TestFaceRect, ReadFaceRect,
         PredictShape, MeshStep, PassThrough, StartMesh, ReadPoints,
         ReadCorners, DrawMesh, detect
<1> QED BY <1>1 DEF RectInv, Whole, rects

LEMMA RectInvBlock ==
  ASSUME faceRect \in CGRect, meshRect \in CGRect, managerRect \in CGRect,
         unset \in SUBSET Half, RectInv, BlockStep
  PROVE  RectInv'
<1> USE DEF RectInv, Whole, CGRect, Half, rects
<1>1. CASE StartBlock \/ SnapshotRow \/ FinishBlock
  BY <1>1 DEF StartBlock, SnapshotRow, FinishBlock
<1>2. CASE \E f \in Faces : DetectFace(f)
  BY <1>2 DEF DetectFace
<1>3. CASE \E h \in Half : SetFaceRect(h)
  <2>1. PICK h \in Half : SetFaceRect(h)
    BY <1>3
  <2>2. unset' = unset \ {h} /\ faceRect' = [faceRect EXCEPT ![h] = found]
    BY <2>1 DEF SetFaceRect
  <2>3. \A g \in Half \ unset' : faceRect'[g] = found
    BY <2>1, <2>2 DEF SetFaceRect
  <2> QED BY <2>1, <2>2, <2>3 DEF SetFaceRect
<1>4. CASE TellManager
  BY <1>4 DEF TellManager
<1>5. CASE \E h \in Half : SetMeshRect(h)
  <2>1. PICK h \in Half : SetMeshRect(h)
    BY <1>5
  <2>2. /\ unset' = unset \ {h}
        /\ meshRect' = [meshRect EXCEPT ![h] = managerRect[h]]
        /\ UNCHANGED <<faceRect, managerRect, found>>
    BY <2>1 DEF SetMeshRect
  <2>3. /\ \A g \in Half \ unset' : meshRect'[g] = managerRect[g]
        /\ \A f, g \in unset' : meshRect'[f] = meshRect'[g]
    BY <2>1, <2>2 DEF SetMeshRect
  <2>4. CASE unset' = {}
    <3>1. meshRect' = faceRect
      <4>1. \A g \in Half : meshRect'[g] = managerRect[g]
        BY <2>3, <2>4
      <4>2. managerRect = faceRect /\ meshRect' \in CGRect
        BY <2>1, <2>2 DEF SetMeshRect
      <4> QED BY <4>1, <4>2
    <3> QED BY <2>1, <2>2, <2>4, <3>1 DEF SetMeshRect
  <2>5. CASE unset' # {}
    BY <2>1, <2>2, <2>3, <2>5 DEF SetMeshRect
  <2> QED BY <2>4, <2>5
<1> QED BY <1>1, <1>2, <1>3, <1>4, <1>5 DEF BlockStep

LEMMA RectInvStutter ==
  ASSUME RectInv, UNCHANGED vars
  PROVE  RectInv'
BY DEF RectInv, Whole, vars, detect, rects

----------------------------------------------------------------------------
(* Types, and the rows of the image and of its copies. *)

LEMMA HeightNat ==
  ASSUME NEW h \in Heights \cup {0}
  PROVE  h \in Nat
BY HeightsAssumption

\* An image of n rows, of which one is replaced, is an image of n rows.
LEMMA ImageRow ==
  ASSUME NEW img \in Image, NEW r, NEW n \in Frames
  PROVE  /\ [img EXCEPT ![r] = n] \in Image
         /\ Len([img EXCEPT ![r] = n]) = Len(img)
<1>1. PICK k \in Heights \cup {0} : img \in [1 .. k -> Frames]
  BY DEF Image
<1>2. k \in Nat
  BY <1>1, HeightsAssumption
<1>3. [img EXCEPT ![r] = n] \in [1 .. k -> Frames]
  BY <1>1
<1> QED BY <1>1, <1>2, <1>3 DEF Image

\* A new image has the number of rows it was made with.
LEMMA ImageNew ==
  ASSUME NEW n \in Heights \cup {0}
  PROVE  /\ [r \in 1 .. n |-> 0] \in Image
         /\ Len([r \in 1 .. n |-> 0]) = n
<1>1. n \in Nat
  BY HeightsAssumption
<1>2. 0 \in Frames
  BY MaxFrameAssumption DEF Frames
<1>3. [r \in 1 .. n |-> 0] \in [1 .. n -> Frames]
  BY <1>2
<1> QED BY <1>1, <1>3 DEF Image

\* What is read from an image is a frame's number.
LEMMA ImageRead ==
  ASSUME NEW img \in Image, NEW r \in 1 .. Len(img)
  PROVE  img[r] \in Frames
<1>1. PICK k \in Heights \cup {0} : img \in [1 .. k -> Frames]
  BY DEF Image
<1>2. k \in Nat
  BY <1>1, HeightsAssumption
<1>3. Len(img) = k
  BY <1>1, <1>2
<1> QED BY <1>1, <1>3

LEMMA NothingThere == NoImage \in Image /\ NoBlock \in Block
<1>1. 0 \in Frames
  BY MaxFrameAssumption DEF Frames
<1>2. NoImage \in Image
  BY ImageNew DEF NoImage
<1>3. NoBlock \in Block
  BY <1>1 DEF NoBlock, Block
<1> QED BY <1>2, <1>3

LEMMA TypeInvInit ==
  ASSUME Init
  PROVE  TypeOK /\ BufferInv
<1>1. NoImage \in Image /\ NoBlock \in Block
  BY NothingThere
<1>2. 0 \in Frames
  BY MaxFrameAssumption DEF Frames
<1>3. RectOf(Zero) \in CGRect
  BY DEF RectOf, CGRect, Faces
<1>4. keyPoints \in KeyPoints /\ key_points \in KeyPoints
  BY DEF Init, KeyPoints
<1>5. TypeOK
  <2>1. /\ oneFaceRect \in CGRect /\ corners \in CGRect
        /\ faceRect \in CGRect /\ managerRect \in CGRect /\ meshRect \in CGRect
    BY <1>3 DEF Init
  <2>2. /\ frame \in Frames /\ image_buffer \in Image /\ imageData \in Image
        /\ block \in Block /\ detect_queue \in Seq(Block)
    BY <1>1, <1>2 DEF Init
  <2>3. /\ input \in [height : Heights \cup {0}, pixels : BOOLEAN]
        /\ vpc \in VideoPlaces /\ dpc \in DetectPlaces
        /\ row \in Nat \ {0} /\ drow \in Nat \ {0}
    BY DEF Init, VideoPlaces, DetectPlaces
  <2>4. /\ facePoints \in {"NULL", "key_points"}
        /\ output \in {"none", "plain", "warped"}
        /\ face_detecting \in BOOLEAN /\ found \in Faces
        /\ unread \in SUBSET Half /\ unset \in SUBSET Half
    BY DEF Init, Faces
  <2> QED BY <1>4, <2>1, <2>2, <2>3, <2>4 DEF TypeOK
<1>6. BufferInv
  BY DEF Init, BufferInv, LandmarkPlaces
<1> QED BY <1>5, <1>6

\* The size of image_buffer, and the validity of what points into it.
LEMMA TypeInvLockPixels ==
  ASSUME TypeOK, BufferInv, LockPixels
  PROVE  TypeOK' /\ BufferInv'
<1> USE DEF TypeOK, VideoPlaces, LandmarkPlaces, MeshPlaces, points, rects
<1>1. input.height \in Heights \cup {0} /\ input.height \in Nat \ {0}
  BY HeightNat DEF LockPixels
<1>2. CASE SizeDiffers(input.height)
  <2>1. /\ image_buffer' = [r \in 1 .. input.height |-> 0]
        /\ block' = [block EXCEPT !.live = FALSE]
        /\ detect_queue' = [i \in 1 .. Len(detect_queue) |->
                              [detect_queue[i] EXCEPT !.live = FALSE]]
    BY <1>2 DEF LockPixels, SetSize
  <2>2. image_buffer' \in Image /\ Len(image_buffer') = input.height
    BY <1>1, <2>1, ImageNew
  <2>3. /\ block' \in Block
        /\ block'.height = block.height /\ ~block'.live
    BY <2>1 DEF Block
  <2>a. ASSUME NEW i \in 1 .. Len(detect_queue)
        PROVE  /\ [detect_queue[i] EXCEPT !.live = FALSE] \in Block
               /\ detect_queue'[i].height = detect_queue[i].height
               /\ ~detect_queue'[i].live
    <3>1. detect_queue[i] \in Block
      OBVIOUS
    <3>2. detect_queue'[i] = [detect_queue[i] EXCEPT !.live = FALSE]
      BY <2>1
    <3> QED BY <3>1, <3>2 DEF Block
  <2>4. /\ detect_queue' \in Seq(Block)
        /\ Len(detect_queue') = Len(detect_queue)
        /\ \A i \in 1 .. Len(detect_queue) :
             /\ detect_queue'[i].height = detect_queue[i].height
             /\ ~detect_queue'[i].live
    <3> DEFINE n == Len(detect_queue)
    <3>1. n \in Nat
      OBVIOUS
    <3>2. detect_queue' \in [1 .. n -> Block]
      BY <2>1, <2>a
    <3>3. detect_queue' \in Seq(Block) /\ Len(detect_queue') = n
      BY <3>1, <3>2
    <3> QED BY <3>3, <2>a
  <2>5. TypeOK'
    BY <1>1, <2>2, <2>3, <2>4 DEF LockPixels
  <2>6. \A i \in 1 .. Len(detect_queue') :
          detect_queue'[i].height > 0 /\ ~detect_queue'[i].live
    BY <2>4 DEF BufferInv
  <2>7. UNCHANGED <<input, dpc, drow, imageData>> /\ vpc' \in {"copy", "mesh"}
        /\ row' = 1
    BY DEF LockPixels
  <2>8. dpc # "idle" => block.height > 0 /\ Len(imageData) = block.height
    BY DEF BufferInv
  <2>9. dpc = "snapshot" => drow \in 1 .. block.height
    BY DEF BufferInv
  <2>10. BufferInv'
    BY <1>1, <2>2, <2>3, <2>6, <2>7, <2>8, <2>9 DEF BufferInv
  <2> QED BY <2>5, <2>10
<1>3. CASE ~SizeDiffers(input.height)
  <2>1. /\ UNCHANGED <<image_buffer, block, detect_queue>>
        /\ Len(image_buffer) = input.height
    BY <1>3 DEF LockPixels, SetSize, SizeDiffers
  <2>2. TypeOK'
    BY <2>1 DEF LockPixels
  <2>3. BufferInv'
    BY <1>1, <2>1 DEF LockPixels, BufferInv
  <2> QED BY <2>2, <2>3
<1> QED BY <1>2, <1>3

LEMMA TypeInvLandmark ==
  ASSUME TypeOK, BufferInv, Camera \/ LandmarkStep
  PROVE  TypeOK' /\ BufferInv'
<1> USE DEF TypeOK, VideoPlaces, LandmarkPlaces, MeshPlaces, detect,
            video, points, rects
<1>1. CASE Camera
  <2>1. PICK h \in Heights, p \in BOOLEAN : NewFrame(h, p)
    BY <1>1 DEF Camera
  <2>2. NextFrame(frame) \in Frames
    BY MaxFrameAssumption DEF Frames, NextFrame
  <2>3. TypeOK'
    BY <2>1, <2>2 DEF NewFrame, KeyPoints
  <2>4. BufferInv'
    BY <2>1 DEF NewFrame, BufferInv
  <2> QED BY <2>3, <2>4
<1>2. CASE EmptyFrame
  BY <1>2 DEF EmptyFrame, BufferInv
<1>7. CASE TestDetecting
  BY <1>7 DEF TestDetecting, BufferInv
<1>8. CASE TestFaceRect
  BY <1>8 DEF TestFaceRect, BufferInv
<1>9. CASE PredictShape
  BY <1>9 DEF PredictShape, BufferInv, KeyPoints
<1>3. CASE LockPixels
  BY <1>3, TypeInvLockPixels
<1>4. CASE CopyRow
  <2>1. /\ image_buffer' \in Image
        /\ Len(image_buffer') = Len(image_buffer)
    BY <1>4, ImageRow DEF CopyRow
  <2>2. input.height \in Nat
    BY HeightNat
  <2>3. row \in 1 .. input.height /\ Len(image_buffer) = input.height
    BY <1>4 DEF CopyRow, BufferInv
  <2>4. TypeOK'
    BY <1>4, <2>1, <2>2, <2>3 DEF CopyRow
  <2>5. BufferInv'
    BY <1>4, <2>1, <2>2, <2>3 DEF CopyRow, BufferInv
  <2> QED BY <2>4, <2>5
<1>5. CASE DispatchDetection
  <2> DEFINE b == [height |-> input.height, frame |-> frame, live |-> TRUE]
  <2>1. b \in Block /\ b.height = input.height
    BY DEF Block
  <2>2. /\ detect_queue' \in Seq(Block)
        /\ Len(detect_queue') = Len(detect_queue) + 1
        /\ detect_queue'[Len(detect_queue) + 1] = b
        /\ \A i \in 1 .. Len(detect_queue) : detect_queue'[i] = detect_queue[i]
    BY <1>5, <2>1 DEF DispatchDetection
  <2>3. TypeOK'
    BY <1>5, <2>2 DEF DispatchDetection
  <2>4. Len(image_buffer) = input.height /\ input.height > 0
    BY <1>5 DEF DispatchDetection, BufferInv
  <2>5. \A i \in 1 .. Len(detect_queue') :
          /\ detect_queue'[i].height > 0
          /\ detect_queue'[i].live => Len(image_buffer) = detect_queue'[i].height
    BY <2>1, <2>2, <2>4 DEF BufferInv
  <2>6. BufferInv'
    BY <1>5, <2>4, <2>5 DEF DispatchDetection, BufferInv
  <2> QED BY <2>3, <2>6
<1>6. CASE \E h \in Half : ReadFaceRect(h)
  <2>1. PICK h \in Half : ReadFaceRect(h)
    BY <1>6
  <2>2. oneFaceRect' \in CGRect
    BY <2>1 DEF ReadFaceRect, CGRect
  <2>3. TypeOK'
    BY <2>1, <2>2 DEF ReadFaceRect
  <2>4. BufferInv'
    BY <2>1 DEF ReadFaceRect, BufferInv
  <2> QED BY <2>3, <2>4
<1> QED
  BY <1>1, <1>2, <1>3, <1>4, <1>5, <1>6, <1>7, <1>8, <1>9 DEF LandmarkStep

LEMMA TypeInvMesh ==
  ASSUME TypeOK, BufferInv, MeshStep
  PROVE  TypeOK' /\ BufferInv'
<1> USE DEF TypeOK, VideoPlaces, LandmarkPlaces, MeshPlaces, detect, video,
            points, rects
<1>1. CASE PassThrough
  BY <1>1 DEF PassThrough, BufferInv
<1>2. CASE StartMesh
  BY <1>2 DEF StartMesh, BufferInv
<1>3. CASE ReadPoints
  BY <1>3 DEF ReadPoints, BufferInv
<1>4. CASE \E h \in Half : ReadCorners(h)
  <2>1. PICK h \in Half : ReadCorners(h)
    BY <1>4
  <2>2. corners' \in CGRect
    BY <2>1 DEF ReadCorners, CGRect
  <2>3. TypeOK'
    BY <2>1, <2>2 DEF ReadCorners
  <2>4. BufferInv'
    BY <2>1 DEF ReadCorners, BufferInv
  <2> QED BY <2>3, <2>4
<1>5. CASE DrawMesh
  BY <1>5 DEF DrawMesh, BufferInv
<1> QED BY <1>1, <1>2, <1>3, <1>4, <1>5 DEF MeshStep

LEMMA TypeInvBlock ==
  ASSUME TypeOK, BufferInv, BlockStep
  PROVE  TypeOK' /\ BufferInv'
<1> USE DEF TypeOK, DetectPlaces, video, points, rects
<1>1. CASE StartBlock
  <2>1. /\ detect_queue # << >> /\ block' = detect_queue[1]
        /\ detect_queue' = Tail(detect_queue)
    BY <1>1 DEF StartBlock
  <2>2. /\ block' \in Block /\ detect_queue' \in Seq(Block)
        /\ Len(detect_queue') = Len(detect_queue) - 1
        /\ \A i \in 1 .. Len(detect_queue') :
             detect_queue'[i] = detect_queue[i + 1]
    BY <2>1
  <2>3. /\ block'.height > 0
        /\ block'.live => Len(image_buffer) = block'.height
    BY <2>1 DEF BufferInv
  <2>4. block'.height \in Heights \cup {0} /\ block'.height \in Nat
    BY <2>2, HeightNat DEF Block
  <2>5. imageData' \in Image /\ Len(imageData') = block'.height
    BY <1>1, <2>4, ImageNew DEF StartBlock
  <2>6. TypeOK'
    BY <1>1, <2>2, <2>5 DEF StartBlock
  <2>7. \A i \in 1 .. Len(detect_queue') :
          /\ detect_queue'[i].height > 0
          /\ detect_queue'[i].live => Len(image_buffer) = detect_queue'[i].height
    <3>1. Len(detect_queue) \in Nat
      OBVIOUS
    <3>2. \A i \in 1 .. Len(detect_queue') : i + 1 \in 1 .. Len(detect_queue)
      BY <2>2, <3>1
    <3> QED BY <2>2, <3>2, SMTT(30) DEF BufferInv
  <2>8. BufferInv'
    BY <1>1, <2>3, <2>4, <2>5, <2>7 DEF StartBlock, BufferInv
  <2> QED BY <2>6, <2>8
<1>2. CASE SnapshotRow
  <2>1. drow \in 1 .. block.height /\ Len(imageData) = block.height
    BY <1>2 DEF SnapshotRow, BufferInv
  <2>2. PICK n \in IF block.live THEN {image_buffer[drow]} ELSE Frames :
          imageData' = [imageData EXCEPT ![drow] = n]
    BY <1>2 DEF SnapshotRow
  <2>3. n \in Frames
    <3>1. CASE block.live
      <4>1. drow \in 1 .. Len(image_buffer)
        BY <1>2, <2>1, <3>1 DEF SnapshotRow, BufferInv
      <4> QED BY <2>2, <3>1, <4>1, ImageRead
    <3>2. CASE ~block.live
      BY <2>2, <3>2
    <3> QED BY <3>1, <3>2
  <2>4. imageData' \in Image /\ Len(imageData') = Len(imageData)
    BY <2>2, <2>3, ImageRow
  <2>5. block.height \in Nat
    BY HeightNat DEF Block
  <2>6. TypeOK'
    BY <1>2, <2>4 DEF SnapshotRow
  <2>7. BufferInv'
    BY <1>2, <2>1, <2>4, <2>5 DEF SnapshotRow, BufferInv
  <2> QED BY <2>6, <2>7
<1>3. CASE \E f \in Faces : DetectFace(f)
  <2>1. TypeOK'
    BY <1>3 DEF DetectFace
  <2>2. BufferInv'
    BY <1>3 DEF DetectFace, BufferInv
  <2> QED BY <2>1, <2>2
<1>4. CASE \E h \in Half : SetFaceRect(h)
  <2>1. PICK h \in Half : SetFaceRect(h)
    BY <1>4
  <2>2. faceRect' \in CGRect
    BY <2>1 DEF SetFaceRect, CGRect
  <2>3. TypeOK'
    BY <2>1, <2>2 DEF SetFaceRect
  <2>4. BufferInv'
    BY <2>1 DEF SetFaceRect, BufferInv
  <2> QED BY <2>3, <2>4
<1>5. CASE TellManager
  BY <1>5 DEF TellManager, BufferInv
<1>6. CASE \E h \in Half : SetMeshRect(h)
  <2>1. PICK h \in Half : SetMeshRect(h)
    BY <1>6
  <2>2. meshRect' \in CGRect
    BY <2>1 DEF SetMeshRect, CGRect
  <2>3. TypeOK'
    BY <2>1, <2>2 DEF SetMeshRect
  <2>4. BufferInv'
    BY <2>1 DEF SetMeshRect, BufferInv
  <2> QED BY <2>3, <2>4
<1>7. CASE FinishBlock
  <2>1. NoImage \in Image /\ NoBlock \in Block
    BY NothingThere
  <2>2. TypeOK'
    BY <1>7, <2>1 DEF FinishBlock
  <2>3. BufferInv'
    BY <1>7 DEF FinishBlock, BufferInv
  <2> QED BY <2>2, <2>3
<1> QED BY <1>1, <1>2, <1>3, <1>4, <1>5, <1>6, <1>7 DEF BlockStep

LEMMA TypeInvStutter ==
  ASSUME TypeOK, BufferInv, UNCHANGED vars
  PROVE  TypeOK' /\ BufferInv'
BY DEF TypeOK, BufferInv, vars, detect, video, points, rects

----------------------------------------------------------------------------
(* The invariant of the two queues, and what it gives. *)

PipelineInv == TypeOK /\ BufferInv /\ QueueInv /\ RectInv

LEMMA PipelineInvStep == PipelineInv /\ [Next]_vars => PipelineInv'
<1> SUFFICES ASSUME PipelineInv, [Next]_vars PROVE PipelineInv'
  OBVIOUS
<1>1. TypeOK /\ BufferInv /\ QueueInv /\ RectInv
  BY DEF PipelineInv
<1>2. /\ detect_queue \in Seq(Block) /\ face_detecting \in BOOLEAN
      /\ faceRect \in CGRect /\ meshRect \in CGRect /\ managerRect \in CGRect
      /\ unset \in SUBSET Half
  BY <1>1 DEF TypeOK
<1>3. CASE Camera \/ LandmarkStep
  BY <1>1, <1>2, <1>3, TypeInvLandmark, QueueInvVideo, RectInvVideo
     DEF PipelineInv
<1>4. CASE MeshStep
  BY <1>1, <1>2, <1>4, TypeInvMesh, QueueInvVideo, RectInvVideo DEF PipelineInv
<1>5. CASE BlockStep
  BY <1>1, <1>2, <1>5, TypeInvBlock, QueueInvBlock, RectInvBlock
     DEF PipelineInv
<1>6. CASE UNCHANGED vars
  BY <1>1, <1>6, TypeInvStutter, QueueInvStutter, RectInvStutter
     DEF PipelineInv
<1> QED BY <1>3, <1>4, <1>5, <1>6 DEF Next

THEOREM PipelineInvariant == Spec => []PipelineInv
<1>1. Init => PipelineInv
  BY TypeInvInit, QueueInvInit, RectInvInit DEF PipelineInv
<1> QED BY <1>1, PipelineInvStep, PTL DEF Spec

(* Every variable keeps its type, whatever the interleaving; in particular
   no queue ever reads or writes a row that is not there.                  *)
THEOREM TypeCorrect == Spec => []TypeOK
<1>1. PipelineInv => TypeOK
  BY DEF PipelineInv
<1> QED BY <1>1, PipelineInvariant, PTL

(* face_detecting, a plain BOOL shared by two queues, is YES exactly while
   one detection block waits or runs (mm:93-94, 132).                      *)
THEOREM AtMostOneDetection == Spec => []OneDetection
<1>1. PipelineInv => OneDetection
  BY DEF PipelineInv, QueueInv
<1> QED BY <1>1, PipelineInvariant, PTL

(* Between detections the three copies of the face rectangle agree, and none
   is torn (mm:119-129, FSPipelineManager.m:141-147).                      *)
THEOREM RectanglesAgree == Spec => []RectsInSync
<1>1. PipelineInv => RectsInSync
  <2> SUFFICES ASSUME PipelineInv, ~face_detecting PROVE RectsInSync
    BY DEF RectsInSync
  <2>1. detect_queue \in Seq(Block) /\ OneDetection /\ RectInv
    BY DEF PipelineInv, QueueInv, TypeOK
  <2>2. dpc = "idle"
    BY <2>1 DEF OneDetection, InFlight
  <2> QED BY <2>1, <2>2 DEF RectsInSync, RectInv
<1> QED BY <1>1, PipelineInvariant, PTL

----------------------------------------------------------------------------
(* The mesh filter's pointer: once it is set it stays set, so the app cannot
   die of it later.                                                        *)

PointsInv == /\ facePoints = "NULL" => keyPoints.num_of_points = 0
             /\ vpc = "crashed" => facePoints = "NULL"

(* Only an app that has never marked a face can be taken down by the missing
   points (FSFaceMeshFilter.m:38, FSPipelineManager.m:155).                *)
THEOREM NoLateCrash == Spec => []CrashOnlyBeforeFirstPoints
<1>1. Init => PointsInv
  BY DEF Init, PointsInv
<1>2. TypeOK /\ PointsInv /\ [Next]_vars => PointsInv'
  <2> SUFFICES ASSUME TypeOK, PointsInv, [Next]_vars PROVE PointsInv'
    OBVIOUS
  <2>0. keyPoints \in [num_of_points : {0, 71}, current : BOOLEAN]
    BY DEF TypeOK, KeyPoints
  <2> USE DEF PointsInv, points, video
  <2>1. CASE Camera
    <3>1. /\ keyPoints'.num_of_points = keyPoints.num_of_points
          /\ vpc' = "landmark" /\ facePoints' = facePoints
      BY <2>0, <2>1 DEF Camera, NewFrame
    <3> QED BY <3>1
  <2>2. CASE PredictShape
    BY <2>2 DEF PredictShape
  <2>3. CASE ReadPoints
    BY <2>3 DEF ReadPoints
  <2>4. CASE EmptyFrame \/ LockPixels \/ CopyRow \/ TestDetecting
             \/ DispatchDetection \/ TestFaceRect
             \/ (\E h \in Half : ReadFaceRect(h))
    BY <2>4 DEF EmptyFrame, LockPixels, CopyRow, TestDetecting,
       DispatchDetection, TestFaceRect, ReadFaceRect
  <2>5. CASE PassThrough \/ StartMesh \/ (\E h \in Half : ReadCorners(h))
             \/ DrawMesh
    BY <2>5 DEF PassThrough, StartMesh, ReadCorners, DrawMesh
  <2>6. CASE BlockStep
    BY <2>6 DEF BlockStep, StartBlock, SnapshotRow, DetectFace, SetFaceRect,
       TellManager, SetMeshRect, FinishBlock
  <2>7. CASE UNCHANGED vars
    BY <2>7 DEF vars
  <2> QED BY <2>1, <2>2, <2>3, <2>4, <2>5, <2>6, <2>7
             DEF Next, LandmarkStep, MeshStep
<1>3. PointsInv => CrashOnlyBeforeFirstPoints
  BY DEF PointsInv, CrashOnlyBeforeFirstPoints
<1> QED BY <1>1, <1>2, <1>3, TypeCorrect, PTL DEF Spec

----------------------------------------------------------------------------
(* The detection service. *)

LEMMA ServiceInit == Init => Service!DSInit
BY DEF Init, Service!DSInit, phase, published, Alive, RectOf, Half

\* The video queue can only ask, or die.
LEMMA ServiceVideo ==
  ASSUME PipelineInv, Camera \/ LandmarkStep \/ MeshStep
  PROVE  [Service!DSNext]_(Service!dsvars)
<1> USE DEF Service!dsvars, phase, published, Alive, rects, detect
<1>1. CASE DispatchDetection
  <2>1. ~face_detecting /\ face_detecting' = TRUE /\ vpc' = "rect"
    BY <1>1 DEF DispatchDetection, PipelineInv, QueueInv
  <2>2. dpc = "idle" /\ vpc = "dispatch"
    BY <1>1, <2>1 DEF DispatchDetection, PipelineInv, QueueInv, TypeOK,
       OneDetection, InFlight
  <2>3. UNCHANGED <<dpc, unset, meshRect>>
    BY <1>1 DEF DispatchDetection
  <2>4. Service!Request
    BY <2>1, <2>2, <2>3 DEF Service!Request
  <2> QED BY <2>4 DEF Service!DSNext
<1>2. CASE ReadPoints
  <2>1. vpc = "warp" /\ UNCHANGED <<face_detecting, dpc, unset, meshRect>>
    BY <1>2 DEF ReadPoints
  <2>2. CASE facePoints = "NULL"
    <3>1. Service!Die
      BY <1>2, <2>1, <2>2 DEF Service!Die, ReadPoints
    <3> QED BY <3>1 DEF Service!DSNext
  <2>3. CASE facePoints # "NULL"
    BY <1>2, <2>1, <2>3 DEF ReadPoints
  <2> QED BY <2>2, <2>3
<1>3. CASE Camera \/ (LandmarkStep /\ ~DispatchDetection)
           \/ (MeshStep /\ ~ReadPoints)
  <2>1. UNCHANGED <<face_detecting, dpc, unset, meshRect>>
    BY <1>3 DEF Camera, NewFrame, LandmarkStep, EmptyFrame, LockPixels,
       CopyRow, TestDetecting, TestFaceRect, ReadFaceRect, PredictShape,
       MeshStep, PassThrough, StartMesh, ReadCorners, DrawMesh
  <2>2. vpc # "crashed" /\ vpc' # "crashed"
    BY <1>3 DEF Camera, NewFrame, LandmarkStep, EmptyFrame, LockPixels,
       CopyRow, TestDetecting, TestFaceRect, ReadFaceRect, PredictShape,
       MeshStep, PassThrough, StartMesh, ReadCorners, DrawMesh
  <2> QED BY <2>1, <2>2
<1> QED BY <1>1, <1>2, <1>3 DEF LandmarkStep, MeshStep

\* The detection queue publishes with the last half it stores, and releases.
LEMMA ServiceBlock ==
  ASSUME PipelineInv, BlockStep
  PROVE  [Service!DSNext]_(Service!dsvars)
<1> USE DEF Service!dsvars, phase, published, Alive, rects, video
<1>0. OneDetection /\ RectInv /\ TypeOK
  BY DEF PipelineInv, QueueInv
<1>1. detect_queue \in Seq(Block) /\ OneDetection /\ RectInv /\ TypeOK
  BY <1>0 DEF TypeOK
<1>2. dpc # "idle" => face_detecting
  BY <1>1 DEF OneDetection, InFlight
<1>3. CASE StartBlock
  <2>1. dpc = "idle" /\ dpc' = "snapshot"
        /\ UNCHANGED <<vpc, face_detecting, unset, meshRect>>
    BY <1>3 DEF StartBlock
  <2> QED BY <2>1
<1>4. CASE SnapshotRow \/ (\E f \in Faces : DetectFace(f))
  <2>1. /\ dpc \in {"snapshot", "detect"}
        /\ dpc' \in {"snapshot", "detect", "setFaceRect"}
        /\ UNCHANGED <<vpc, face_detecting, meshRect>>
    BY <1>4 DEF SnapshotRow, DetectFace
  <2> QED BY <2>1
<1>5. CASE \E h \in Half : SetFaceRect(h)
  <2>1. /\ dpc = "setFaceRect" /\ dpc' \in {"setFaceRect", "tell"}
        /\ UNCHANGED <<vpc, face_detecting, meshRect>>
    BY <1>5 DEF SetFaceRect
  <2> QED BY <2>1
<1>6. CASE TellManager
  <2>1. /\ dpc = "tell" /\ dpc' = "setMeshRect" /\ unset' = Half
        /\ UNCHANGED <<vpc, face_detecting, meshRect>>
    BY <1>6 DEF TellManager
  <2>2. Whole(meshRect)
    BY <1>1, <2>1 DEF RectInv
  <2>3. (CHOOSE h \in unset' : TRUE) \in Half
    BY <2>1 DEF Half
  <2>4. published' = published
    BY <2>1, <2>2, <2>3 DEF Whole, Half
  <2> QED BY <2>1, <2>4
<1>7. CASE \E h \in Half : SetMeshRect(h)
  <2>1. PICK h \in Half : SetMeshRect(h)
    BY <1>7
  <2>2. /\ dpc = "setMeshRect" /\ h \in unset /\ unset' = unset \ {h}
        /\ meshRect' = [meshRect EXCEPT ![h] = managerRect[h]]
        /\ dpc' = IF unset' = {} THEN "done" ELSE "setMeshRect"
        /\ UNCHANGED <<vpc, face_detecting>> /\ Alive
    BY <2>1 DEF SetMeshRect
  <2>3. meshRect \in CGRect /\ managerRect \in CGRect /\ unset \subseteq Half
    BY <1>1 DEF TypeOK
  <2>4. CASE unset' = {}
    <3>1. meshRect' \in CGRect
      BY <2>2, <2>3 DEF CGRect
    <3>2. published' \in Faces
      BY <2>2, <2>4, <3>1 DEF CGRect, Half
    <3>3. Service!Publish
      BY <1>2, <2>2, <2>4, <3>2 DEF Service!Publish, Service!Faces, Faces
    <3> QED BY <3>3 DEF Service!DSNext
  <2>5. CASE unset' # {}
    <3> DEFINE old == CHOOSE g \in unset : TRUE
               new == CHOOSE g \in unset' : TRUE
    <3>1. old \in unset
      BY <2>2
    <3>2. new \in unset'
      BY <2>5
    <3>3. meshRect'[new] = meshRect[new]
      BY <2>2, <2>3, <3>2 DEF CGRect
    <3>4. meshRect[new] = meshRect[old]
      BY <1>1, <2>2, <3>1, <3>2 DEF RectInv
    <3>5. published' = published
      BY <2>2, <2>5, <3>3, <3>4
    <3> QED BY <2>2, <2>5, <3>5
  <2> QED BY <2>4, <2>5
<1>8. CASE FinishBlock
  <2>1. /\ dpc = "done" /\ dpc' = "idle" /\ face_detecting' = FALSE
        /\ UNCHANGED <<vpc, unset, meshRect>> /\ Alive
    BY <1>8 DEF FinishBlock
  <2>2. Service!Release
    BY <1>2, <2>1 DEF Service!Release
  <2> QED BY <2>2 DEF Service!DSNext
<1> QED BY <1>3, <1>4, <1>5, <1>6, <1>7, <1>8 DEF BlockStep

(* The two queues implement the detection service: one request at a time, one
   result per request, taken whole (FSFaceLandmarkFilter.mm:92-133).       *)
THEOREM ImplementsService == Spec => ServiceSafety
<1>1. PipelineInv /\ [Next]_vars => [Service!DSNext]_(Service!dsvars)
  <2> SUFFICES ASSUME PipelineInv, [Next]_vars
               PROVE  [Service!DSNext]_(Service!dsvars)
    OBVIOUS
  <2>1. CASE UNCHANGED vars
    BY <2>1 DEF vars, rects, detect, Service!dsvars, phase, published, Alive
  <2> QED BY <2>1, ServiceVideo, ServiceBlock DEF Next
<1> QED BY <1>1, ServiceInit, PipelineInvariant, PTL
        DEF Spec, ServiceSafety, Service!DSSafety

----------------------------------------------------------------------------
(* The image and the detector's copy of it. *)

\* A live block's image holds no frame older than the block's, and while the
\* video queue is past its copy loop all rows show the frame in process.
FrameInv ==
  /\ vpc = "copy" => \A r \in 1 .. row - 1 : image_buffer[r] = frame
  /\ vpc \in LandmarkPlaces \ {"landmark", "copy"} =>
       \A r \in 1 .. Len(image_buffer) : image_buffer[r] = frame
  /\ \A i \in 1 .. Len(detect_queue) :
       /\ detect_queue[i].frame <= frame
       /\ detect_queue[i].live =>
            \A r \in 1 .. Len(image_buffer) :
              image_buffer[r] >= detect_queue[i].frame
  /\ dpc # "idle" => block.frame <= frame
  /\ dpc # "idle" /\ block.live =>
       /\ \A r \in 1 .. Len(image_buffer) : image_buffer[r] >= block.frame
       /\ \A r \in 1 .. Len(imageData) :
            (dpc = "snapshot" => r < drow) => imageData[r] >= block.frame

(* With frames of one size only, a block's pointer into image_buffer stays
   valid from its dispatch to its end (mm:66-69, 85, 103).                 *)
THEOREM PointerStaysGood == Spec => []BufferAlive
<1>1. Init => BufferAlive
  BY DEF Init, BufferAlive
<1>2. TypeOK /\ BufferInv /\ BufferAlive /\ [Next]_vars => BufferAlive'
  <2> SUFFICES ASSUME TypeOK, BufferInv, BufferAlive, OneSize, [Next]_vars
               PROVE  /\ dpc' # "idle" => block'.live
                      /\ \A i \in 1 .. Len(detect_queue') : detect_queue'[i].live
    BY DEF BufferAlive, OneSize
  <2>0. /\ dpc # "idle" => block.live
        /\ \A i \in 1 .. Len(detect_queue) : detect_queue[i].live
        /\ detect_queue \in Seq(Block)
    BY DEF BufferAlive, TypeOK
  <2>1. CASE LockPixels
    <3>1. input.height \in Heights \ {0} /\ dpc' = dpc
      <4>1. input.height \in Heights \cup {0} /\ input.height > 0
        BY <2>1 DEF LockPixels, TypeOK
      <4> QED BY <2>1, <4>1, HeightNat DEF LockPixels
    <3>2. CASE UNCHANGED <<block, detect_queue>>
      BY <2>0, <3>1, <3>2
    <3>3. CASE SizeDiffers(input.height)
      <4>1. dpc = "idle"
        <5> SUFFICES ASSUME dpc # "idle" PROVE FALSE
          OBVIOUS
        <5>1. block.height > 0 /\ Len(image_buffer) = block.height
          BY <2>0 DEF BufferInv
        <5>2. block.height \in Heights \cup {0}
          BY DEF TypeOK, Block
        <5>3. block.height \in Heights \ {0}
          BY <5>1, <5>2, HeightNat
        <5> QED BY <3>1, <3>3, <5>1, <5>3 DEF OneSize, SizeDiffers
      <4>2. Len(detect_queue) = 0
        <5> SUFFICES ASSUME Len(detect_queue) # 0 PROVE FALSE
          OBVIOUS
        <5>0. 1 \in 1 .. Len(detect_queue) /\ detect_queue[1] \in Block
          BY <2>0
        <5>1. /\ detect_queue[1].height > 0
              /\ Len(image_buffer) = detect_queue[1].height
          BY <2>0, <5>0 DEF BufferInv
        <5>2. detect_queue[1].height \in Heights \cup {0}
          BY <5>0 DEF Block
        <5>3. detect_queue[1].height \in Heights \ {0}
          BY <5>1, <5>2, HeightNat
        <5> QED BY <3>1, <3>3, <5>1, <5>3 DEF OneSize, SizeDiffers
      <4>3. Len(detect_queue') = 0
        BY <2>1, <3>3, <4>2 DEF LockPixels, SetSize
      <4> QED BY <3>1, <4>1, <4>3
    <3> QED BY <2>1, <3>2, <3>3 DEF LockPixels, SetSize
  <2>2. CASE DispatchDetection
    BY <2>0, <2>2 DEF DispatchDetection, detect
  <2>3. CASE StartBlock
    <3>1. /\ detect_queue # << >> /\ block' = detect_queue[1]
          /\ detect_queue' = Tail(detect_queue)
      BY <2>3 DEF StartBlock
    <3>2. block'.live
      BY <2>0, <3>1
    <3>3. \A i \in 1 .. Len(detect_queue') : detect_queue'[i].live
      <4>1. Len(detect_queue) \in Nat
        BY <2>0
      <4>2. \A i \in 1 .. Len(detect_queue') :
              /\ i + 1 \in 1 .. Len(detect_queue)
              /\ detect_queue'[i] = detect_queue[i + 1]
        BY <2>0, <3>1, <4>1
      <4> QED BY <2>0, <4>2
    <3> QED BY <3>2, <3>3
  <2>4. CASE Camera \/ MeshStep \/ UNCHANGED vars
    <3>1. UNCHANGED <<detect_queue, dpc, block>>
      BY <2>4 DEF Camera, NewFrame, MeshStep, PassThrough, StartMesh,
         ReadPoints, ReadCorners, DrawMesh, vars, detect
    <3> QED BY <2>0, <3>1
  <2>5. CASE LandmarkStep /\ ~LockPixels /\ ~DispatchDetection
    <3>1. UNCHANGED <<detect_queue, dpc, block>>
      BY <2>5 DEF LandmarkStep, EmptyFrame, CopyRow, TestDetecting,
         TestFaceRect, ReadFaceRect, PredictShape, detect
    <3> QED BY <2>0, <3>1
  <2>6. CASE BlockStep /\ ~StartBlock
    <3>1. /\ detect_queue' = detect_queue
          /\ dpc' # "idle" => dpc # "idle" /\ block' = block
      BY <2>6 DEF BlockStep, SnapshotRow, DetectFace, SetFaceRect,
         TellManager, SetMeshRect, FinishBlock
    <3> QED BY <2>0, <3>1
  <2> QED BY <2>1, <2>2, <2>3, <2>4, <2>5, <2>6 DEF Next
<1>3. PipelineInv => TypeOK /\ BufferInv
  BY DEF PipelineInv
<1> QED BY <1>1, <1>2, <1>3, PipelineInvariant, PTL DEF Spec

LEMMA FrameInvInit == Init => FrameInv
<1> SUFFICES ASSUME Init PROVE FrameInv
  OBVIOUS
<1>1. vpc = "idle" /\ dpc = "idle" /\ detect_queue = << >>
  BY DEF Init
<1> QED BY <1>1 DEF FrameInv, LandmarkPlaces

LEMMA FrameInvVideo ==
  ASSUME TypeOK, BufferInv, FrameInv, Camera \/ LandmarkStep \/ MeshStep
  PROVE  FrameInv'
<1>1. /\ frame \in Frames /\ frame \in Nat
      /\ \A i \in 1 .. Len(detect_queue) : detect_queue[i].frame \in Nat
      /\ block.frame \in Nat /\ detect_queue \in Seq(Block)
  <2>1. frame \in Frames /\ block \in Block /\ detect_queue \in Seq(Block)
    BY DEF TypeOK
  <2>2. Frames \subseteq Nat
    BY MaxFrameAssumption DEF Frames
  <2>3. ASSUME NEW b \in Block PROVE b.frame \in Nat
    BY <2>2 DEF Block
  <2>4. \A i \in 1 .. Len(detect_queue) : detect_queue[i] \in Block
    BY <2>1
  <2> QED BY <2>1, <2>2, <2>3, <2>4
<1>2. CASE Camera
  <2>1. /\ frame' = NextFrame(frame) /\ vpc' = "landmark"
        /\ UNCHANGED <<image_buffer, detect_queue, block, dpc, drow, imageData>>
    BY <1>2 DEF Camera, NewFrame, detect
  <2>2. frame' >= frame /\ frame' \in Nat
    BY <1>1, <2>1, MaxFrameAssumption DEF NextFrame
  <2>3. /\ \A i \in 1 .. Len(detect_queue) : detect_queue[i].frame <= frame'
        /\ dpc # "idle" => block.frame <= frame'
    BY <1>1, <2>2 DEF FrameInv
  <2> QED BY <2>1, <2>3 DEF FrameInv, LandmarkPlaces
<1>3. CASE LockPixels
  <2>1. /\ UNCHANGED <<frame, dpc, drow, imageData>>
        /\ vpc' \in {"copy", "mesh"} /\ row' = 1
    BY <1>3 DEF LockPixels
  <2>2. CASE UNCHANGED <<image_buffer, block, detect_queue>>
    BY <2>1, <2>2 DEF FrameInv, LandmarkPlaces
  <2>3. CASE SizeDiffers(input.height)
    <3>1. /\ block' = [block EXCEPT !.live = FALSE]
          /\ detect_queue' = [i \in 1 .. Len(detect_queue) |->
                                [detect_queue[i] EXCEPT !.live = FALSE]]
      BY <1>3, <2>3 DEF LockPixels, SetSize
    <3>2. ~block'.live /\ block'.frame = block.frame
      BY <3>1 DEF TypeOK, Block
    <3>3. Len(detect_queue) \in Nat /\ Len(detect_queue') = Len(detect_queue)
      BY <1>1, <3>1
    <3>4. ASSUME NEW i \in 1 .. Len(detect_queue')
          PROVE  ~detect_queue'[i].live
                 /\ detect_queue'[i].frame = detect_queue[i].frame
      <4>1. i \in 1 .. Len(detect_queue) /\ detect_queue[i] \in Block
        BY <1>1, <3>3, <3>4
      <4>2. detect_queue'[i] = [detect_queue[i] EXCEPT !.live = FALSE]
        BY <3>1, <4>1
      <4> QED BY <4>1, <4>2 DEF Block
    <3> QED BY <2>1, <3>2, <3>3, <3>4 DEF FrameInv, LandmarkPlaces
  <2> QED BY <1>3, <2>2, <2>3 DEF LockPixels, SetSize
<1>4. CASE CopyRow
  <2>1. /\ UNCHANGED <<frame, detect_queue, block, dpc, drow, imageData, input>>
        /\ image_buffer' = [image_buffer EXCEPT ![row] = frame]
        /\ row' = row + 1 /\ vpc = "copy"
        /\ vpc' = IF row = input.height THEN "test" ELSE "copy"
    BY <1>4 DEF CopyRow, detect
  <2>2. /\ row \in 1 .. input.height /\ input.height \in Nat
        /\ Len(image_buffer) = input.height
    BY <2>1, HeightNat DEF BufferInv, TypeOK
  <2>3. Len(image_buffer') = input.height
    BY <1>1, <2>1, <2>2, ImageRow DEF TypeOK
  <2>4. \A r \in 1 .. input.height :
          image_buffer'[r] = IF r = row THEN frame ELSE image_buffer[r]
    <3>1. PICK k \in Heights \cup {0} : image_buffer \in [1 .. k -> Frames]
      BY DEF TypeOK, Image
    <3>2. k \in Nat /\ Len(image_buffer) = k
      BY <3>1, HeightNat
    <3> QED BY <2>1, <2>2, <3>1, <3>2
  <2>5. \A r \in 1 .. row' - 1 : image_buffer'[r] = frame
    BY <2>1, <2>2, <2>4 DEF FrameInv
  <2>6. /\ \A i \in 1 .. Len(detect_queue) : detect_queue[i].live =>
             \A r \in 1 .. Len(image_buffer') :
               image_buffer'[r] >= detect_queue[i].frame
        /\ dpc # "idle" /\ block.live =>
             \A r \in 1 .. Len(image_buffer') : image_buffer'[r] >= block.frame
    BY <1>1, <2>1, <2>2, <2>3, <2>4 DEF FrameInv
  <2> QED BY <2>1, <2>2, <2>3, <2>5, <2>6 DEF FrameInv, LandmarkPlaces
<1>5. CASE DispatchDetection
  <2> DEFINE b == [height |-> input.height, frame |-> frame, live |-> TRUE]
  <2>1. /\ detect_queue' = Append(detect_queue, b)
        /\ UNCHANGED <<frame, image_buffer, block, dpc, drow, imageData>>
        /\ vpc = "dispatch" /\ vpc' = "rect"
    BY <1>5 DEF DispatchDetection, detect, video
  <2>2. /\ Len(detect_queue') = Len(detect_queue) + 1
        /\ detect_queue'[Len(detect_queue) + 1] = b
        /\ \A i \in 1 .. Len(detect_queue) : detect_queue'[i] = detect_queue[i]
        /\ Len(detect_queue) \in Nat
    <3>1. b \in Block
      BY DEF Block, TypeOK
    <3> QED BY <1>1, <2>1, <3>1
  <2>3. \A r \in 1 .. Len(image_buffer) : image_buffer[r] = frame
    BY <2>1 DEF FrameInv, LandmarkPlaces
  <2>4. \A i \in 1 .. Len(detect_queue') :
          /\ detect_queue'[i].frame <= frame
          /\ detect_queue'[i].live =>
               \A r \in 1 .. Len(image_buffer) :
                 image_buffer[r] >= detect_queue'[i].frame
    BY <1>1, <2>2, <2>3 DEF FrameInv
  <2> QED BY <2>1, <2>3, <2>4 DEF FrameInv, LandmarkPlaces
<1>6. CASE LandmarkStep /\ ~LockPixels /\ ~CopyRow /\ ~DispatchDetection
  <2>1. /\ UNCHANGED <<frame, image_buffer, detect_queue, block, dpc, drow,
                       imageData>>
        /\ vpc' = "mesh" \/ (vpc' \in LandmarkPlaces \ {"landmark", "copy"}
                             /\ vpc \in LandmarkPlaces \ {"landmark", "copy"})
    BY <1>6 DEF LandmarkStep, EmptyFrame, TestDetecting, TestFaceRect,
       ReadFaceRect, PredictShape, detect, video, LandmarkPlaces
  <2> QED BY <2>1 DEF FrameInv, LandmarkPlaces
<1>7. CASE MeshStep
  <2>1. /\ UNCHANGED <<frame, image_buffer, detect_queue, block, dpc, drow,
                       imageData>>
        /\ vpc' \in MeshPlaces \cup {"idle", "crashed"}
    BY <1>7 DEF MeshStep, PassThrough, StartMesh, ReadPoints, ReadCorners,
       DrawMesh, detect, video, MeshPlaces
  <2> QED BY <2>1 DEF FrameInv, LandmarkPlaces, MeshPlaces
<1> QED BY <1>2, <1>3, <1>4, <1>5, <1>6, <1>7

LEMMA FrameInvBlock ==
  ASSUME TypeOK, BufferInv, FrameInv, BlockStep
  PROVE  FrameInv'
<1>1. /\ UNCHANGED <<frame, vpc, image_buffer, row>>
  BY DEF BlockStep, StartBlock, SnapshotRow, DetectFace, SetFaceRect,
     TellManager, SetMeshRect, FinishBlock, video
<1>2. detect_queue \in Seq(Block)
  BY DEF TypeOK
<1>3. CASE StartBlock
  <2>1. /\ detect_queue # << >> /\ block' = detect_queue[1]
        /\ detect_queue' = Tail(detect_queue)
        /\ dpc' = "snapshot" /\ drow' = 1
        /\ imageData' = [r \in 1 .. block'.height |-> 0]
    BY <1>3 DEF StartBlock
  <2>2. /\ \A i \in 1 .. Len(detect_queue') :
             detect_queue'[i] = detect_queue[i + 1]
                /\ i + 1 \in 1 .. Len(detect_queue)
        /\ 1 \in 1 .. Len(detect_queue)
    <3>1. Len(detect_queue) \in Nat
      BY <1>2
    <3> QED BY <1>2, <2>1, <3>1
  <2>3. /\ block'.frame <= frame
        /\ block'.live => \A r \in 1 .. Len(image_buffer) :
                            image_buffer[r] >= block'.frame
    BY <2>1, <2>2 DEF FrameInv
  <2>4. Len(imageData') \in Nat
    <3>1. block' \in Block
      BY <1>2, <2>1
    <3>2. block'.height \in Heights \cup {0} /\ block'.height \in Nat
      BY <3>1, HeightNat DEF Block
    <3> QED BY <2>1, <3>2, ImageNew
  <2>5. \A r \in 1 .. Len(imageData') : ~(r < drow')
    BY <2>1, <2>4
  <2> QED BY <1>1, <2>1, <2>2, <2>3, <2>5 DEF FrameInv
<1>4. CASE SnapshotRow
  <2>1. /\ UNCHANGED <<block, detect_queue>>
        /\ dpc = "snapshot" /\ drow' = drow + 1
        /\ dpc' = IF drow = block.height THEN "detect" ELSE "snapshot"
    BY <1>4 DEF SnapshotRow
  <2>2. /\ drow \in 1 .. block.height /\ block.height \in Nat
        /\ Len(imageData) = block.height
        /\ block.live => Len(image_buffer) = block.height
    BY <2>1, HeightNat DEF BufferInv, TypeOK, Block
  <2>3. ASSUME block.live
        PROVE  \A r \in 1 .. Len(imageData') :
                 r < drow' => imageData'[r] >= block.frame
    <3>1. imageData' = [imageData EXCEPT ![drow] = image_buffer[drow]]
      BY <1>4, <2>3 DEF SnapshotRow
    <3>2. PICK k \in Heights \cup {0} : imageData \in [1 .. k -> Frames]
      BY DEF TypeOK, Image
    <3>3. k = block.height /\ k \in Nat
      BY <2>2, <3>2, HeightNat
    <3>4. Len(imageData') = k
      <4>1. image_buffer[drow] \in Frames
        BY <2>2, <2>3, ImageRead DEF TypeOK
      <4> QED BY <2>2, <3>1, <3>3, <4>1, ImageRow DEF TypeOK
    <3>5. image_buffer[drow] >= block.frame
      BY <2>1, <2>2, <2>3 DEF FrameInv
    <3>6. \A r \in 1 .. k : imageData'[r] =
             IF r = drow THEN image_buffer[drow] ELSE imageData[r]
      BY <3>1, <3>2
    <3>7. \A r \in 1 .. k : r < drow => imageData[r] >= block.frame
      BY <2>1, <2>2, <2>3, <3>3 DEF FrameInv
    <3> QED BY <2>1, <2>2, <3>3, <3>4, <3>5, <3>6, <3>7
  <2>4. ASSUME block.live, dpc' = "detect"
        PROVE  \A r \in 1 .. Len(imageData') : r < drow'
    <3>1. drow = block.height
      BY <2>1, <2>4
    <3>2. Len(imageData') = block.height
      <4>1. image_buffer[drow] \in Frames
        BY <2>2, <2>4, ImageRead DEF TypeOK
      <4>2. imageData' = [imageData EXCEPT ![drow] = image_buffer[drow]]
        BY <1>4, <2>4 DEF SnapshotRow
      <4> QED BY <2>2, <4>1, <4>2, ImageRow DEF TypeOK
    <3> QED BY <2>1, <2>2, <3>1, <3>2
  <2> QED BY <1>1, <2>1, <2>3, <2>4 DEF FrameInv
<1>5. CASE BlockStep /\ ~StartBlock /\ ~SnapshotRow
  <2>1. /\ detect_queue' = detect_queue
        /\ \/ dpc' = "idle"
           \/ /\ UNCHANGED <<block, imageData, drow>>
              /\ dpc \notin {"idle", "snapshot"}
    BY <1>5 DEF BlockStep, DetectFace, SetFaceRect, TellManager, SetMeshRect,
       FinishBlock
  <2> QED BY <1>1, <2>1 DEF FrameInv
<1> QED BY <1>3, <1>4, <1>5

THEOREM FrameInvariant == Spec => []FrameInv
<1>1. TypeOK /\ BufferInv /\ FrameInv /\ [Next]_vars => FrameInv'
  <2> SUFFICES ASSUME TypeOK, BufferInv, FrameInv, [Next]_vars PROVE FrameInv'
    OBVIOUS
  <2>1. CASE UNCHANGED vars
    BY <2>1 DEF FrameInv, vars, detect, video
  <2> QED BY <2>1, FrameInvVideo, FrameInvBlock DEF Next
<1>2. PipelineInv => TypeOK /\ BufferInv
  BY DEF PipelineInv
<1> QED BY <1>1, <1>2, FrameInvInit, PipelineInvariant, PTL DEF Spec

(* What the detector is given may mix rows of several frames, but with frames
   of one size it never shows a frame older than the one it was asked about
   (mm:86-88, 93-103).                                                     *)
THEOREM SnapshotFreshEnough == Spec => []SnapshotNotStale
<1>1. FrameInv /\ BufferAlive => SnapshotNotStale
  BY DEF FrameInv, BufferAlive, SnapshotNotStale
<1> QED BY <1>1, FrameInvariant, PointerStaysGood, PTL

(* The shape predictor is run on the frame in process, all of it (mm:146). *)
THEOREM PredictorSeesThisFrame == Spec => []PredictorSeesFrame
<1>1. FrameInv /\ PipelineInv => PredictorSeesFrame
  BY DEF FrameInv, PipelineInv, BufferInv, PredictorSeesFrame, LandmarkPlaces
<1> QED BY <1>1, FrameInvariant, PipelineInvariant, PTL
=============================================================================
