# FaceARCamera: specifications, model checking and proofs

The app shows the front camera's picture with a face that has larger eyes and a
slimmer outline. Frames run through a chain of GPUImage filters; one of them copies
each frame for Dlib, which finds the face now and then on a queue of its own and the
feature points in every frame; another lays a Delaunay triangulation over the points
and draws it warped. This directory models that program in TLA+, checks the models
with TLC and proves the most important results with TLAPS.

Source paths below are relative to `src/BBFaceLandmarking/`; `mm` is
`FSFaceLandmarkFilter.mm`. Lines starting with "Mutant:" in the modules introduce a
wrong variant of the definition that follows; each property has one that breaks it.

## 1. The system

### Components

| Component | State it keeps | Operations | What makes it correct |
|---|---|---|---|
| Landmark filter (`mm`) | `image_buffer`, `face_detecting`, `_faceRect`, `_keyPoints` | handle a frame (video queue), detect a face (block on `face_detect_queue`) | one detection at a time; the predictor and the detector see what they should; rectangles whole and in agreement; `face_detecting` always released |
| Pipeline manager (`FSPipelineManager.m`) | the wiring, `faceRect`, `key_points` | wire the filters, forward the rectangle (detection queue) and the points (video queue) | no frame meets half a graph; copies agree with the originals |
| Filters' frame passing (`FSLenFilter.m`, `FSResizeFilter.m`, GPUImage) | targets, reference counts, input and output framebuffers | lock, inform, call and unlock along the chain | no framebuffer lost or given out too early; targets called in their order |
| Mesh filter (`FSFaceMeshFilter.m`) | `_facePoints` (a pointer into the manager), `_faceRect`, intensities | pass a frame through or draw it warped | points there when used, and of this frame; all memory of a frame freed once |
| View controller, settings view | the view, two sliders | start the camera on appearing, forward slider values | restart of the wiring is harmless; sliders and filter agree in the end |
| Smoothing (`mm:151-175`) | `keyPoints`, averaged with their own past, never reset | predict | old points fade, whosever they are; the forehead keeps its place |
| Triangulation (`Delaunay/delaunay.c`) | `delaunay`: points, triangles, neighbours, circles, lists of triangles of each point, flags, stacks | build, destroy, find circles | memory owned once; lists complete; searches sound, complete, and clean behind themselves |
| Integer stack (`Delaunay/istack.c`) | a growing array and a count | push, pop, reset, contains | it is a stack |
| Triangle (`Delaunay/triangle.c`) | the mesh, memory pools, queues of bad triangles, flip stack, event heap, splay tree | triangulate by divide and conquer, incrementally or by sweep line; segments, holes, refinement, output | pools and queues keep their promises; the result is Delaunay, has the segments and lacks the holes |
| Point tools (`Delaunay/nncommon.c`) | none | thin out, range, generate, read, scale | every point averaged, once, with its neighbours only |
| Dlib, GPUImage | external | detector, predictor, image buffer; camera, cache, view | used as they expect |
| App shell | none | | |

### How they interact

* The *main thread* submits the wiring to the video queue each time the view appears,
  then starts the camera, and stores slider values.
* The *video queue* runs one task at a time: the wiring, or a frame that goes depth first
  through len, resize, landmark, mesh and view. The landmark filter hands its points to the
  manager, which hands the mesh filter a pointer to its own copy.
* The *detection queue* runs the blocks that the landmark filter dispatches. A block
  copies out of `image_buffer` through a raw pointer, stores the rectangle in the landmark
  filter, the manager and the mesh filter one after the other, and resets
  `face_detecting`, a plain `BOOL` that the video queue tests.
* The mesh filter calls `delaunay_build`, and `delaunay_destroy` in the same frame.
  `delaunay_build` calls `triangulate`; the searches use two integer stacks.
* `triangulate` runs one phase after the other on one mesh: an algorithm makes it, segments
  are inserted into it, holes carved out of it, arrays written from it. All of them use
  the same primitives on oriented triangles, and locate from two of the phases.

### What is hard

No lock protects what the two queues share. `image_buffer` is refilled before
`face_detecting` is looked at; the rectangle is written by one queue and read twice, in
halves, by the other; the points and the rectangle that belong together travel on
different queues; every way out of a frame handler has its own unlocks; a framebuffer is
unlocked before its users have used it; searches start from what earlier ones left;
triangle's pools are traversed while they are being filled; its meshes are wrong in places
while they are being changed, and segments leave triangles inverted on their way. The
intensities are read twice in a frame while a slider moves. `PROJECT.json` lists these
hazards with their lines.

## 2. The modules

### FacePipeline, DetectionService: the two queues

`FacePipeline` follows a frame through the handlers of the landmark filter and the mesh
filter (variable `vpc`) and a block through the detection (`dpc`). One action is what runs
between two accesses to what the queues share. The rows of a picture are copied one by
one and remember the frame they came from, so that a torn picture is visible. A
rectangle has two halves, origin and size, that are loaded and stored separately in
any order: 32 bytes are not one machine access and the handler reads the instance
variable, not the atomic property. Where the points lie is left out; what is kept is
which frame they were computed from (`current`) and that there are 71 of them. A frame
may be empty (`mm:57`) or come without pixels (`mm:77`). `crashed` is the dereference of
`_facePoints` while it is NULL; nothing happens after it.

| Variables | Code |
|---|---|
| `frame`, `input`, `vpc`, `row` | the frame in `newFrameReadyAtTime` and the place in it |
| `image_buffer`, `face_detecting`, `faceRect`, `keyPoints` | the landmark filter's fields |
| `managerRect`, `key_points` | `FSPipelineManager` `faceRect`, `key_points` |
| `meshRect`, `facePoints`, `output` | `FSFaceMeshFilter` `faceRect`, `facePoints`, what it drew |
| `detect_queue`, `block`, `dpc`, `drow`, `imageData`, `found`, `unset` | blocks waiting, and the running one's locals |

`DetectionService` is what the rest of the program may rely on: a request is looked at,
one whole rectangle is published, the service is free again. `FacePipeline` is shown to
implement it (`ServiceSafety`, with liveness `ServiceSpec`).

### FrameGraph: frames through the filters

Models the layer beneath: targets in the order in which they were added, the stack of
nested `newFrameReady` calls, reference counts, and locks for reading. The wiring task is
done step by step, so that a frame in the middle of it would show; a mutant without the
queue has one. GPUImage's half of the protocol is external: `informTargets` is taken from
`FSLenFilter.m:31-76`, which repeats it. Its camera drops frames while one is being
rendered. `FacePipeline` takes the order of filters from here (`LandmarkFirst`).

### DelaunayBuild: memory of a triangulation

One frame after the other is triangulated. Each array is owned by `tio_in`, `tio_out`,
the `delaunay` or the caller, and is `Null` or an address; two fields may hold the same
address, which is how double frees come about. `stage` is the place in the mesh filter and in
`delaunay_build`. What triangulate returns is chosen
from `Shapes` (how many points, edges and which triangles); the lists of triangles
of each point are then counted, allocated and filled corner by corner as the code does. Input
with fewer than three points ends the program (`triangle.c:14043`), which stays ended.

### CirclesFind: the search for circles

The points and triangles are integer coordinates, the circle test is exact except on the
circle, where every answer is possible, since the code compares rounded doubles. One action is
one step of a loop. A search starts from whatever the last one left in `first_id`, `t_out`
and the flags.

### FaceWarp: sliders and strengths

Beside `FacePipeline`, the same frames from the point of view of the intensities: the main thread
moves sliders and forwards them through the view controller to the mesh filter (two steps, the
change of the slider and the callback); the video queue loads each intensity twice in a frame,
one load at a time, and draws with what it has. The settings view, with its sliders, is made once.
How far a vertex moves with an intensity is left out: it is a table of constants.

### Smoothing: the points over the frames

What the predictor finds, the three points that are made of it, and the average of all 71 with
those of the frame before. The code's coordinates are `CGFloat`s and `* 0.5f` rounds nothing
away, so the model has fractions: a coordinate is a whole number of *parts*, and instead of
halving the sum, each average doubles the number of parts in a half pixel. `Predict` leaves out
that a double has 53 binary digits and begins to round after some forty averages, by less than a
millionth of a pixel. `faded`, a history variable, counts how long a prediction has been the same.
The two coordinates are smoothed alike and one is modelled, for four of the measured points (those
that the forehead is made of) and the forehead's three.

### Mesh, Triangulation, DivConq, Incremental, Sweep, Segments, Holes, Triangulate

The algorithms of `triangle.c`, as `delaunay_build` may ask for them.

| Module | Code |
|---|---|
| `Mesh` | oriented triangles as functions on handles, `sym`, `lnext` and the others, `bond`, `flip`, the two predicates, and `checkmesh`'s and `checkdelaunay`'s tests as operators |
| `Triangulation` | vertices read, arrays written (`writeedges`, `writeneighbors`), and what a right result is: a reference definition that knows nothing of the algorithms |
| `DivConq` | `divconqdelaunay`: sort and halve (`alternateaxes`), two or three vertices, `mergehulls`, `removeghosts` |
| `Incremental` | `incrementaldelaunay`: `locate` with any sample it may draw, `preciselocate`, `insertvertex`, `removebox` |
| `Sweep` | `sweeplinedelaunay`: `check4deadevent`, `circletop`, `rightofhyperbola`, `splay`, `splayinsert`, `frontlocate`, and the two kinds of events |
| `Segments` | `formskeleton`: `insertsegment`, `scoutsegment`, `segmentintersection`, `constrainededge`, `delaunayfixup` |
| `Holes` | `carveholes`: `infecthull`, the search for the holes' points, `plague` |
| `Triangulate` | the composition by the program counter `pc`, and the properties |

`Incremental` states a specification of its own, `IncrementalSpec`, with `Elsewhere` in place of all
the other algorithms: steps that never lead to a place inside of it. `InsertionRight` is proved of that,
and checked in the composition.

One step is one pass through a loop, so that the properties are checked in the middle of
merges, flips and repairs. The recursion is a list of calls to come (`todo`, `fixups`).
In `Sweep` a pointer to an event, which the code keeps in the place of a ghost's origin, is a
sequence of one number; the heap is the set of the events that wait, any first one of which may be
next (`EventHeap` has the array), and the splay tree is a nested record. What is drawn is part of
the input. Heights are square roots: they are integers in units of 1/46, and the inputs were chosen
so that different heights of a sweep differ by one at least. The search points of the tree's
circles are rounded in the same way, which the result must not depend on.
`DelaunayBuild` and `CirclesFind` assume of the arrays what `OutputRight` says of them.

### IStack/Stack, MemoryPool/Pool, BadTriangles/TriangleQueue, EventHeap/EventQueue, VertexSort, PointTools

Data structures and array algorithms. The first four are each the detailed structure with
the abstract one that it implements.

* `IStack`: the array is a function on `0 .. nallocated - 1` with arbitrary leftovers;
  `Stack` is a sequence. The mapping takes the first `n` entries.
* `MemoryPool`: items are pairs of block and place; the stack of dead items is a sequence;
  `held` are the items the callers use and `marked` those that they marked as dead. The
  traversal is triangletraverse, which goes on while it gets dead items (`skipping`).
  `Pool` promises that nothing is handed out twice, that what was given back is handed out
  first, and that a traversal returns what was in use when it began and stayed so, *and
  all that was newly taken since*: plague puts what it finds into the pool that it is
  traversing and depends on this.
* `BadTriangles`: the linked lists and the links between nonempty ones, with the loop of
  `enforcequality` that takes one out, and drops it or puts it back. `TriangleQueue` is a
  queue for each priority. Keys are thousandths; the number of queues is a constant.
* `EventHeap`: the sweep line's heap, whose events know their places, and the list of free
  events; which circles the sweep finds, and which it calls off, is left to chance.
  `EventQueue` is a function from the waiting events to when they are due.
* `VertexSort`: `vertexsort` and `vertexmedian` with any pivot, on arrays with equal vertices.
* `PointTools`: `points_thinlin` and `points_thingrid`; an average is the set of the points
  averaged, so that what is lost or counted twice shows.

Their names are distinct, so that one module can extend several of these systems and explore each
on its own in one run (`MCDataStructures`; `MCFilters` for `FrameGraph`, `FaceWarp`, `Smoothing`,
`CirclesFind` and `DelaunayBuild`), with the very properties that the theorems state. `NullPointer`
is the `Null` that three of them share.

## 3. What is checked

| Run | Question | Result | Distinct states |
|---|---|---|---|
| `pipeline` | With any interleaving of the queues: one detection at a time, rectangles that agree after each, a detector's picture no older than its dispatch, buffers alive, a predictor that sees this frame only, crashes only before the first points, the service implemented? Does a lost face stop being warped, is a found one warped with points of its own frame, do detections end? | holds | 242,955 |
| `filters` | Frames: full graph in each, inputs valid, nothing lost to the cache or kept in it while read, order of filters, every frame shown and the screen refreshed again and again? Sliders obeyed once they rest? Smoothed points in shape, and near where the face is? Searches: flags reset and answers sound, complete for points inside, ended? Builds: nothing leaked or freed twice, points alive, lists in bounds and right? | holds | 37,255 |
| `data_structures` | Are the stack, the pool, the queues and the heap what they promise? Does quicksort sort in bounds? Are the point tools' averages of neighbours, and no point in two? | holds | 302,890 |
| `triangulate` | Bonds mutual at every step, vertices found where they lie and no triangle inverted by their insertion, Delaunay at every stage, the result the Delaunay triangulation, hull and arrays right, holes found from any start and places on the front in any splay tree, ghosts of the sweep's front and circles that wait pointing to each other, all segments there and nothing else, just the holes and concavities gone, everything ends? | holds | 137,790 |
| `face_rect_atomic` | Is the rectangle given to the predictor one that was stored, as `atomic` says? | violated | |
| `mesh_has_points` | Are there points when the mesh filter uses them? | violated | |
| `finds_all` | Does the search find all circles, as its comment says? | violated outside the hull | |
| `holes_freed` | Is everything freed once with segments and holes? | violated | |
| `parts_have_two` | Does the recursion end in its base cases? | violated when all points are at one place | |
| `holes_sought` | Does the search for a hole's point that is outside of the mesh say so? | violated | |
| `points_averaged` | Does `points_thinlin` average all points, as its comment says? | violated | |
| `points_as_given` | Does triangulate return as many points as it was given, as `tio2delaunay` asserts? | violated when segments cross | |

Each property of a passing run has a mutant of the code in the modules that breaks it.

### Findings

* **`face_rect_atomic`** (`mm:140`). `faceRect` is declared atomic, but the handler reads
  `_faceRect` directly and in parts, after having tested it. The predictor can get the
  origin of one rectangle with the size of another, or an empty one.
* **`mesh_has_points`** (`FSFaceMeshFilter.m:38`). When the first detection ends between the
  landmark filter's test of the rectangle and the mesh filter's, the mesh filter has a
  rectangle and no points, and dereferences NULL. `CrashOnlyBeforeFirstPoints` (checked
  and proved) bounds this to the time before the first points ever.
* **`finds_all`** (`delaunay.c:549`). Outside of the convex hull the circles that contain a
  point need not be connected, and only one connected part of them is returned.
* **`holes_freed`** (`delaunay.c:316`). With segments and holes, `tio_in` and `tio_out` share
  the list of holes and both are destroyed, against the warning in `triangle.h:232`.
* **`parts_have_two`** (`triangle.c:9856`). With all points at one place one vertex is left when
  duplicates have gone, and half of one is none: `divconqrecurse` calls itself with one vertex
  for ever.
* **`holes_sought`** (`triangle.c:7737`). `carveholes` makes sure that a hole's point is inside of
  one edge of the hull; locate may start from another, turn around into the outer space and read
  its vertices, which are NULL. The mesh filter gives no holes.
* **`points_averaged`** (`nncommon.c:293`). `points_thinlin` "smoothes the input point array by
  averaging the input data", but the cluster at hand when the loop ends is never written, so that
  an array of one point comes back empty; and a point that is too far for a cluster ends it and
  is in no other (264-277). The app does not call it.
* **`points_as_given`** (`delaunay.c:152`). Where two segments cross, triangulate makes a vertex
  and returns one point more than it was given. `tio2delaunay` asserts that it does not; without
  assertions the triangles name a point that `d->points` does not have. The mesh filter gives no
  segments.

The triangulation keeps the caller's pointer to the points although `delaunay.h` speaks of a deep
copy; the mesh filter frees its points afterwards, so that it is safe (`MemoryRight`).

### What the properties allow

Some of what the code does is not nice and contradicts nothing that the repository says. The models
have it, and the properties are worded so that they hold with it:

* The detector may be given rows of two frames (`mm:86`); `SnapshotNotStale` says only that no row
  is older than the frame that the block was dispatched for.
* A frame of another size frees `image_buffer` under a block that waits (`mm:69`, `mm:103`).
  `BufferAlive` is about sessions of one size, as the app's are, and says that `set_size` is not
  called in these.
* After a face was lost and found again the first meshes may have the points of the old one
  (`FSFaceMeshFilter.m:41`); `PointsKeepUp` says that it does not last.
* Sliders that were never moved show 0.5 and draw with 0 (`SettingView.m:75`). `SlidersObeyed`
  says just this of them.
* While a slider moves a frame may be warped with one strength across and another down
  (`FSFaceMeshFilter.m:104`); `SlidersObeyed` is about the time after.

### Bounds, and why they are enough

* `pipeline`: two faces, so that rectangles can be mixed; frames of two rows, so
  that a copy can be torn, and empty ones; frame numbers up to 3, so that a block can be two
  frames late, and the number goes on at its cap. `BufferAlive` and `SnapshotNotStale` are about
  frames of one height, which is what the capture session delivers; the proofs cover any number
  of rows. The app may crash, so that deadlock is not checked.
* `filters`, frames: two framebuffers are as many as a frame holds at a time, the view appears
  twice. More framebuffers would only hide that one is given out too early. Sliders: two values
  each. Smoothing: three faces, one of them partly out of the picture, in any order for six
  predictions (`MaxParts`); the proofs are for any number.
* `filters`, triangulations: one above the search threshold and one below, nine points: a
  corner, inside, on an edge, outside near and far. The threshold is lowered from 20 to 3;
  `finds_all` keeps 20. Eight results of triangulate: none, too few points, all on a line, and
  three to five points, one of them a duplicate in no triangle. One frame after the
  other can follow without bound; all that one allocates is freed in it.
* `data_structures`: four entries in a stack whose array starts with room for one; two
  blocks of two items; four triangles, three keys and four queues; arrays of up to five vertices at
  three places; five sites, two circles and three times in the heap, enough that an event that is
  called off is replaced by one that has to rise; up to four points with coordinates 0, 1 or NaN.
* `triangulate`: all sets of three or more points in a grid of three by three, and larger sets of
  six and nine points in free position, through divide and conquer and the incremental algorithm;
  duplicates; a rectangle in every order; 19 sets of four to ten points through the sweep line, with
  three repeated series of draws; one and two segments between any points of the grid, long segments through two combs of
  points, crossings, and polygons with concavities and holes. Up to fourteen points, so that merges
  turn several edges and repairs nest. Coordinates are chosen so that crossings are integer.
  With segments no two points are in one place; a hole's point is on no segment and, but for
  `holes_sought`, not outside of the hull within its bounds.

### Fairness

* `FacePipeline`: weak fairness of each queue, since Grand Central Dispatch runs a queue that
  has work and the handlers do not wait for each other; weak fairness of the camera and strong
  fairness of frames with pixels, since the capture session goes on delivering and a failing
  `byteBuffer` is an exception.
* `FrameGraph`: weak fairness of the video queue's steps, the camera and of the main thread's
  return from `viewDidAppear`. Nothing makes the view appear.
* `CirclesFind`: a search that runs goes on; nobody has to call one.
* `FaceWarp`: weak fairness of the video queue, and of the end of a slider's callback. Nobody
  moves a slider, and no face need be there.
* `Smoothing`: none; its properties are invariants.
* `Triangulate`: weak fairness of the next step; the program is sequential.

## 4. What is proved

Each theorem is for every value of the constants that their assumptions allow: any number of
rectangles, frames, framebuffers, triangles, entries, any arrays, pictures and sets of points.

| Module | Theorem | Property | Inductive invariant |
|---|---|---|---|
| `FacePipelineProofs` | `TypeCorrect`, `AtMostOneDetection`, `RectanglesAgree` | `TypeOK`, `OneDetection`, `RectsInSync` | `PipelineInv` |
| | `NoLateCrash`, `PointerStaysGood` | `CrashOnlyBeforeFirstPoints`, `BufferAlive` | `PointsInv`, `BufferInv` |
| | `SnapshotFreshEnough`, `PredictorSeesThisFrame` | `SnapshotNotStale`, `PredictorSeesFrame` | `FrameInv` |
| | `ImplementsService` | `ServiceSafety` | `PipelineInv` |
| `FrameGraphProofs` | `FramesMeetFullGraph`, `InputsAreNew`, `CacheStaysRight`, `LandmarkBeforeMesh` | `FullGraphInFrame`, `InputIsNew`, `CacheRight`, `LandmarkFirst` | `Inv` |
| | `FramesReachView` | `FrameReachesView`, the half of `FramesShown` that is safety | `Inv` |
| `DelaunayProofs` | `MemoryAlwaysRight` | `MemoryRight` | `MemoryInv` |
| | `ListsAlwaysRight` | `ListsRight` | `CornersInv` |
| | `IdsInRange`, `AnswersAreSound` | `TypeOK`, `OnlyContaining` of `CirclesFind` | `SearchInv` |
| `StorageProofs` | `StackTypeCorrect`, `ImplementsStack` | `IsStack` | `StackTypeOK` |
| | `PoolAlwaysRight`, `ImplementsPool` | `IsPool` | `PoolInv` |
| | `AveragesAlwaysRight` | `AveragesRight` | `ThinInv` |
| `QueueProofs` | `QueuesAlwaysRight`, `ImplementsQueues` | `IsPriorityQueue` | `BadInv` |
| | `HeapAlwaysRight`, `ImplementsEventQueue` | `IsEventQueue` | `HeapInv` |
| `VertexSortProofs` | `SortAlwaysRight` | `SortRight` | `SortInv` |
| `SmoothingProofs` | `ForeheadAlwaysInPlace`, `PointsAlwaysFollow` | `ForeheadInPlace`, `PointsFollow` | `SmoothInv` |
| `InsertionProofs` | `InsertionAlwaysRight` | `InsertionRight` | `InsertionInv` |
| | `OthersStayOut` | | |

### The arguments

* `FacePipelineProofs`. `PipelineInv` joins the types with `QueueInv`
  (how `face_detecting`, the queue's length and the block's place go together) and
  `RectInv` (which rectangles have been stored at which place of the block, and that the
  others still agree). One lemma for each part and each side shows that the steps of
  the video queue and of the block keep it. `FrameInv` adds which rows are from which
  frame; it needs `PointerStaysGood`. The service's steps are then found by place: the
  video queue's only step that is not a stutter is the dispatch, the block's are the last store into
  the mesh filter and the reset.
* `FrameGraphProofs`. The wiring task is at each of its steps so many operations away from the full
  graph, and no frame is on the video queue ahead of the first wiring (`GraphInv`). So the calls of a
  frame are a path in that graph, and the top one and its place say how far the frame has come
  (`CallsInv`). And they say who owes an unlock: the reference count of a framebuffer
  is the number of these debts (`LocksInv`), from which it follows that none goes below zero, is
  left at the end, or is zero while someone reads. `ReachedInv`: who was reached is a matter of
  the place, too.
* `DelaunayProofs`, memory. `Owned`: an array is alive just when the field it was allocated for holds
  its address, and nothing was ever freed that was not; the second pointer to the points is the only
  one without an array of its own. `StageInv` says by stage which fields may hold anything. A free is then
  of an array that is there, and at the end no field has one. `CornersInv`, lists: after `c` corners
  the counters, and later the lists, are those of the first `c` corners (`Uses`); a length is
  the number of all corners at a point, so that the second pass stays within it, and the corners are met
  in the order of their triangles.
* `DelaunayProofs`, searches. `FlagsListed`: a triangle's flag is set when it is put on `t_in`, so
  that it is on one of the two stacks at most once, and every flag that is set is in `flagids`,
  which resets them. `FoundRight`: what is on `t_out` has passed the test or is
  the seed. The list of triangles at a point is in order and has none twice (`Ascending`, a
  recursive function, by induction over the number of triangles).
* `StorageProofs`, stack. With the types each operation maps to one of `Stack`; the index below which two
  arrays agree is what matters when realloc moves them.
* `StorageProofs`, pools. `PathInv`: a traversal is never past the item that is taken next, and that one is never
  at the beginning of a block but the first; so a traversal enters only blocks that exist, and what is
  taken while it runs lies before it. Dead, held and untaken items are apart, from which
  every step of the pool is one of `Pool` (the abstract traversal's debt is what lies before `pathitem`).
* `StorageProofs`, point tools. `ClusterInv`: the cluster at hand are the places from its first one to the last
  that was read, and `sum_r` is the length of the way along them. What was written lies before it and has no point in common
  (`WrittenInv`), so that no point is in two averages. In the grid every point has a cell within the arrays, since
  the point with the highest coordinate is moved into the last row; the array is that of
  all cells that have points (`GridInv`), and two points of one cell are at most its width apart.
* `QueueProofs`, bad triangles. The sequences are read off the links by `Chain`, so that a step's effect is
  proved on the links first: enqueueing appends to one sequence and leaves the others, because
  they have nothing in common (`QueuesInv`); dequeueing takes a head. `LinkedIn` is about the
  links between the nonempty queues, and needs nothing of those that empty queues have kept.
* `QueueProofs`, event heap. The places above one are a chain (`Chained`), and so are those that an event
  falls through (`Falling`); along a chain every place but the last gets the event of the next, so that
  none is lost or there twice. An event that replaces a deleted one is in order with all but those
  below it (`OrderDownTo`), whether it went up or not, and sinking puts that right (`FallenInOrder`).
  `HeapInv` adds that an event waits, is free or is handled, and never two of these: what is
  called off is in the heap, and at the place it remembers.
* `VertexSortProofs`. What the calls still have to sort are parts that are apart and in order
  (`Apart`, `InPlace`); two vertices that are not in order are in one part (`InOrder`). `SplitInv`: what the left search has passed is no greater than the pivot, what the right one has
  passed is no less, and on either side something is left that stops it: at first the pivot itself, then
  what was swapped. `NoneLost`: a swap keeps how many vertices there are at each place.
* `SmoothingProofs`. An average moves a point half way to the one that is found: in parts of which there
  are twice as many it is as far from it as before (`HalfAsFar`). So the distance from a prediction that is
  the same again is halved; from another one it is no more than the range, since averages
  stay within it (`HullInv`), which is why the invariant has it. That the forehead is in place is a linear
  relation of the points: what is found has it (`ForeheadMade`), and sums keep it (`AddMeans`, `AddImages`).
* `InsertionProofs`. A `Sound` mesh has mutual bonds, all triangles counterclockwise, and outer space
  only beyond the three sides of the box. The box is around all points, and each of its corners is
  farther in its `Direction` than any other corner of the mesh (`BoxAround`). Turning an edge keeps the mesh
  sound if its quadrilateral is convex, splitting a triangle or an edge does if the vertex is inside of it:
  the bonds are looked up one by one, also where they meet the same triangles. That an edge is only turned
  where that is so has two reasons. A point in the circle of a triangle
  is seen from the vertex opposite to the edge between the edge's ends (an identity of the terms of `InCircle`,
  and the signs of its products). And at a corner of the box, which counts as infinitely far, all others are
  on one side of a line through it, so that turns around it add up. `Tracked`: the walk has
  the vertex on its side of the edge that it has come to; so it cannot stand before a side of the box
  with the vertex beyond, and meets no outer space. `Unboxing`: while the box is taken away, only
  two edges have lost their neighbours, the next one and the one before the last; everything else
  faces a triangle that stays or outer space.
* `InsertionProofs`, `OthersStayOut`: no step of divide and conquer, of segments, holes or output leads into the
  insertion, which is what `IncrementalSpec` supposes of them. The sweep line's steps are not in it (see
  below); they lead to "sweep", "front" and "ghosts" only.

### What the proofs assume

Only the named assumptions on the constants, which TLC evaluates in the runs, and these:

* `PointerStaysGood` and what rests on it are about frames of one size (`OneSize`), as the properties say.
* `MemoryAlwaysRight` assumes `OneKindOnly`, that no call gives both segments and holes: with both,
  the list of holes is freed twice (`holes_freed`). The mesh filter gives neither.
* `ShapesAssumption`: corners of triangles are points, a triangle has three, and three points or more
  have an edge; this is what `OutputRight` says of triangulate. `TriangulationsAssumption` is the same
  for the searches.
* `ThinAssumption`: coordinates are integers, NaN is none. `InputsAssumption`: three points or more, with
  integer coordinates; `triangulate` exits with fewer (`triangle.c:14043`).
* `SmoothingAssumption`: the predictor finds points within a range, as a picture has. Coordinates are
  exact, as said above.
* `NullAssumption`, `TriangsAssumption` and `NullIsNoEvent`: no array, no triangle and no event has the
  address NULL.

Induction over the natural numbers is by least counterexample (`LeastNat`), from the
well-foundedness of the strict subset relation on finite sets, as the library's induction takes
operators that the provers cannot instantiate.

### Only model-checked

* All liveness: `PointsKeepUp`, `FaceLossShows` and the other half of `ServiceSpec`,
  `ViewKeepsShowing`, `SearchEnds`, `SlidersObeyed`, `Ends`. It needs fairness and
  ENABLED, which the prover does not handle.
* `AllFoundInside`: that the circles around a point are connected is plane geometry.
* `Triangulate`'s properties but `InsertionRight`. The module reaches `Sweep`, whose splay tree is a
  recursive operator, so that no theorem can be stated of it as a whole; and one by one:
  `BondsMutual` while hulls are knitted, and `BoundaryRight`, rest on the merge, whose candidates are always
  there because the tangents are right, which is the geometry of convex hulls; `LocallyBest`,
  `DelaunayTriangulation` and what `OutputRight` says of it rest on Delaunay's theorem that edges that are
  locally best are best; `SegmentsRight` and `CarvedRight` rest on these.
* The runs that expect a violation.

## 5. Not modelled

Of the repository's 336,000 lines, some 310,000 are Dlib, which is vendored; the app uses two of
its classes, which are modelled from their use, and almost all of the rest (widgets, solvers,
networks, tests) is never called. The models cover the app's own code and the parts of
`triangle.c` that it can reach.

Of `triangle.c`: refinement and the changes that
splitting bad triangles makes to the mesh, with the flip stack's `undovertex`; conforming segments;
regions; Voronoi output; commands and files (left out of the library build). The app asks for none of
these. Its predicates are exact by adaptive arithmetic; integers stand for it, and there is no
floating point in TLA+. Segments in a set with duplicates are left out: `vertex2tri` of a duplicate
is uninitialized memory (`triangle.c:12212`). That `tio2delaunay` stops at its assertion when crossings
have added points is not an action; that it would is what `points_as_given` shows.

Of the rest: the displacement of each vertex (`FSFaceMeshFilter.m:113-187`) and the clamping to the picture
(41-45) are constants and straight arithmetic; `points_thingrid` converts a NaN to an integer, which is
undefined; ranges, generation and scaling are straight arithmetic; `circle_build2` is another formula for the same circle; Dlib's image
processing, GPUImage's shaders, texture coordinates and layout are not stateful or not there as
source. The metadata delegate (`FSPipelineManager.m:160`) is never called, as the camera's
delegate is not set.

## 6. Plan

Done: everything of the first plan but the quality mesh, and the theorems above. What is left, in this
order:

1. Theorems: that knitting two hulls keeps bonds mutual, from convex hulls on either side; that `Flip`
   keeps subsegments where they are.
2. `Refine`: splitting of encroached segments and bad triangles on top of `TriangleQueue`,
   `Segments` and `Incremental`, with the flip stack and `undovertex`.
