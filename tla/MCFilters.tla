----------------------------- MODULE MCFilters ----------------------------
(* The parts of the app around the detection, and the two sides of a       *)
(* triangulation, each explored on its own: frames on their way through    *)
(* the filters, the sliders, the smoothing, searches in a triangulation    *)
(* that is there, and the life of its arrays.                              *)
(*                                                                         *)
(* The searches are in a triangulation of seven triangles, and in one of   *)
(* three that is searched one by one.  The points searched for are         *)
(* corners, points inside, on an edge, outside near the hull, outside of   *)
(* the bounding box and outside of all circles.  Built are triangulations  *)
(* of no points, of too few, of points all on a line, and of three to five *)
(* points, one of them with a duplicate that belongs to no triangle; and   *)
(* segments are given, or holes, or neither, or in BothKinds both.         *)
(*                                                                         *)
(* Two framebuffers are as many as a frame ever holds at a time: with      *)
(* fewer the camera would wait, and with more a framebuffer given out too  *)
(* early would not be missed.  The three faces are wide, narrow, and       *)
(* tilted and partly out of the picture.                                   *)
EXTENDS FrameGraph, FaceWarp, Smoothing, CirclesFind, DelaunayBuild, TLC

VARIABLE which

Large == [points |-> << <<4, 4>>, <<3, 1>>, <<5, 4>>, <<0, 3>>, <<2, 3>>, <<7, 2>>, <<9, 1>> >>,
          triangles |-> << <<1, 2, 3>>, <<1, 5, 2>>, <<1, 4, 5>>, <<2, 6, 3>>,
                           <<2, 5, 4>>, <<2, 7, 6>>, <<3, 6, 7>> >>]
Small == [points |-> << <<0, 0>>, <<8, 0>>, <<4, 7>>, <<4, 2>> >>,
          triangles |-> << <<1, 2, 4>>, <<2, 3, 4>>, <<3, 1, 4>> >>]
MCTriangulations == {Large, Small}
MCQueryPoints == {<<4, 4>>, <<7, 2>>, <<1, 3>>, <<6, 3>>, <<5, 3>>, <<8, 4>>,
                  <<4, 8>>, <<3, 2>>, <<-9, 2>>}

Shape(n, e, ts) == [np |-> n, nedges |-> e, triangles |-> ts]
MCShapes ==
  { Shape(0, 0, << >>), Shape(2, 0, << >>), Shape(3, 2, << >>),
    Shape(3, 3, << <<0, 1, 2>> >>),
    Shape(4, 3, << <<0, 1, 3>> >>),
    Shape(4, 5, << <<0, 1, 2>>, <<0, 2, 3>> >>),
    Shape(4, 6, << <<1, 2, 3>>, <<0, 1, 3>>, <<2, 0, 3>> >>),
    Shape(5, 8, << <<4, 0, 1>>, <<4, 1, 2>>, <<4, 2, 3>>, <<4, 3, 0>> >>) }

OneKind == { [ns |-> 0, nh |-> 0], [ns |-> 1, nh |-> 0], [ns |-> 0, nh |-> 1] }
BothKinds == { [ns |-> 1, nh |-> 1] }

Face(l, r, top, tip) == 19 :> l @@ 24 :> r @@ 27 :> top @@ 30 :> tip
MCLeast == -3
MCPredictions == {Face(0, 9, 4, 5), Face(5, 6, 6, 6), Face(-3, 2, 1, 4)}

----------------------------------------------------------------------------
all == <<which, graphVars, warpVars, smoothVars, vars, buildVars>>

\* What does not change when only one part is explored.
NotGraph == <<which, warpVars, smoothVars, vars, buildVars>>
NotWarp == <<which, graphVars, smoothVars, vars, buildVars>>
NotSmooth == <<which, graphVars, warpVars, vars, buildVars>>
NotFind == <<which, graphVars, warpVars, smoothVars, buildVars>>
NotBuild == <<which, graphVars, warpVars, smoothVars, vars>>

PartsInit ==
  /\ which \in {"graph", "warp", "smooth", "find", "build"}
  /\ InitGraph /\ InitWarp /\ InitSmooth /\ Init /\ InitBuild
  /\ which /= "smooth" => face = Face(5, 6, 6, 6)
  /\ which /= "find" => d = Small
  /\ which /= "build" => request = CHOOSE r \in Requests : TRUE

\* triangulate has ended the program.
Exited == which = "build" /\ stage = "exited" /\ UNCHANGED all

PartsNext ==
  \/ which = "graph" /\ GraphNext /\ UNCHANGED NotGraph
  \/ which = "warp" /\ WarpNext /\ UNCHANGED NotWarp
  \/ which = "smooth" /\ SmoothNext /\ UNCHANGED NotSmooth
  \/ which = "find" /\ Next /\ UNCHANGED NotFind
  \/ which = "build" /\ BuildNext /\ UNCHANGED NotBuild
  \/ Exited

\* The fairness of FrameGraph and of FaceWarp, and a search that has been called
\* runs on.
PartsSpec ==
  /\ PartsInit /\ [][PartsNext]_all
  /\ WF_all(which = "graph" /\ StartCapture /\ UNCHANGED NotGraph)
  /\ WF_all(which = "graph" /\ CaptureFrame /\ UNCHANGED NotGraph)
  /\ WF_all(which = "graph" /\ QueueStep /\ UNCHANGED NotGraph)
  /\ WF_all(which = "warp" /\ Video /\ UNCHANGED NotWarp)
  /\ WF_all(which = "warp" /\ Forward /\ UNCHANGED NotWarp)
  /\ WF_all(which = "find" /\ Search /\ UNCHANGED NotFind)
=============================================================================
