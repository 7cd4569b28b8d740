------------------------------ MODULE FaceWarp -----------------------------
(* How strongly a face is warped.  The main thread shows the settings and  *)
(* forwards what their two sliders are moved to; the video queue reads the *)
(* intensities, and may do so while one of them is stored.  How far each   *)
(* vertex moves with an intensity is left out, and so is where the face    *)
(* is: FacePipeline has the frames and rectangles of the same handlers,    *)
(* and Smoothing the points.                                               *)
EXTENDS Integers, Sequences

CONSTANT Values  \* what a slider may show, in halves of an intensity

ASSUME ValuesAssumption == Values \subseteq 0 .. 2 /\ 1 \in Values

Sliders == {"eye", "face"}

\* The four reads of one frame: x and y of the eyes, x and y of the outline.
Reads == <<"eye", "eye", "face", "face">>

VARIABLES
  visible,    \* is the settings view on the screen?
  slider,     \* what the sliders show
  moved,      \* which of them was ever moved
  calling,    \* the slider whose callback is running, if any
  intensity,  \* what the mesh filter has
  warping,    \* the mesh filter warps the present frame
  loaded,     \* the intensities that it has read in this frame
  drawn       \* those of the last frame; none when it was not warped

settingVars == <<visible, slider, moved, calling, intensity>>
frameVars == <<warping, loaded, drawn>>
warpVars == <<settingVars, frameVars>>

InitWarp ==
  /\ visible = FALSE
  /\ slider = [s \in Sliders |-> 1]
  /\ moved = {} /\ calling = "none"
  /\ intensity = [s \in Sliders |-> 0]
  /\ warping = FALSE /\ loaded = <<>> /\ drawn = <<>>

----------------------------------------------------------------------------
(* The main thread. *)

\* The one settings view is made when the view appears first, and comes back
\* as it was.
ShowSettings ==
  /\ calling = "none"
  /\ ~visible /\ visible' = TRUE
  /\ UNCHANGED <<slider, moved, calling, intensity, frameVars>>

Dismiss ==
  /\ calling = "none"
  /\ visible /\ visible' = FALSE
  /\ UNCHANGED <<slider, moved, calling, intensity, frameVars>>

Move(s, v) ==
  /\ visible /\ calling = "none" /\ v /= slider[s]
  /\ slider' = [slider EXCEPT ![s] = v]
  /\ moved' = moved \cup {s}
  /\ calling' = s
  /\ UNCHANGED <<visible, intensity, frameVars>>

\* Mutant: the view controller forwards both to the eyes.
ForwardToEyes ==
  /\ calling /= "none"
  /\ intensity' = [intensity EXCEPT !["eye"] = slider[calling]]
  /\ calling' = "none"
  /\ UNCHANGED <<visible, slider, moved, frameVars>>

\* The callback stores the value through view controller and manager.
Forward ==
  /\ calling /= "none"
  /\ intensity' = [intensity EXCEPT ![calling] = slider[calling]]
  /\ calling' = "none"
  /\ UNCHANGED <<visible, slider, moved, frameVars>>

----------------------------------------------------------------------------
(* The mesh filter, on the video queue. *)

\* Without a face the frame is passed on as it is.
PassOn ==
  /\ ~warping /\ drawn' = <<>>
  /\ UNCHANGED <<settingVars, warping, loaded>>

StartWarp ==
  /\ ~warping /\ warping' = TRUE
  /\ UNCHANGED <<settingVars, loaded, drawn>>

Load ==
  /\ warping /\ Len(loaded) < Len(Reads)
  /\ loaded' = Append(loaded, intensity[Reads[Len(loaded) + 1]])
  /\ UNCHANGED <<settingVars, warping, drawn>>

Draw ==
  /\ warping /\ Len(loaded) = Len(Reads)
  /\ drawn' = loaded
  /\ warping' = FALSE /\ loaded' = <<>>
  /\ UNCHANGED settingVars

----------------------------------------------------------------------------
Settings ==
  \/ ShowSettings \/ Dismiss \/ Forward
  \/ \E s \in Sliders, v \in Values : Move(s, v)
Video == PassOn \/ StartWarp \/ Load \/ Draw

WarpNext == Settings \/ Video

\* The camera delivers frames and the main thread ends its callbacks; nobody
\* has to move a slider, or to look into the camera.
WarpSpec ==
  /\ InitWarp /\ [][WarpNext]_warpVars
  /\ WF_warpVars(Video) /\ WF_warpVars(Forward)

----------------------------------------------------------------------------
(* Properties. *)

Warped == drawn /= <<>>
Moves == \E s \in Sliders, v \in Values : Move(s, v)

\* Once the sliders rest, every frame is warped evenly, as strongly as the
\* moved ones show, and not at all by those that were never moved: these show
\* 0.5 (SettingView.m:75, 91) while the mesh filter began with 0.  While they
\* move, one frame may mix two strengths (FSFaceMeshFilter.m:104-107).
SlidersObeyed ==
  <>[][~Moves]_warpVars =>
    <>[](Warped => \A r \in 1 .. 4 :
           drawn[r] = IF Reads[r] \in moved THEN slider[Reads[r]] ELSE 0)
=============================================================================
