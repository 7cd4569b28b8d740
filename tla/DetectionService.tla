-------------------------- MODULE DetectionService --------------------------
(***************************************************************************)
(* What the face detector promises to the mesh that is drawn over the face *)
(* (FSFaceLandmarkFilter.mm:92-133 and FSPipelineManager.m:137-148, seen   *)
(* from outside): at most one request is under way; a request publishes    *)
(* one result, at once and as a whole; the next request is only taken once *)
(* the last one was released.  The app may die at any moment, and then     *)
(* nothing changes any more.                                               *)
(***************************************************************************)
CONSTANTS Rects,  \* the nonempty face rectangles a detection may report
          Zero    \* CGRectZero: no face

VARIABLES phase,      \* of the request: "free", "looking" or "told"
          published,  \* the face rectangle the mesh goes by
          alive       \* the app has not crashed

dsvars == <<phase, published, alive>>

Faces == Rects \cup {Zero}

DSTypeOK == /\ phase \in {"free", "looking", "told"}
            /\ published \in Faces
            /\ alive \in BOOLEAN

DSInit == phase = "free" /\ published = Zero /\ alive = TRUE

\* The video queue hands a frame to the detector.
Request == /\ alive /\ phase = "free"
           /\ phase' = "looking"
           /\ UNCHANGED <<published, alive>>

\* The detector tells the face it found, or that there is none.
Publish == /\ alive /\ phase = "looking"
           /\ phase' = "told"
           /\ published' \in Faces
           /\ UNCHANGED alive

\* The detector can be asked again.
Release == /\ alive /\ phase = "told"
           /\ phase' = "free"
           /\ UNCHANGED <<published, alive>>

Die == /\ alive
       /\ alive' = FALSE
       /\ UNCHANGED <<phase, published>>

DSNext == Request \/ Publish \/ Release \/ Die

\* A request that was taken is answered and released, unless the app dies.
DSFairness == WF_dsvars(Publish) /\ WF_dsvars(Release)

DSSafety == DSInit /\ [][DSNext]_dsvars
DSSpec == DSSafety /\ DSFairness
=============================================================================
