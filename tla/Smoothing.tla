------------------------------ MODULE Smoothing -----------------------------
(* The feature points that the landmark filter makes of what the shape     *)
(* predictor finds: three more points on the forehead, and the average of  *)
(* all of them with the points of the frame before, which are never reset. *)
(*                                                                         *)
(* The points are CGFloats and nothing is rounded to whole pixels.  The    *)
(* division by two of each average is modelled as what it is, exactly: a   *)
(* coordinate is a whole number of parts, and every average halves the     *)
(* parts.  Both coordinates are smoothed alike: one is modelled.           *)
EXTENDS Integers

CONSTANTS
  Predictions,      \* what the predictor may find: pixels of the points below
  Least, Greatest,  \* the pixels it may find
  MaxParts          \* bound: no more averages when a half pixel has that many parts

\* The feature points from which those on the forehead, 68 to 70, are made.
\* The others are smoothed like these.
Measured == {19, 24, 27, 30}
Forehead == {68, 69, 70}

ASSUME SmoothingAssumption ==
  /\ Least \in Int /\ Greatest \in Int /\ MaxParts \in Nat
  /\ Predictions \subseteq [Measured -> Least .. Greatest]

VARIABLES
  keyPoints,  \* num_of_points, and where they are in parts of a half pixel
  parts,      \* how many of these make a half pixel
  face,       \* what the predictor found last
  faded       \* history: 2 to the number of frames for which it has been found

smoothVars == <<keyPoints, parts, face, faded>>

InitSmooth ==
  /\ keyPoints = [num_of_points |-> 0, at |-> [i \in Measured \cup Forehead |-> 0]]
  /\ parts = 1
  /\ face \in Predictions
  /\ faded = 1

----------------------------------------------------------------------------
\* In half pixels.
WithForehead(s) ==
  [i \in Measured \cup Forehead |->
     CASE i \in Measured -> 2 * s[i]
       [] i = 68 -> s[19] + s[24]
       [] i = 69 -> 2 * (s[19] + s[24]) - 2 * s[27]
       [] i = 70 -> 2 * (s[19] + s[24]) - 2 * s[30]]

Averaged == keyPoints.num_of_points = 71

\* Mutant: averages the points that the predictor finds, and not the forehead.
Smooth68(found) ==
  [i \in DOMAIN found |->
     IF ~Averaged THEN found[i]
     ELSE IF i \in Forehead THEN 2 * parts * found[i]
     ELSE keyPoints.at[i] + parts * found[i]]

\* In parts of which there are twice as many as before, if there was a before:
\* the sum is the average then.
Smooth(found) ==
  [i \in DOMAIN found |->
     IF Averaged THEN keyPoints.at[i] + parts * found[i] ELSE found[i]]

\* Mutant: keeps the points as they were found first.
PredictRemembersFirst(s) ==
  /\ parts < MaxParts
  /\ keyPoints' = IF Averaged THEN keyPoints
                  ELSE [num_of_points |-> 71, at |-> WithForehead(s)]
  /\ face' = s
  /\ faded' = IF s = face THEN 2 * faded ELSE 2
  /\ UNCHANGED parts

\* The predictor finds s, in a frame with a face rectangle.
Predict(s) ==
  /\ parts < MaxParts
  /\ keyPoints' = [num_of_points |-> 71, at |-> Smooth(WithForehead(s))]
  /\ parts' = IF Averaged THEN 2 * parts ELSE 1
  /\ face' = s
  /\ faded' = IF s = face THEN 2 * faded ELSE 2

\* A frame without: the points stay for the next face, whosever that is.
NoPrediction == UNCHANGED smoothVars

SmoothNext == NoPrediction \/ \E s \in Predictions : Predict(s)

SmoothSpec == InitSmooth /\ [][SmoothNext]_smoothVars

----------------------------------------------------------------------------
(* Properties. *)

Abs(x) == IF x < 0 THEN -x ELSE x

\* The forehead is made before the average and averaged on its own, with a past
\* of its own.  It stays where it belongs above the smoothed face all the same:
\* its top between the brows, and the others the images of points 27 and 30 in
\* it (FSFaceLandmarkFilter.mm:162-174).
ForeheadInPlace ==
  Averaged =>
    LET at == keyPoints.at IN
    /\ 2 * at[68] = at[19] + at[24]
    /\ at[69] = 2 * at[68] - at[27]
    /\ at[70] = 2 * at[68] - at[30]

\* The points of other faces, which are never reset, lose half of their weight
\* with every frame: a face that was found n times in a row is drawn within
\* 1 / 2^n of the predictor's range from where it is, wherever the faces before
\* it were, and however often none was found in between (mm:169-175).
PointsFollow ==
  Averaged =>
    \A i \in Measured :
      faded * Abs(keyPoints.at[i] - 2 * parts * face[i]) <= 2 * parts * (Greatest - Least)
=============================================================================
