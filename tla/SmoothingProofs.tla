--------------------------- MODULE SmoothingProofs --------------------------
(***************************************************************************)
(* Proofs about the smoothed points, for every shape predictor and any     *)
(* number of averages.  Two facts carry both: a smoothed point stays       *)
(* within the range of what is smoothed, and each average halves its       *)
(* distance from the point that is averaged in.                            *)
(***************************************************************************)
EXTENDS Smoothing, TLAPS

Points == [Measured \cup Forehead -> Int]

\* A coordinate of x half pixels lies within the predictor's range, in p parts.
InRange(x, p) == 2 * p * Least <= x /\ x <= 2 * p * Greatest

SmoothTypes ==
  /\ keyPoints \in [num_of_points : {0, 71}, at : Points]
  /\ parts \in Nat \ {0} /\ faded \in Nat \ {0}
  /\ face \in Predictions

HullInv == Averaged => \A i \in Measured : InRange(keyPoints.at[i], parts)

SmoothInv == SmoothTypes /\ HullInv /\ ForeheadInPlace /\ PointsFollow

(***************************************************************************)
(* Arithmetic.                                                             *)
(***************************************************************************)
LEMMA Distributes ==
  ASSUME NEW p \in Int, NEW x \in Int, NEW y \in Int
  PROVE  /\ p * (x + y) = p * x + p * y
         /\ p * (x - y) = p * x - p * y
         /\ p * (2 * x) = 2 * (p * x)
         /\ 2 * p * x = 2 * (p * x)
OBVIOUS

LEMMA Monotonic ==
  ASSUME NEW p \in Nat, NEW x \in Int, NEW y \in Int, x <= y
  PROVE  p * x <= p * y
OBVIOUS

LEMMA ProductInt ==
  ASSUME NEW p \in Int, NEW x \in Int
  PROVE  p * x \in Int
OBVIOUS

LEMMA TimesZero ==
  ASSUME NEW p \in Int
  PROVE  p * 0 = 0
OBVIOUS

\* Means and images in a point may be added.
LEMMA AddMeans ==
  ASSUME NEW x \in Int, NEW y \in Int, NEW z \in Int, 2 * x = y + z,
         NEW p \in Int, NEW q \in Int, NEW r \in Int, 2 * p = q + r
  PROVE  2 * (x + p) = (y + q) + (z + r)
OBVIOUS

LEMMA AddImages ==
  ASSUME NEW x \in Int, NEW y \in Int, NEW z \in Int, x = 2 * y - z,
         NEW p \in Int, NEW q \in Int, NEW r \in Int, p = 2 * q - r
  PROVE  x + p = 2 * (y + q) - (z + r)
OBVIOUS

LEMMA AbsOf ==
  ASSUME NEW x \in Int
  PROVE  Abs(x) \in Int /\ Abs(-x) = Abs(x) /\ (x \in Nat => Abs(x) = x)
BY DEF Abs

\* The point s is averaged with x half pixels in p parts: what is left is half
\* as far from s, because it is as far in parts of which there are twice as many.
LEMMA HalfAsFar ==
  ASSUME NEW p \in Int, NEW x \in Int, NEW s \in Int
  PROVE  x + p * (2 * s) - 2 * (2 * p) * s = x - 2 * p * s
<1>1. p * s \in Int /\ p * (2 * s) = 2 * (p * s) /\ 2 * p * s = 2 * (p * s)
  BY Distributes, ProductInt
<1>2. 2 * (2 * p) * s = 4 * (p * s)
  OBVIOUS
<1> QED
  BY <1>1, <1>2

\* Two points within the range are at most the range apart.
LEMMA WithinRange ==
  ASSUME NEW p \in Nat, NEW x \in Int, InRange(x, p), NEW s \in Least .. Greatest
  PROVE  Abs(x - 2 * p * s) <= 2 * p * (Greatest - Least)
<1>1. Least \in Int /\ Greatest \in Int /\ s \in Int /\ Least <= s /\ s <= Greatest
  BY SmoothingAssumption
<1>2. p * Least <= p * s /\ p * s <= p * Greatest
  BY <1>1, Monotonic
<1>3. /\ p * s \in Int /\ p * Least \in Int /\ p * Greatest \in Int
      /\ 2 * p * s = 2 * (p * s)
      /\ 2 * p * Least = 2 * (p * Least) /\ 2 * p * Greatest = 2 * (p * Greatest)
  BY <1>1, Distributes, ProductInt
<1>4. 2 * p * (Greatest - Least) = 2 * (p * Greatest) - 2 * (p * Least)
  <2>1. Greatest - Least \in Int
    BY <1>1
  <2>2. 2 * p * (Greatest - Least) = 2 * (p * (Greatest - Least))
    BY <2>1, Distributes
  <2>3. p * (Greatest - Least) = p * Greatest - p * Least
    BY <1>1, Distributes
  <2> QED
    BY <1>3, <2>2, <2>3
<1>5. 2 * (p * Least) <= x /\ x <= 2 * (p * Greatest)
  BY <1>3 DEF InRange
<1> QED
  BY <1>2, <1>3, <1>4, <1>5 DEF Abs

\* The average of a point within the range with one that is found is within it.
LEMMA AverageInRange ==
  ASSUME NEW p \in Nat, NEW x \in Int, InRange(x, p), NEW s \in Least .. Greatest
  PROVE  InRange(x + p * (2 * s), 2 * p)
<1>1. Least \in Int /\ Greatest \in Int /\ s \in Int /\ Least <= s /\ s <= Greatest
  BY SmoothingAssumption
<1>2. p * Least <= p * s /\ p * s <= p * Greatest
  BY <1>1, Monotonic
<1>3. /\ p * s \in Int /\ p * Least \in Int /\ p * Greatest \in Int
      /\ p * (2 * s) = 2 * (p * s)
      /\ 2 * p * Least = 2 * (p * Least) /\ 2 * p * Greatest = 2 * (p * Greatest)
  BY <1>1, Distributes, ProductInt
<1>4. /\ 2 * (2 * p) * Least = 4 * (p * Least)
      /\ 2 * (2 * p) * Greatest = 4 * (p * Greatest)
  BY <1>1
<1>5. 2 * (p * Least) <= x /\ x <= 2 * (p * Greatest)
  BY <1>3 DEF InRange
<1> QED
  BY <1>2, <1>3, <1>4, <1>5 DEF InRange

(***************************************************************************)
(* The steps.                                                              *)
(***************************************************************************)
LEMMA FoundIn ==
  ASSUME NEW s \in Predictions, NEW i \in Measured
  PROVE  s[i] \in Least .. Greatest /\ s[i] \in Int
BY SmoothingAssumption

\* What is averaged in is a forehead above the face that is found.
LEMMA ForeheadMade ==
  ASSUME NEW s \in Predictions
  PROVE  LET f == WithForehead(s) IN
         /\ f \in Points
         /\ \A i \in Measured : f[i] = 2 * s[i]
         /\ 2 * f[68] = f[19] + f[24]
         /\ f[69] = 2 * f[68] - f[27]
         /\ f[70] = 2 * f[68] - f[30]
<1> DEFINE f == WithForehead(s)
<1>1. s[19] \in Int /\ s[24] \in Int /\ s[27] \in Int /\ s[30] \in Int
  BY FoundIn DEF Measured
<1>2. /\ f[19] = 2 * s[19] /\ f[24] = 2 * s[24] /\ f[27] = 2 * s[27] /\ f[30] = 2 * s[30]
      /\ f[68] = s[19] + s[24]
      /\ f[69] = 2 * (s[19] + s[24]) - 2 * s[27]
      /\ f[70] = 2 * (s[19] + s[24]) - 2 * s[30]
  BY DEF WithForehead, Measured, Forehead
<1>3. \A i \in Measured \cup Forehead : f[i] \in Int
  BY <1>1, <1>2 DEF Measured, Forehead
<1>4. f \in [Measured \cup Forehead -> {f[i] : i \in Measured \cup Forehead}]
  BY DEF WithForehead
<1>5. f \in Points
  BY <1>3, <1>4 DEF Points
<1>6. \A i \in Measured : f[i] = 2 * s[i]
  BY <1>2 DEF Measured
<1> QED
  BY <1>1, <1>2, <1>5, <1>6

\* What the next points are.
LEMMA Averages ==
  ASSUME SmoothTypes, NEW s \in Predictions, Predict(s)
  PROVE  LET f == WithForehead(s)  old == keyPoints.at  new == keyPoints'.at IN
         /\ Averaged' /\ face' = s
         /\ Averaged => /\ parts' = 2 * parts
                        /\ \A i \in Measured \cup Forehead : new[i] = old[i] + parts * f[i]
         /\ ~Averaged => /\ parts' = 1
                         /\ \A i \in Measured \cup Forehead : new[i] = f[i]
<1> DEFINE f == WithForehead(s)
<1>1. DOMAIN f = Measured \cup Forehead
  BY DEF WithForehead
<1>2. keyPoints' = [num_of_points |-> 71, at |-> Smooth(f)]
  BY DEF Predict
<1>3. \A i \in Measured \cup Forehead :
        Smooth(f)[i] = IF Averaged THEN keyPoints.at[i] + parts * f[i] ELSE f[i]
  BY <1>1 DEF Smooth
<1>4. keyPoints'.num_of_points = 71 /\ keyPoints'.at = Smooth(f)
  BY <1>2
<1> QED
  BY <1>3, <1>4 DEF Predict, Averaged

LEMMA TypesKept ==
  ASSUME SmoothTypes, NEW s \in Predictions, Predict(s)
  PROVE  SmoothTypes'
<1> DEFINE f == WithForehead(s)
<1>1. f \in Points
  BY ForeheadMade
<1>2. keyPoints.at \in Points /\ parts \in Int
  BY DEF SmoothTypes
<1>3. \A i \in Measured \cup Forehead : f[i] \in Int /\ keyPoints.at[i] \in Int
  BY <1>1, <1>2 DEF Points
<1>4. \A i \in Measured \cup Forehead : keyPoints.at[i] + parts * f[i] \in Int
  BY <1>2, <1>3, ProductInt
<1>5. DOMAIN f = Measured \cup Forehead
  BY DEF WithForehead
<1>6. Smooth(f) \in Points
  BY <1>3, <1>4, <1>5 DEF Smooth, Points
<1>7. keyPoints' \in [num_of_points : {0, 71}, at : Points]
  BY <1>6 DEF Predict
<1>8. parts' \in Nat \ {0} /\ faded' \in Nat \ {0} /\ face' \in Predictions
  BY DEF Predict, SmoothTypes
<1> QED
  BY <1>7, <1>8 DEF SmoothTypes

LEMMA HullKept ==
  ASSUME SmoothTypes, HullInv, NEW s \in Predictions, Predict(s)
  PROVE  HullInv'
<1> DEFINE f == WithForehead(s)
<1> SUFFICES ASSUME NEW i \in Measured
             PROVE  InRange(keyPoints'.at[i], parts')
  BY DEF HullInv, InRange
<1>1. s[i] \in Least .. Greatest /\ s[i] \in Int /\ f[i] = 2 * s[i]
  BY FoundIn, ForeheadMade
<1>2. keyPoints.at[i] \in Int /\ parts \in Nat
  BY DEF SmoothTypes, Points
<1>3. CASE Averaged
  <2>1. InRange(keyPoints.at[i] + parts * (2 * s[i]), 2 * parts)
    BY <1>1, <1>2, <1>3, AverageInRange DEF HullInv
  <2>2. keyPoints'.at[i] = keyPoints.at[i] + parts * (2 * s[i]) /\ parts' = 2 * parts
    BY <1>1, <1>3, Averages
  <2> QED
    BY <2>1, <2>2
<1>4. CASE ~Averaged
  <2>1. keyPoints'.at[i] = 2 * s[i] /\ parts' = 1
    BY <1>1, <1>4, Averages
  <2>2. InRange(2 * s[i], 1)
    BY <1>1, SmoothingAssumption DEF InRange
  <2> QED
    BY <2>1, <2>2
<1> QED
  BY <1>3, <1>4

LEMMA ForeheadKept ==
  ASSUME SmoothTypes, ForeheadInPlace, NEW s \in Predictions, Predict(s)
  PROVE  ForeheadInPlace'
<1> DEFINE f == WithForehead(s)
           old == keyPoints.at
           new == keyPoints'.at
           I == {19, 24, 27, 30, 68, 69, 70}
<1>1. I = Measured \cup Forehead
  BY DEF Measured, Forehead
<1>2. /\ 2 * f[68] = f[19] + f[24] /\ f[69] = 2 * f[68] - f[27]
      /\ f[70] = 2 * f[68] - f[30]
  BY ForeheadMade
<1>3. \A i \in I : f[i] \in Int /\ old[i] \in Int /\ parts \in Int
  BY <1>1, ForeheadMade DEF SmoothTypes, Points
<1> HIDE DEF f
<1>4. CASE Averaged
  <2> DEFINE g(i) == parts * f[i]
  <2>1. \A i \in I : g(i) \in Int /\ new[i] = old[i] + g(i)
    BY <1>1, <1>3, <1>4, Averages, ProductInt DEF f
  <2>2. /\ 2 * old[68] = old[19] + old[24] /\ old[69] = 2 * old[68] - old[27]
        /\ old[70] = 2 * old[68] - old[30]
    BY <1>4 DEF ForeheadInPlace
  <2>3. 2 * g(68) = g(19) + g(24)
    <3>1. 2 * g(68) = parts * (2 * f[68])
      BY <1>3, Distributes
    <3>2. parts * (f[19] + f[24]) = g(19) + g(24)
      BY <1>3, Distributes
    <3> QED
      BY <1>2, <3>1, <3>2
  <2>4. \A i \in I : 2 * f[68] \in Int /\ parts * (2 * f[68] - f[i]) = 2 * g(68) - g(i)
    <3>1. 2 * f[68] \in Int /\ parts * (2 * f[68]) = 2 * g(68)
      BY <1>3, Distributes
    <3> QED
      BY <1>3, <3>1, Distributes
  <2>5. g(69) = 2 * g(68) - g(27) /\ g(70) = 2 * g(68) - g(30)
    BY <1>2, <2>4
  <2> HIDE DEF g
  <2>6. /\ 2 * new[68] = new[19] + new[24] /\ new[69] = 2 * new[68] - new[27]
        /\ new[70] = 2 * new[68] - new[30]
    <3>1. /\ new[19] = old[19] + g(19) /\ new[24] = old[24] + g(24)
          /\ new[27] = old[27] + g(27) /\ new[30] = old[30] + g(30)
          /\ new[68] = old[68] + g(68) /\ new[69] = old[69] + g(69)
          /\ new[70] = old[70] + g(70)
      BY <2>1
    <3>2. /\ g(19) \in Int /\ g(24) \in Int /\ g(27) \in Int /\ g(30) \in Int
          /\ g(68) \in Int /\ g(69) \in Int /\ g(70) \in Int
      BY <2>1
    <3>3. /\ old[19] \in Int /\ old[24] \in Int /\ old[27] \in Int /\ old[30] \in Int
          /\ old[68] \in Int /\ old[69] \in Int /\ old[70] \in Int
      BY <1>3
    <3>4. 2 * (old[68] + g(68)) = (old[19] + g(19)) + (old[24] + g(24))
      <4>1. /\ old[68] \in Int /\ old[19] \in Int /\ old[24] \in Int
            /\ 2 * old[68] = old[19] + old[24]
        BY <2>2, <3>3
      <4>2. g(68) \in Int /\ g(19) \in Int /\ g(24) \in Int
        BY <3>2
      <4> HIDE DEF old
      <4> QED
        BY <2>3, <4>1, <4>2, AddMeans
    <3>5. old[69] + g(69) = 2 * (old[68] + g(68)) - (old[27] + g(27))
      BY <2>2, <2>5, <3>2, <3>3, AddImages
    <3>6. old[70] + g(70) = 2 * (old[68] + g(68)) - (old[30] + g(30))
      BY <2>2, <2>5, <3>2, <3>3, AddImages
    <3> QED
      BY <3>1, <3>4, <3>5, <3>6
  <2> QED
    BY <2>6 DEF ForeheadInPlace
<1>5. CASE ~Averaged
  <2>1. \A i \in I : new[i] = f[i]
    BY <1>1, <1>5, Averages DEF f
  <2> QED
    BY <1>2, <2>1 DEF ForeheadInPlace
<1> QED
  BY <1>4, <1>5

LEMMA FollowKept ==
  ASSUME SmoothTypes, HullInv, PointsFollow, NEW s \in Predictions, Predict(s)
  PROVE  PointsFollow'
<1> DEFINE f == WithForehead(s)
           R == Greatest - Least
<1> SUFFICES ASSUME NEW i \in Measured
             PROVE  faded' * Abs(keyPoints'.at[i] - 2 * parts' * s[i]) <= 2 * parts' * R
  BY Averages DEF PointsFollow, Abs
<1>1. s[i] \in Least .. Greatest /\ s[i] \in Int /\ f[i] = 2 * s[i]
  BY FoundIn, ForeheadMade
<1>2. keyPoints.at[i] \in Int /\ parts \in Nat /\ faded \in Nat
  BY DEF SmoothTypes, Points
<1>3. Greatest \in Int /\ Least \in Int /\ R \in Nat
  BY <1>1, SmoothingAssumption
<1>4. CASE Averaged
  <2> DEFINE far == Abs(keyPoints.at[i] - 2 * parts * s[i])
             most == 2 * parts * R
  <2>1. /\ keyPoints'.at[i] = keyPoints.at[i] + parts * (2 * s[i])
        /\ parts' = 2 * parts
    BY <1>1, <1>4, Averages
  <2>2. keyPoints'.at[i] - 2 * parts' * s[i] = keyPoints.at[i] - 2 * parts * s[i]
    BY <1>1, <1>2, <2>1, HalfAsFar
  <2>3. 2 * parts' * R = 2 * most /\ most \in Int
    BY <1>2, <1>3, <2>1
  <2>4. far \in Int
    <3>1. 2 * parts \in Int /\ 2 * parts * s[i] \in Int
      BY <1>1, <1>2, ProductInt
    <3> QED
      BY <1>2, <3>1, AbsOf
  <2>5. CASE s = face
    <3>1. faded * far <= most
      BY <1>4, <2>5 DEF PointsFollow
    <3>2. faded * far \in Int /\ 2 * faded * far = 2 * (faded * far)
      BY <1>2, <2>4, ProductInt, Distributes
    <3>3. faded' * far <= 2 * most
      <4> HIDE DEF far, most
      <4>1. faded' = 2 * faded
        BY <2>5 DEF Predict
      <4> QED
        BY <2>3, <3>1, <3>2, <4>1
    <3> QED
      BY <2>2, <2>3, <3>3
  <2>6. CASE s # face
    <3>1. far <= most
      BY <1>1, <1>2, <1>4, WithinRange DEF HullInv
    <3>2. faded' = 2
      BY <2>6 DEF Predict
    <3> HIDE DEF far, most
    <3>3. faded' * far <= 2 * most
      BY <2>3, <2>4, <3>1, <3>2
    <3> QED
      BY <2>2, <2>3, <3>3 DEF far
  <2> QED
    BY <2>5, <2>6
<1>5. CASE ~Averaged
  <2>1. keyPoints'.at[i] = 2 * s[i] /\ parts' = 1
    BY <1>1, <1>5, Averages
  <2>2. Abs(keyPoints'.at[i] - 2 * parts' * s[i]) = 0
    BY <1>1, <2>1 DEF Abs
  <2>3. faded' \in Nat
    BY <1>2 DEF Predict
  <2>4. faded' * 0 = 0
    <3> DEFINE q == faded'
    <3>1. q \in Int
      BY <2>3
    <3> HIDE DEF q
    <3>2. q * 0 = 0
      BY <3>1, TimesZero
    <3> QED
      BY <3>2 DEF q
  <2> QED
    BY <1>3, <2>1, <2>2, <2>4
<1> QED
  BY <1>4, <1>5

(***************************************************************************)
(* The theorems.                                                           *)
(***************************************************************************)
LEMMA InitInv == InitSmooth => SmoothInv
BY DEF InitSmooth, SmoothInv, SmoothTypes, HullInv, ForeheadInPlace, PointsFollow,
       Averaged, Points

LEMMA NextInv == SmoothInv /\ [SmoothNext]_smoothVars => SmoothInv'
<1> SUFFICES ASSUME SmoothInv, [SmoothNext]_smoothVars PROVE SmoothInv'
  OBVIOUS
<1>1. CASE UNCHANGED smoothVars
  BY <1>1 DEF smoothVars, SmoothInv, SmoothTypes, HullInv, InRange, ForeheadInPlace,
              PointsFollow, Averaged, Abs
<1>2. ASSUME NEW s \in Predictions, Predict(s) PROVE SmoothInv'
  BY <1>2, TypesKept, HullKept, ForeheadKept, FollowKept DEF SmoothInv
<1> QED
  BY <1>1, <1>2 DEF SmoothNext, NoPrediction

LEMMA Invariant == SmoothSpec => []SmoothInv
BY InitInv, NextInv, PTL DEF SmoothSpec

(* Whatever the predictor finds, however often, the points on the forehead *)
(* stay the images of the smoothed face (FSFaceLandmarkFilter.mm:162-174). *)
THEOREM ForeheadAlwaysInPlace == SmoothSpec => []ForeheadInPlace
<1>1. SmoothInv => ForeheadInPlace
  BY DEF SmoothInv
<1> QED
  BY <1>1, Invariant, PTL

(* Old points lose half of their weight with each frame, for any predictor *)
(* with a bounded picture and any history (mm:169-175).                    *)
THEOREM PointsAlwaysFollow == SmoothSpec => []PointsFollow
<1>1. SmoothInv => PointsFollow
  BY DEF SmoothInv
<1> QED
  BY <1>1, Invariant, PTL
=============================================================================
