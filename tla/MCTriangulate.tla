---------------------------- MODULE MCTriangulate ---------------------------
(* Points alone, for two of the algorithms: all sets of three or more of   *)
(* a grid of three by three, full of points on lines and circles; sets of  *)
(* six and of nine out of ten points that are in no such position, up to   *)
(* four levels of halving; points of the grid two of which are given       *)
(* twice; and the corners of a rectangle whose diagonal goes through a     *)
(* corner of boundingbox's triangle, in every order.  For the sweep line   *)
(* some of the grid's sets and two wider ones, with points given twice:    *)
(* the leftmost edge of the front is covered, vertices fall left and right *)
(* of all of it, and many circles have their tops at one height.           *)
(*                                                                         *)
(* With segments: pairs that meet, cross, overlap or go through vertices,  *)
(* in the grid; a long one through the teeth of two combs, which leaves    *)
(* inverted triangles and reflex corners on its way; crossings in free     *)
(* position; and polygons, as they are given to have holes and concavities *)
(* carved out.  No two points are at one place and no hole's point is on a *)
(* segment, or outside of the hull but within its bounds.                  *)
EXTENDS Triangulate

Mixed(p) == <<(4 * p[1] + 3 * p[2]) % 7, p[1], p[2]>>

Shuffled(S) ==
  [k \in 1 .. Cardinality(S) |->
     CHOOSE p \in S : Cardinality({q \in S : \/ Before(Mixed(q), Mixed(p), 0)
                                             \/ /\ SamePlace(Mixed(q), Mixed(p))
                                                /\ q[2] < p[2]}) = k - 1]

Grid == (0 .. 2) \X (0 .. 2)
Regular == {Shuffled(S) : S \in {T \in SUBSET Grid : Cardinality(T) >= 3}}

Scattered(n) == {<<(5 * i) % 11, (i * i) % 11>> : i \in 1 .. n}
Irregular == {Shuffled(S) : S \in kSubset(6, Scattered(8)) \cup kSubset(9, Scattered(10))}

Repeated == {Shuffled(S) \o <<Shuffled(S)[1], Shuffled(S)[2]>> :
               S \in kSubset(2, Grid) \cup kSubset(4, Grid)}

Rectangle == {<<0, 0>>, <<5, 0>>, <<0, 4>>, <<5, 4>>}
Aligned == {p \in [1 .. 4 -> Rectangle] : Range(p) = Rectangle}

PointsOnly == [points : Regular \cup Irregular \cup Repeated \cup Aligned,
               segments : {<<>>}, holes : {<<>>}, incremental : BOOLEAN, sweepline : {<<>>}]

----------------------------------------------------------------------------
\* Any two segments cross where both coordinates are integers, if doubled.
Scaled(s, n) == [k \in DOMAIN s |-> <<n * s[k][1], n * s[k][2]>>]

Lattice == Scaled(Shuffled(Grid), 15)
InLattice ==
  [points : {Lattice}, holes : {<<>>}, incremental : {FALSE}, sweepline : {<<>>},
   segments : {<<a, b>> : a \in {<<1, 2>>, <<7, 4>>}, b \in (1 .. 9) \X (1 .. 9)}]

Comb == << <<0, 10>>, <<24, 10>>, <<3, 14>>, <<6, 11>>, <<9, 15>>, <<12, 12>>,
           <<15, 15>>, <<18, 11>>, <<21, 14>>, <<4, 6>>, <<8, 9>>, <<12, 5>>,
           <<16, 8>>, <<20, 6>> >>
InComb == [points : {Comb, Reverse(Comb)}, holes : {<<>>}, incremental : {FALSE}, sweepline : {<<>>},
           segments : {<< <<j, k>> >> : j, k \in {1, 2, 13, 14}}]

\* Each crosses the first where both coordinates are integers, if doubled.
Crossing == {<<6, 12>>, <<7, 12>>, <<9, 14>>, <<3, 10>>}
Crossed == [points : {Comb}, holes : {<<>>}, incremental : BOOLEAN, sweepline : {<<>>},
            segments : {<< <<1, 2>>, s>> : s \in Crossing} \cup {<<s, <<2, 1>> >> : s \in Crossing}
                         \cup {<< <<3, 10>>, <<9, 14>>, <<1, 2>> >>}]

\* Segments around the polygon of the points j to k.
Ring(j, k) == [i \in 1 .. k - j + 1 |-> <<j + i - 1, IF i = k - j + 1 THEN j ELSE j + i>>]

Square == << <<0, 0>>, <<12, 0>>, <<12, 12>>, <<0, 12>>, <<4, 4>>, <<8, 4>>, <<8, 8>>,
             <<4, 8>>, <<6, 5>>, <<17, 6>> >>
Frame == [points : {Square}, incremental : BOOLEAN, sweepline : {<<>>},
          segments : {Ring(1, 4) \o Ring(5, 8), Ring(5, 8) \o << <<1, 5>>, <<3, 3>>, <<2, 11>> >>},
          holes : {<<>>, << <<5, 6>> >>, << <<20, 3>>, <<5, 6>>, <<7, 6>> >>,
                   << <<2, 3>>, <<5, 7>> >>}]

Bay == << <<0, 0>>, <<12, 0>>, <<12, 12>>, <<8, 12>>, <<8, 4>>, <<4, 3>>, <<4, 12>>, <<0, 12>> >>
Bays == [points : {Bay, Reverse(Bay)}, segments : {Ring(1, 8), Tail(Ring(1, 8))},
         holes : {<<>>, << <<6, 8>> >>}, incremental : BOOLEAN, sweepline : {<<>>}]

\* In these, and in the grid, two tops of circles differ by a Grain or not at all.
WideSets == {{<<0, 1>>, <<0, 2>>, <<1, 1>>, <<1, 3>>, <<2, 0>>,
              <<3, 0>>, <<3, 1>>, <<4, 2>>, <<4, 4>>},
             {<<0, 2>>, <<0, 3>>, <<1, 1>>, <<1, 4>>, <<2, 1>>,
              <<3, 0>>, <<3, 2>>, <<3, 3>>, <<4, 0>>}}
Draws == {<<"left">>, <<"left", "right">>, <<"none", "left", "right">>}
Slopes == {{<<0, 0>>, <<1, 1>>, <<1, 0>>, <<0, 2>>}, {<<0, 0>>, <<0, 1>>, <<1, 2>>, <<2, 1>>}}
Swept == [points : {Shuffled(S) : S \in WideSets \cup {T \cup {p} : T \in Slopes, p \in Grid}
                                                 \cup {Grid \ {<<1, 1>>, p} : p \in {<<0, 0>>, <<1, 2>>, <<2, 1>>}}}
                     \cup {Append(Shuffled(S), <<3, 0>>) : S \in WideSets},
          segments : {<<>>}, holes : {<<>>}, incremental : {FALSE}, sweepline : Draws]

ManyInputs == PointsOnly \cup Swept \cup InLattice \cup InComb \cup Crossed \cup Frame \cup Bays

\* A hole's point beyond the side on which the search starts from a triangle.
Outside == [points : {<< <<0, 0>>, <<20, 0>>, <<10, 20>>, <<8, 8>> >>},
            segments : {Ring(1, 3)}, holes : {<< <<18, 10>> >>}, incremental : {FALSE}, sweepline : {<<>>}]

\* Two segments that cross, as delaunay_build hands them on.
TwoCross == [points : {Comb}, segments : {<< <<1, 2>>, s>> : s \in Crossing},
             holes : {<<>>}, incremental : {FALSE}, sweepline : {<<>>}]

\* Three points in one place.
OnePlace == [points : {<< <<1, 1>>, <<1, 1>>, <<1, 1>> >>},
             segments : {<<>>}, holes : {<<>>}, incremental : {FALSE}, sweepline : {<<>>}]
=============================================================================
