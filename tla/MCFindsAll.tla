---- MODULE MCFindsAll ----
(* One more triangle than N_SEARCH_TURNON, which has its real value; the     *)
(* point searched for lies outside of the convex hull.                       *)
EXTENDS CirclesFind

MCTriangulations ==
  {[points |-> << <<4, 4>>, <<3, 1>>, <<5, 4>>, <<0, 3>>, <<2, 3>>, <<7, 2>>,
                  <<9, 1>>, <<7, -8>>, <<9, -7>>, <<10, -1>>, <<11, -1>>,
                  <<8, -4>>, <<-2, 1>>, <<5, 0>>, <<-2, -10>>, <<-1, -7>> >>,
    triangles |-> << <<1, 2, 3>>, <<1, 5, 2>>, <<1, 4, 5>>, <<2, 14, 3>>,
                     <<2, 5, 4>>, <<2, 4, 13>>, <<2, 13, 16>>, <<2, 16, 14>>,
                     <<3, 6, 7>>, <<3, 14, 6>>, <<6, 14, 7>>, <<7, 10, 11>>,
                     <<7, 14, 10>>, <<8, 9, 12>>, <<8, 12, 16>>, <<8, 16, 15>>,
                     <<9, 11, 12>>, <<10, 12, 11>>, <<10, 14, 12>>,
                     <<12, 14, 16>>, <<13, 15, 16>> >>]}
MCQueryPoints == {<<4, 8>>}
====
