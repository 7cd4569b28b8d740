---------------------------- MODULE NullPointer ----------------------------
(* C's NULL, which the data structures of the triangulation share. *)
CONSTANT Null
=============================================================================
