---- MODULE MCFacePipeline ----
(* Empty frames and frames of two rows, so that a copy can be torn. *)
EXTENDS FacePipeline
====
