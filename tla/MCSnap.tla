------------------------------- MODULE MCSnap --------------------------------
(***************************************************************************)
(* marcel_snap with a setup and one slide, and one frame more than the     *)
(* ring has buffers.                                                       *)
(***************************************************************************)
EXTENDS Snap

OneSlide == {2}
=============================================================================
