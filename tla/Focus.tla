------------------------------- MODULE Focus --------------------------------
(* The part of a composition that a behaviour follows. *)
VARIABLE focus
=============================================================================
