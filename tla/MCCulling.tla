------------------------------ MODULE MCCulling ------------------------------
(* Small instances of Culling for TLC. *)
EXTENDS Culling
==============================================================================
