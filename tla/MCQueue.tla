------------------------------ MODULE MCQueue ------------------------------
(* Queue.tla for TLC: two descriptors tell entries apart. *)
EXTENDS Queue
=============================================================================
