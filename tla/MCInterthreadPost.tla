------------------------- MODULE MCInterthreadPost -------------------------
(* InterthreadPost.tla for TLC: two posting threads and small rings. *)
EXTENDS InterthreadPost
=============================================================================
