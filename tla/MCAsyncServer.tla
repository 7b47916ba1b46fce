--------------------------- MODULE MCAsyncServer ---------------------------
(* AsyncServer.tla for TLC. *)
EXTENDS AsyncServer, TLC

\* Connections are interchangeable.
Symmetry == Permutations(Conns)
=============================================================================
