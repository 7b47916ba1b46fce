--------------------------- MODULE MCSyncServer ---------------------------
(* SyncServer.tla for TLC. *)
EXTENDS SyncServer, TLC

\* Workers are interchangeable, and so are connections.
Symmetry == Permutations(Workers) \cup Permutations(Conns)
=============================================================================
