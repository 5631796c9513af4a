-------------------------- MODULE MCRealtimeManager --------------------------
(* Small instances of RealtimeManager. *)
EXTENDS RealtimeManager, TLC

Symmetry == Permutations(Tasks) \cup Permutations(Sockets)
=============================================================================
