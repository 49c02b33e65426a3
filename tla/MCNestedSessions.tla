-------------------------- MODULE MCNestedSessions --------------------------
(* Symmetry for the runs of NestedSessions. *)
EXTENDS NestedSessions, TLC

Symmetry == Permutations(Procs) \cup Permutations(Cassettes)

=============================================================================
