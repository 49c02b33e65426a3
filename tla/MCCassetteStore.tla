-------------------------- MODULE MCCassetteStore ---------------------------
(* Model values for the runs of CassetteStore. *)
EXTENDS CassetteStore, TLC

Symmetry == Permutations(Writers \ Readers) \cup Permutations(TxIds) \cup Permutations(Hooks)

=============================================================================
