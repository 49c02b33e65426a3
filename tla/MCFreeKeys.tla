----------------------------- MODULE MCFreeKeys -----------------------------
(* Symmetry for the runs of FreeKeys. *)
EXTENDS FreeKeys, TLC

Symmetry == Permutations(Procs) \cup Permutations(Tokens)

=============================================================================
