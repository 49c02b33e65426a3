---------------------------- MODULE MCWorkspace -----------------------------
(* Symmetry for the runs of Workspace. *)
EXTENDS Workspace, TLC

Symmetry == Permutations(Procs)

=============================================================================
