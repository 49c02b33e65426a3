------------------------------ MODULE MCHooks -------------------------------
(* Values and symmetry for the runs of Hooks. *)
EXTENDS Hooks

CONSTANTS i, j, a, b

Call(id, event, tool) == [id |-> id, event |-> event, tool |-> tool]

\* Two ids for one tool, and one of them for a live tool at the other event.
MixedCalls == {Call(i, "PreToolUse", a), Call(j, "PreToolUse", a),
               Call(i, "PostToolUse", b)}

SymmetryOfProcs == Permutations(Procs)

=============================================================================
