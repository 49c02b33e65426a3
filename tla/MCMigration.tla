---------------------------- MODULE MCMigration -----------------------------
(* Imported transactions and symmetry for the run of Migration. *)
EXTENDS Migration, TLC

CONSTANTS b, c

Old(hash, body, replied) == [hash |-> hash, request |-> body, response |-> replied]

\* With an outdated hash; with no request; with neither a hash nor a request.
OldTransactions == {Old(c, b, FALSE), Old(b, Gone, TRUE), Old(Unhashed, Gone, FALSE)}

Symmetry == Permutations(Procs)

=============================================================================
