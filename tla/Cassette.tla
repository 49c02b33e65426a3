------------------------------ MODULE Cassette ------------------------------
(***************************************************************************)
(* The data of a cassette: the root object of cassette.json                *)
(* (store/models.py) and what the three writing operations of              *)
(* CassetteStore (store/cassette.py) do to it.  A transaction is its id:   *)
(* request_ref and response_ref are functions of the id.                   *)
(***************************************************************************)
EXTENDS Naturals, Sequences

CONSTANTS
    TxIds,          \* transaction ids that uuid4 may hand out
    Fingerprints,   \* values set_test_stack may store
    NoFingerprint,  \* the empty test_stack
    Hooks,          \* names of hook scripts
    Digests,        \* digests of hook scripts
    NoDigest        \* a hook with no entry in hook_digests

ASSUME NullsAreFresh == /\ NoFingerprint \notin Fingerprints
                        /\ NoDigest \notin Digests

Manifest == [txs   : Seq(TxIds),
             stack : Fingerprints \cup {NoFingerprint},
             hooks : [Hooks -> Digests \cup {NoDigest}]]

\* CassetteStore.empty_manifest
EmptyManifest == [txs   |-> << >>,
                  stack |-> NoFingerprint,
                  hooks |-> [h \in Hooks |-> NoDigest]]

\* The arguments of the calls that rewrite the manifest.
AppendCalls == [op : {"append"}, tx : TxIds]
StackCalls  == [op : {"set_test_stack"}, fingerprint : Fingerprints]
HookCalls   == [op : {"set_hook_digests"},
                digests : UNION {[S -> Digests] : S \in SUBSET Hooks \ {{}}}]
Calls       == AppendCalls \cup StackCalls \cup HookCalls

\* The ids a call adds to the manifest.
Tx(c) == IF c.op = "append" THEN {c.tx} ELSE {}

\* What a call makes of the manifest it loaded: append the transaction,
\* replace the fingerprint, or merge the digests over the recorded ones.
Edited(m, c) ==
    CASE c.op = "append"         -> [m EXCEPT !.txs = Append(@, c.tx)]
      [] c.op = "set_test_stack" -> [m EXCEPT !.stack = c.fingerprint]
      [] OTHER -> [m EXCEPT !.hooks =
                     [h \in Hooks |-> IF h \in DOMAIN c.digests
                                      THEN c.digests[h] ELSE m.hooks[h]]]

\* The ids of the transactions a manifest lists.
Ids(m) == {m.txs[i] : i \in DOMAIN m.txs}

=============================================================================
