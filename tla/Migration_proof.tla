--------------------------- MODULE Migration_proof ---------------------------
(***************************************************************************)
(* Proofs about Migration and CassetteEdits: whatever appends, tweaks,     *)
(* forks and migrations race and wherever they are cut off, manifests keep *)
(* the order of recording, and what was imported is not lost; and while    *)
(* none overlap, appends stay listed, a migration gives every transaction  *)
(* the key of its own request, and listed transactions, those of forks     *)
(* too, have their files.                                                  *)
(***************************************************************************)
EXTENDS Migration, SequenceTheorems, TLAPS

Hashes == Bodies \cup {Unhashed, Blank}
Tx == [id : Ids, hash : Hashes]

TweakPhases == {"rewrite", "unlinkRequest", "unlinkResponse", "tweakInstall"}
MigratePhases == {"planned", "rehash", "blobRequest", "blobResponse", "migrated", "migrateInstall"}

\* A manifest that lists what was recorded so far, in order.
Listing(log, n) ==
    /\ log \in Seq(Tx)
    /\ \A i \in DOMAIN log : log[i].id <= n
    /\ \A i, j \in DOMAIN log : i < j => log[i].id < log[j].id

IsEdit(r, n) ==
    /\ DOMAIN r = {"phase", "copy", "at", "body", "todo"}
    /\ Listing(r.copy, n)
    /\ r.phase \in TweakPhases => r.at \in DOMAIN r.copy /\ r.body \in Bodies

-----------------------------------------------------------------------------
(* What is done to manifests *)

LEMMA EmptyListing == \A n : Listing(<< >>, n)
<1>1. << >> \in Seq(Tx) /\ DOMAIN << >> = {}
  OBVIOUS
<1> QED
  BY <1>1 DEF Listing

LEMMA ListedTx ==
    ASSUME NEW n, NEW log, Listing(log, n), NEW i \in DOMAIN log
    PROVE  log[i] \in Tx /\ log[i].id \in Ids /\ log[i].id \in Nat /\ log[i].id <= n
<1>1. log[i] \in Tx
  BY DEF Listing
<1>2. log[i].id \in Ids
  BY <1>1 DEF Tx
<1>3. Ids \subseteq Nat
  BY EditsAssumption DEF Ids
<1> QED
  BY <1>1, <1>2, <1>3 DEF Listing

\* Later transactions do not unlist earlier ones.
LEMMA ListingLater ==
    ASSUME NEW n \in Nat, NEW log, Listing(log, n)
    PROVE  Listing(log, n + 1)
BY ListedTx DEF Listing

\* append_transaction
LEMMA ListingAppend ==
    ASSUME NEW n \in Nat, n < MaxTxs, NEW log, Listing(log, n), NEW h \in Hashes
    PROVE  Listing(Append(log, TxOf(n + 1, h)), n + 1)
<1> DEFINE tx == TxOf(n + 1, h)
           new == Append(log, tx)
<1>1. tx \in Tx /\ tx.id = n + 1
  BY EditsAssumption DEF TxOf, Tx, Ids
<1>2. log \in Seq(Tx)
  BY DEF Listing
<1>3. /\ new \in Seq(Tx) /\ Len(new) = Len(log) + 1 /\ new[Len(log) + 1] = tx
      /\ \A i \in 1 .. Len(log) : new[i] = log[i]
  BY <1>1, <1>2, AppendProperties
<1> HIDE DEF new, tx
<1>4. DOMAIN new = 1 .. (Len(log) + 1) /\ DOMAIN log = 1 .. Len(log) /\ Len(log) \in Nat
  BY <1>2, <1>3
<1>5. \A i \in 1 .. Len(log) : log[i].id \in Nat /\ log[i].id <= n
  BY <1>4, ListedTx
<1>6. \A i \in DOMAIN new : new[i].id <= n + 1
  BY <1>1, <1>3, <1>4, <1>5
<1>7. \A i, j \in DOMAIN new : i < j => new[i].id < new[j].id
  BY <1>1, <1>3, <1>4, <1>5 DEF Listing
<1> QED
  BY <1>3, <1>6, <1>7 DEF Listing, new, tx

\* A prefix
LEMMA ListingPrefix ==
    ASSUME NEW n, NEW log, Listing(log, n), NEW k \in 0 .. Len(log)
    PROVE  Listing(SubSeq(log, 1, k), n) /\ Len(SubSeq(log, 1, k)) = k
           /\ \A i \in 1 .. k : SubSeq(log, 1, k)[i] = log[i]
<1>1. log \in Seq(Tx)
  BY DEF Listing
<1>2. /\ SubSeq(log, 1, k) \in Seq(Tx) /\ Len(SubSeq(log, 1, k)) = k
      /\ \A i \in 1 .. k : SubSeq(log, 1, k)[i] = log[i]
  BY <1>1, SubSeqProperties
<1>3. DOMAIN SubSeq(log, 1, k) = 1 .. k /\ 1 .. k \subseteq DOMAIN log
  BY <1>1, <1>2
<1> QED
  BY <1>2, <1>3 DEF Listing

\* A transaction under another hash
LEMMA ListingRehash ==
    ASSUME NEW n, NEW log, Listing(log, n), NEW at \in DOMAIN log, NEW h \in Hashes
    PROVE  Listing([log EXCEPT ![at] = TxOf(log[at].id, h)], n)
<1> DEFINE tx == TxOf(log[at].id, h)
           new == [log EXCEPT ![at] = tx]
<1>1. log \in Seq(Tx) /\ tx \in Tx /\ tx.id = log[at].id
  BY ListedTx DEF Listing, TxOf, Tx
<1>2. new \in Seq(Tx) /\ DOMAIN new = DOMAIN log
  BY <1>1
<1>3. \A i \in DOMAIN log : new[i].id = log[i].id
  BY <1>1
<1> HIDE DEF new
<1>4. Listing(new, n)
  BY <1>2, <1>3 DEF Listing
<1> QED
  BY <1>4 DEF new

\* tweak_transaction
LEMMA ListingKept ==
    ASSUME NEW n, NEW log, Listing(log, n), NEW at \in DOMAIN log, NEW h \in Hashes
    PROVE  Listing(Kept(log, at, h), n)
<1> DEFINE prefix == SubSeq(log, 1, at - 1)
           tx == TxOf(log[at].id, h)
           new == Append(prefix, tx)
<1>1. log \in Seq(Tx) /\ at \in 1 .. Len(log) /\ Len(log) \in Nat /\ DOMAIN log = 1 .. Len(log)
  BY DEF Listing
<1>2. tx \in Tx /\ tx.id = log[at].id
  BY ListedTx DEF TxOf, Tx
<1>3. /\ prefix \in Seq(Tx) /\ Len(prefix) = at - 1
      /\ \A i \in 1 .. at - 1 : prefix[i] = log[i]
  BY <1>1, ListingPrefix DEF Listing
<1> HIDE DEF prefix, tx
<1>4. /\ new \in Seq(Tx) /\ Len(new) = at /\ new[at] = tx
      /\ \A i \in 1 .. at - 1 : new[i] = log[i]
  BY <1>1, <1>2, <1>3, AppendProperties
<1> HIDE DEF new
<1>5. DOMAIN new = 1 .. at /\ \A i \in 1 .. at : new[i].id = log[i].id /\ i \in DOMAIN log
  BY <1>1, <1>2, <1>4
<1>6. Listing(new, n)
  BY <1>4, <1>5 DEF Listing
<1> QED
  BY <1>6 DEF Kept, new, prefix, tx

-----------------------------------------------------------------------------
(* The invariant of the manifests *)

Texts == Bodies \cup {Blank, Gone, TornText}

\* The manifest, that of the fork and every copy an edit has loaded list what
\* was recorded so far, in order, and a tweak is at a transaction of its copy.
ListsInv ==
    /\ appended \in 0 .. MaxTxs /\ version \in {0, 1}
    /\ request \in [Ids -> Texts]
    /\ Listing(manifest, appended)
    /\ "manifest" \in DOMAIN fork /\ Listing(fork.manifest, appended)
    /\ DOMAIN proc = Procs /\ \A p \in Procs : IsEdit(proc[p], appended)

LEMMA ListsAreOrdered == ListsInv => OrderKept
BY DEF ListsInv, Listing, OrderKept

LEMMA InitLists == InitMigration => ListsInv
<1> SUFFICES ASSUME NEW n \in 0 .. MaxImports, NEW old \in [1 .. n -> Imports],
                    InitWith([i \in 1 .. n |-> TxOf(i, old[i].hash)],
                             [id \in Ids |-> IF id <= n THEN old[id].request ELSE Gone],
                             {id \in 1 .. n : old[id].response}),
                    version = IF n = 0 THEN 1 ELSE 0
             PROVE  ListsInv
  BY DEF InitMigration
<1> DEFINE log == [i \in 1 .. n |-> TxOf(i, old[i].hash)]
<1>1. n \in Nat /\ MaxTxs \in Nat /\ n <= MaxTxs /\ \A i \in 1 .. n : i \in Ids
  BY EditsAssumption, MigrationAssumption DEF Ids
<1>2. \A i \in 1 .. n : old[i].hash \in Hashes /\ old[i].request \in Texts
  BY MigrationAssumption DEF Hashes, Texts
<1>3. \A i \in 1 .. n : log[i] \in Tx /\ log[i].id = i
  BY <1>1, <1>2 DEF TxOf, Tx
<1>4. log \in Seq(Tx) /\ DOMAIN log = 1 .. n /\ Len(log) = n
  <2>1. log \in [1 .. n -> Tx]
    BY <1>3
  <2> QED
    BY <1>1, <2>1
<1> HIDE DEF log
<1>5. Listing(log, n)
  BY <1>1, <1>3, <1>4 DEF Listing
<1>6. /\ manifest = log /\ appended = n /\ fork.manifest = << >> /\ "manifest" \in DOMAIN fork
      /\ proc = [p \in Procs |-> Idle] /\ version \in {0, 1}
  BY <1>4 DEF InitWith, NoFork, log
<1>7. request \in [Ids -> Texts]
  <2>1. \A id \in Ids : id <= n => id \in 1 .. n
    BY <1>1 DEF Ids
  <2> QED
    BY <1>2, <2>1 DEF InitWith, Texts
<1>8. \A p \in Procs : IsEdit(proc[p], n)
  BY <1>6, EmptyListing DEF IsEdit, Idle, TweakPhases
<1> QED
  BY <1>1, <1>5, <1>6, <1>7, <1>8, EmptyListing DEF ListsInv

\* An edit that goes on, keeping its copy.
LEMMA EditGoesOn ==
    ASSUME ListsInv, NEW p \in Procs, NEW phase,
           phase \in TweakPhases => proc[p].phase \in TweakPhases,
           \/ Goes(p, phase)
           \/ \E todo : proc' = [proc EXCEPT ![p].phase = phase, ![p].todo = todo]
           \/ proc[p].phase = phase /\ \E todo : proc' = [proc EXCEPT ![p].todo = todo]
    PROVE  DOMAIN proc' = Procs /\ \A q \in Procs : IsEdit(proc'[q], appended)
<1>1. /\ DOMAIN proc' = Procs /\ \A q \in Procs \ {p} : proc'[q] = proc[q]
      /\ DOMAIN proc'[p] = DOMAIN proc[p]
      /\ proc'[p].copy = proc[p].copy /\ proc'[p].at = proc[p].at
      /\ proc'[p].body = proc[p].body /\ proc'[p].phase = phase
  BY DEF ListsInv, IsEdit, Goes
<1>2. IsEdit(proc'[p], appended)
  BY <1>1 DEF ListsInv, IsEdit
<1> QED
  BY <1>1, <1>2 DEF ListsInv

\* An edit that begins, ends or replaces its copy.
LEMMA EditAnew ==
    ASSUME ListsInv, NEW p \in Procs, NEW r, IsEdit(r, appended),
           proc' = [proc EXCEPT ![p] = r]
    PROVE  DOMAIN proc' = Procs /\ \A q \in Procs : IsEdit(proc'[q], appended)
<1>1. DOMAIN proc' = Procs /\ \A q \in Procs : proc'[q] = r \/ proc'[q] = proc[q]
  BY DEF ListsInv
<1> QED
  BY <1>1 DEF ListsInv

LEMMA IdleIsEdit == \A n : IsEdit(Idle, n)
BY EmptyListing DEF IsEdit, Idle, TweakPhases

\* An append begins, or leaves its blobs and raises.
LEMMA AppendLists ==
    ASSUME ListsInv, NEW p \in Procs, NEW body \in Bodies,
           (AppendTx(p, body) /\ UNCHANGED version) \/ AppendRaises(p, body)
    PROVE  ListsInv'
<1>1. /\ appended \in Nat /\ appended < MaxTxs /\ appended' = appended + 1
      /\ appended' \in 0 .. MaxTxs /\ UNCHANGED <<manifest, fork, version>>
  BY EditsAssumption DEF ListsInv, AppendTx, AppendRaises, source, migrationVars
<1>2. \A log : Listing(log, appended) => Listing(log, appended')
  BY <1>1, ListingLater
<1>3. DOMAIN proc' = Procs /\ \A q \in Procs : IsEdit(proc'[q], appended')
  <2>1. CASE AppendTx(p, body)
    <3> DEFINE r == [phase |-> "append", copy |-> Append(manifest, TxOf(appended + 1, body)),
                     at |-> appended + 1, body |-> body, todo |-> << >>]
    <3>1. IsEdit(r, appended')
      BY <1>1, ListingAppend DEF ListsInv, IsEdit, TweakPhases, Hashes
    <3>2. proc' = [proc EXCEPT ![p] = r]
      BY <2>1 DEF AppendTx, Works
    <3> HIDE DEF r
    <3>3. \A q \in Procs : proc'[q] = r \/ proc'[q] = proc[q]
      BY <3>2 DEF ListsInv
    <3> QED
      BY <1>2, <3>1, <3>2, <3>3 DEF ListsInv, IsEdit
  <2>2. CASE AppendRaises(p, body)
    BY <1>2, <2>2 DEF AppendRaises, ListsInv, IsEdit
  <2> QED
    BY <2>1, <2>2
<1>4. request' \in [Ids -> Texts]
  BY DEF ListsInv, AppendTx, AppendRaises, Texts
<1> QED
  BY <1>1, <1>2, <1>3, <1>4 DEF ListsInv

\* The old manifest is renamed away by a call that then is in phase.
LEMMA RetireLists ==
    ASSUME ListsInv, NEW p \in Procs, NEW phase,
           phase \in TweakPhases => proc[p].phase \in TweakPhases,
           Retires, Goes(p, phase), UNCHANGED <<request, fork, appended, version>>
    PROVE  ListsInv'
<1>1. Listing(manifest', appended)
  BY EmptyListing DEF Retires
<1> QED
  BY <1>1, EditGoesOn DEF ListsInv

\* A new manifest takes its place, and the call ends.
LEMMA InstallLists ==
    ASSUME ListsInv, NEW p \in Procs, NEW log, Listing(log, appended),
           Installs(log), Ends(p), UNCHANGED <<request, fork, appended>>, version' \in {0, 1}
    PROVE  ListsInv'
BY EditAnew, IdleIsEdit DEF ListsInv, Installs, Ends

LEMMA RecordLists ==
    ASSUME ListsInv, NEW p \in Procs, Record(p), version' \in {version, 1}
    PROVE  ListsInv'
<1>1. CASE AppendRetire(p)
  <2>1. version' = version \/ version' = 1
    OBVIOUS
  <2>2. "appendInstall" \notin TweakPhases
    BY DEF TweakPhases
  <2>3. Listing(manifest', appended)
    BY <1>1, EmptyListing DEF AppendRetire, Retires
  <2> QED
    BY <1>1, <2>1, <2>2, <2>3, EditGoesOn DEF AppendRetire, ListsInv
<1>2. CASE AppendInstall(p)
  <2>1. Listing(proc[p].copy, appended)
    BY DEF ListsInv, IsEdit
  <2>2. version' \in {0, 1}
    BY DEF ListsInv
  <2> QED
    BY <1>2, <2>1, <2>2, InstallLists DEF AppendInstall
<1> QED
  BY <1>1, <1>2 DEF Record

LEMMA TweakLists ==
    ASSUME ListsInv, NEW p \in Procs,
           Tweak(p) \/ \E at \in Ids, body \in Bodies : TweakLoad(p, at, body), UNCHANGED version
    PROVE  ListsInv'
<1>1. UNCHANGED <<appended, fork>>
  BY DEF Tweak, TweakLoad, TweakRewrite, TweakUnlinkRequest, TweakUnlinkResponse, TweakRetire,
         TweakInstall
<1>2. ASSUME NEW at \in Ids, NEW body \in Bodies, TweakLoad(p, at, body)
      PROVE  ListsInv'
  <2> DEFINE r == [phase |-> "rewrite", copy |-> manifest, at |-> at, body |-> body,
                   todo |-> Suffix(manifest, at)]
  <2>1. IsEdit(r, appended) /\ proc' = [proc EXCEPT ![p] = r] /\ UNCHANGED <<manifest, request>>
    BY <1>2 DEF TweakLoad, Works, ListsInv, IsEdit, source
  <2> HIDE DEF r
  <2> QED
    BY <1>1, <2>1, EditAnew DEF ListsInv
<1>3. CASE TweakRewrite(p)
  <2>1. proc[p].body \in Bodies /\ proc[p].phase \in TweakPhases
    BY <1>3 DEF ListsInv, IsEdit, TweakRewrite, TweakPhases
  <2>2. request' \in [Ids -> Texts]
    BY <1>3, <2>1 DEF ListsInv, TweakRewrite, Texts
  <2> QED
    BY <1>1, <1>3, <2>1, <2>2, EditGoesOn DEF ListsInv, TweakRewrite, source
<1>4. CASE TweakUnlinkRequest(p) \/ TweakUnlinkResponse(p)
  <2>1. proc[p].phase \in TweakPhases /\ UNCHANGED manifest
    BY <1>4 DEF TweakUnlinkRequest, TweakUnlinkResponse, TweakPhases, source
  <2>2. request' \in [Ids -> Texts]
    BY <1>4 DEF ListsInv, TweakUnlinkRequest, TweakUnlinkResponse, Texts
  <2>3. DOMAIN proc' = Procs /\ \A q \in Procs : IsEdit(proc'[q], appended)
    <3>1. CASE TweakUnlinkRequest(p)
      BY <2>1, <3>1, EditGoesOn DEF TweakUnlinkRequest
    <3>2. CASE TweakUnlinkResponse(p)
      <4>1. \E todo : proc' = [proc EXCEPT ![p].phase = "unlinkRequest", ![p].todo = todo]
        BY <3>2 DEF TweakUnlinkResponse
      <4> QED
        BY <2>1, <4>1, EditGoesOn
    <3> QED
      BY <1>4, <3>1, <3>2
  <2> QED
    BY <1>1, <2>1, <2>2, <2>3 DEF ListsInv
<1>5. CASE TweakRetire(p)
  <2>1. proc[p].phase \in TweakPhases
    BY <1>5 DEF TweakRetire, TweakPhases
  <2> QED
    BY <1>5, <2>1, RetireLists DEF TweakRetire
<1>6. CASE TweakInstall(p)
  <2>1. proc[p].phase \in TweakPhases
    BY <1>6 DEF TweakInstall, TweakPhases
  <2>2. /\ Listing(proc[p].copy, appended) /\ proc[p].at \in DOMAIN proc[p].copy
        /\ proc[p].body \in Hashes
    BY <2>1 DEF ListsInv, IsEdit, Hashes
  <2>3. Listing(Kept(proc[p].copy, proc[p].at, proc[p].body), appended)
    BY <2>2, ListingKept
  <2>4. version' \in {0, 1}
    BY DEF ListsInv
  <2> QED
    BY <1>6, <2>3, <2>4, InstallLists DEF TweakInstall
<1> QED
  BY <1>2, <1>3, <1>4, <1>5, <1>6 DEF Tweak

LEMMA ForkLists ==
    ASSUME ListsInv, NEW p \in Procs,
           Fork(p) \/ \E seq \in 0 .. MaxTxs : ForkLoad(p, seq), UNCHANGED version
    PROVE  ListsInv'
<1>1. UNCHANGED <<appended, manifest, request>>
  BY DEF Fork, ForkLoad, ForkMake, ForkCopyRequest, ForkCopyResponse, ForkRetire, ForkInstall, source
<1>2. ASSUME NEW seq \in 0 .. MaxTxs, ForkLoad(p, seq) PROVE ListsInv'
  <2> DEFINE r == [phase |-> "forkMake", copy |-> SubSeq(manifest, 1, seq), at |-> seq,
                   body |-> NoBody, todo |-> [i \in 1 .. seq |-> manifest[i].id]]
  <2>1. Listing(SubSeq(manifest, 1, seq), appended)
    BY <1>2, ListingPrefix DEF ForkLoad, ListsInv
  <2>2. IsEdit(r, appended) /\ proc' = [proc EXCEPT ![p] = r] /\ UNCHANGED fork
    BY <1>2, <2>1 DEF ForkLoad, Works, IsEdit, TweakPhases
  <2> HIDE DEF r
  <2> QED
    BY <1>1, <2>2, EditAnew DEF ListsInv
<1>3. CASE ForkMake(p) \/ ForkCopyRequest(p) \/ ForkCopyResponse(p)
  <2>1. "manifest" \in DOMAIN fork' /\ fork'.manifest = fork.manifest
    BY <1>3 DEF ForkMake, ForkCopyRequest, ForkCopyResponse, ListsInv
  <2>2. DOMAIN proc' = Procs /\ \A q \in Procs : IsEdit(proc'[q], appended)
    <3>1. "forkCopy" \notin TweakPhases /\ "forkResponse" \notin TweakPhases
      BY DEF TweakPhases
    <3>2. CASE ForkMake(p) \/ ForkCopyRequest(p)
      BY <3>1, <3>2, EditGoesOn DEF ForkMake, ForkCopyRequest
    <3>3. CASE ForkCopyResponse(p)
      <4>1. \E todo : proc' = [proc EXCEPT ![p].phase = "forkCopy", ![p].todo = todo]
        BY <3>3 DEF ForkCopyResponse
      <4> QED
        BY <3>1, <4>1, EditGoesOn
    <3> QED
      BY <1>3, <3>2, <3>3
  <2> QED
    BY <1>1, <2>1, <2>2 DEF ListsInv
<1>4. CASE ForkRetire(p)
  <2>1. "manifest" \in DOMAIN fork' /\ Listing(fork'.manifest, appended)
    BY <1>4, EmptyListing DEF ForkRetire, ListsInv
  <2>2. Goes(p, "forkInstall") /\ "forkInstall" \notin TweakPhases
    BY <1>4 DEF ForkRetire, TweakPhases
  <2> QED
    BY <1>1, <2>1, <2>2, EditGoesOn DEF ListsInv
<1>5. CASE ForkInstall(p)
  <2>1. Listing(proc[p].copy, appended)
    BY DEF ListsInv, IsEdit
  <2>2. "manifest" \in DOMAIN fork' /\ fork'.manifest = proc[p].copy
    BY <1>5 DEF ForkInstall, ListsInv
  <2>3. DOMAIN proc' = Procs /\ \A q \in Procs : IsEdit(proc'[q], appended)
    BY <1>5, EditAnew, IdleIsEdit DEF ForkInstall, Ends
  <2> QED
    BY <1>1, <2>1, <2>2, <2>3 DEF ListsInv
<1> QED
  BY <1>2, <1>3, <1>4, <1>5 DEF Fork

LEMMA KillLists ==
    ASSUME ListsInv, NEW p \in Procs, Kill(p, Rewriting(p) \cup Creating(p)), UNCHANGED version
    PROVE  ListsInv'
<1>1. UNCHANGED <<manifest, fork, appended>> /\ request' \in [Ids -> Texts]
  BY DEF Kill, ListsInv, Texts, source
<1>2. DOMAIN proc' = Procs /\ \A q \in Procs : IsEdit(proc'[q], appended)
  BY EditAnew, IdleIsEdit DEF Kill, Ends
<1> QED
  BY <1>1, <1>2 DEF ListsInv

LEMMA MigrateLists ==
    ASSUME ListsInv, NEW p \in Procs,
           Migrate(p) \/ \E preview \in BOOLEAN : MigratePlan(p, preview)
    PROVE  ListsInv'
<1> USE DEF OnlyProc, source
<1>1. UNCHANGED <<appended, fork>>
  BY DEF Migrate, MigratePlan, MigrateRead, MigrateHash, MigrateHashed, EnsureRequest,
         EnsureResponse, PreviewEnds, MigrateBackup, MigrateRetire, MigrateInstall
<1>2. ASSUME NEW preview \in BOOLEAN, MigratePlan(p, preview) PROVE ListsInv'
  <2>1. DOMAIN proc' = Procs /\ \A q \in Procs : IsEdit(proc'[q], appended)
    <3>1. Goes(p, "planned") /\ "planned" \notin TweakPhases
      BY <1>2 DEF MigratePlan, TweakPhases
    <3> QED
      BY <3>1, EditGoesOn
  <2> QED
    BY <1>1, <1>2, <2>1 DEF ListsInv, MigratePlan
<1>3. CASE MigrateRead(p)
  <2> DEFINE r == [phase |-> "rehash", copy |-> manifest, at |-> 1, body |-> NoBody,
                   todo |-> [i \in DOMAIN manifest |-> manifest[i].id]]
  <2>1. UNCHANGED <<manifest, request, version>>
    BY <1>3 DEF MigrateRead, migrationVars
  <2>2. IsEdit(r, appended)
    BY DEF ListsInv, IsEdit, TweakPhases
  <2>3. proc' = [proc EXCEPT ![p] = r] \/ proc' = [proc EXCEPT ![p] = Idle]
    BY <1>3 DEF MigrateRead, Works, Ends
  <2> HIDE DEF r
  <2> QED
    BY <1>1, <2>1, <2>2, <2>3, EditAnew, IdleIsEdit DEF ListsInv
<1>4. CASE MigrateHash(p)
  <2> DEFINE at == proc[p].at
             tx == proc[p].copy[at]
             new == [proc[p].copy EXCEPT ![at] = TxOf(tx.id, Rehashed(tx, request[tx.id]))]
             r == [phase |-> "rehash", copy |-> new, at |-> at + 1, body |-> NoBody,
                   todo |-> proc[p].todo]
  <2>1. UNCHANGED <<manifest, request, version>>
    BY <1>4 DEF MigrateHash, migrationVars
  <2>2. CASE Ends(p)
    BY <1>1, <2>1, <2>2, EditAnew, IdleIsEdit DEF ListsInv, Ends
  <2>3. CASE /\ proc' = [proc EXCEPT ![p] = r]
             /\ request[tx.id] # TornText /\ Rehashed(tx, request[tx.id]) # Unhashed
    <3>1. Listing(proc[p].copy, appended) /\ at \in DOMAIN proc[p].copy
      BY <1>4 DEF MigrateHash, ListsInv, IsEdit
    <3>2. tx \in Tx /\ tx.id \in Ids /\ request[tx.id] \in Texts
      BY <3>1, ListedTx DEF ListsInv
    <3>3. Rehashed(tx, request[tx.id]) \in Hashes
      <4>1. tx.hash \in Hashes
        BY <3>2 DEF Tx
      <4> QED
        BY <2>3, <3>2, <4>1 DEF Rehashed, Hashes, Texts
    <3>4. Listing(new, appended)
      BY <3>1, <3>3, ListingRehash
    <3> HIDE DEF new
    <3>5. IsEdit(r, appended)
      BY <3>4 DEF IsEdit, TweakPhases
    <3> HIDE DEF r
    <3> QED
      BY <1>1, <2>1, <2>3, <3>5, EditAnew DEF ListsInv
  <2> QED
    BY <1>4, <2>2, <2>3 DEF MigrateHash, Works
<1>5. CASE MigrateHashed(p) \/ MigrateBackup(p)
  <2>1. DOMAIN proc' = Procs /\ \A q \in Procs : IsEdit(proc'[q], appended)
    <3>1. (\E phase : Goes(p, phase) /\ phase \notin TweakPhases) \/ Ends(p)
      BY <1>5 DEF MigrateHashed, MigrateBackup, TweakPhases
    <3> QED
      BY <3>1, EditGoesOn, EditAnew, IdleIsEdit DEF Ends
  <2> QED
    BY <1>1, <1>5, <2>1 DEF ListsInv, MigrateHashed, MigrateBackup, migrationVars
<1>6. CASE EnsureRequest(p)
  <2>1. request' \in [Ids -> Texts] /\ UNCHANGED <<manifest, version>>
    BY <1>6 DEF EnsureRequest, ListsInv, Texts
  <2>2. DOMAIN proc' = Procs /\ \A q \in Procs : IsEdit(proc'[q], appended)
    <3>1. Goes(p, "blobResponse") /\ "blobResponse" \notin TweakPhases
      BY <1>6 DEF EnsureRequest, TweakPhases
    <3> QED
      BY <3>1, EditGoesOn
  <2> QED
    BY <1>1, <2>1, <2>2 DEF ListsInv
<1>7. CASE EnsureResponse(p)
  <2>1. \E todo : proc' = [proc EXCEPT ![p].phase = "blobRequest", ![p].todo = todo]
    BY <1>7 DEF EnsureResponse
  <2>2. DOMAIN proc' = Procs /\ \A q \in Procs : IsEdit(proc'[q], appended)
    <3>1. "blobRequest" \notin TweakPhases
      BY DEF TweakPhases
    <3> QED
      BY <2>1, <3>1, EditGoesOn
  <2> QED
    BY <1>1, <1>7, <2>2 DEF ListsInv, EnsureResponse, migrationVars
<1>8. CASE PreviewEnds(p)
  BY <1>1, <1>8, EditAnew, IdleIsEdit DEF ListsInv, PreviewEnds, Ends, migrationVars
<1>9. CASE MigrateRetire(p)
  <2>1. "migrateInstall" \notin TweakPhases
    BY DEF TweakPhases
  <2> QED
    BY <1>9, <2>1, RetireLists DEF MigrateRetire, migrationVars
<1>10. CASE MigrateInstall(p)
  <2>1. Listing(proc[p].copy, appended)
    BY DEF ListsInv, IsEdit
  <2> QED
    BY <1>10, <2>1, InstallLists DEF MigrateInstall
<1> QED
  BY <1>2, <1>3, <1>4, <1>5, <1>6, <1>7, <1>8, <1>9, <1>10 DEF Migrate

LEMMA NextLists ==
    ASSUME ListsInv, [NextMigration]_allVars
    PROVE  ListsInv'
<1>1. ASSUME NEW p \in Procs, EditCalls(p) PROVE ListsInv'
  BY <1>1, AppendLists, RecordLists, TweakLists, ForkLists, KillLists DEF EditCalls, Begins
<1>2. CASE UNCHANGED allVars
  BY <1>2 DEF allVars, vars, source, migrationVars, ListsInv, IsEdit
<1> QED
  BY <1>1, <1>2, AppendLists, MigrateLists DEF NextMigration

\* Manifests are typed and in order in every reachable state.
THEOREM ListsInvariant == SpecMigration => []ListsInv
<1>1. ListsInv /\ [NextMigration]_allVars => ListsInv'
  BY NextLists
<1> QED
  BY InitLists, <1>1, PTL DEF SpecMigration

\* However appends, tweaks, forks and migrations race on a cassette, and
\* wherever they are cut off, its manifest and that of its fork list
\* transactions in the order they were recorded, each once.
THEOREM OrderIsKept == SpecMigration => []OrderKept
BY ListsInvariant, ListsAreOrdered, PTL

-----------------------------------------------------------------------------
(* What was imported survives *)

AppendPhases == {"append", "appendInstall"}
ForkPhases == {"forkMake", "forkCopy", "forkResponse", "forkInstall"}
EditPhases == TweakPhases \cup ForkPhases \cup AppendPhases

\* The manifest of version 0 is the imported one, and appends and edits need
\* version 1 or no file.  If no two calls overlapped, one is under way, a
\* migration sees version 0, and the backup is taken before the manifest goes.
SurvivesInv ==
    /\ there \in BOOLEAN /\ (~there => manifest = << >>)
    /\ \A p \in Procs : proc[p].phase \in TweakPhases => version = 1
    /\ Legacy => manifest = Original /\ \A p \in Procs : proc[p].phase \notin EditPhases
    /\ ~raced =>
          /\ \A p, q \in Procs : proc[p] # Idle /\ proc[q] # Idle => p = q
          /\ \A p \in Procs : proc[p].phase \in MigratePhases => version = 0
          /\ \A p \in Procs : proc[p].phase \in MigratePhases \ {"migrateInstall"} => there
          /\ \A p \in Procs : proc[p].phase \in {"migrated", "migrateInstall"} => backup = Original
          /\ ~Legacy /\ imported # << >> => backup = Original

LEMMA InitSurvives == InitMigration => SurvivesInv
<1> SUFFICES ASSUME NEW n \in 0 .. MaxImports, NEW old \in [1 .. n -> Imports],
                    InitWith([i \in 1 .. n |-> TxOf(i, old[i].hash)],
                             [id \in Ids |-> IF id <= n THEN old[id].request ELSE Gone],
                             {id \in 1 .. n : old[id].response}),
                    version = IF n = 0 THEN 1 ELSE 0, imported = old
             PROVE  SurvivesInv
  BY DEF InitMigration
<1> DEFINE log == [i \in 1 .. n |-> TxOf(i, old[i].hash)]
<1>1. manifest = Original /\ manifest = log /\ there = (log # << >>)
  BY DEF InitWith, Original
<1>2. n = 0 <=> log = << >>
  <2>1. n \in Nat /\ DOMAIN log = 1 .. n
    BY MigrationAssumption
  <2>2. n = 0 => log = << >>
    BY <2>1
  <2>3. n # 0 => 1 \in DOMAIN log
    BY <2>1
  <2> QED
    BY <2>2, <2>3
<1>3. n = 0 => imported = << >>
  BY MigrationAssumption
<1>4. \A p \in Procs : proc[p] = Idle /\ proc[p].phase = "idle"
  BY DEF InitWith, Idle
<1>5. there = (n # 0) /\ version = IF n = 0 THEN 1 ELSE 0
  BY <1>1, <1>2
<1> HIDE DEF log
<1>6. there \in BOOLEAN /\ (~there => manifest = << >>)
  BY <1>1
<1>7. ~Legacy => imported = << >>
  BY <1>3, <1>5 DEF Legacy
<1> QED
  BY <1>1, <1>4, <1>6, <1>7 DEF SurvivesInv, EditPhases, ForkPhases, AppendPhases, TweakPhases,
                                MigratePhases

LEMMA Apart ==
    /\ Idle.phase = "idle" /\ "idle" \notin EditPhases \cup MigratePhases
    /\ EditPhases \cap MigratePhases = {} /\ TweakPhases \subseteq EditPhases
    /\ {"planned", "migrated", "migrateInstall"} \subseteq MigratePhases
BY DEF Idle, EditPhases, ForkPhases, AppendPhases, TweakPhases, MigratePhases

\* A step of a call that leaves version, manifest and backup alone.
LEMMA QuietSurvives ==
    ASSUME ListsInv, SurvivesInv, NEW p \in Procs, proc[p] # Idle,
           UNCHANGED <<version, manifest, there, backup, imported, raced>>,
           \A q \in Procs \ {p} : proc'[q] = proc[q],
           \/ proc'[p].phase = "idle"
           \/ /\ proc'[p].phase \in MigratePhases \ {"migrated", "migrateInstall"}
              /\ proc[p].phase \in MigratePhases \ {"migrateInstall"}
    PROVE  SurvivesInv'
<1>0. UNCHANGED Legacy /\ UNCHANGED Original
  BY DEF Legacy, Original
<1>1. \A q \in Procs : proc'[q].phase \in EditPhases => proc'[q] = proc[q]
  BY Apart
<1>2. \A q \in Procs : /\ proc'[q].phase \in MigratePhases \ {"migrateInstall"}
                       => proc[q].phase \in MigratePhases \ {"migrateInstall"}
  BY Apart
<1>3. \A q \in Procs : proc'[q].phase \in {"migrated", "migrateInstall"} => proc'[q] = proc[q]
  BY Apart
<1>4. \A q \in Procs : proc'[q].phase \in MigratePhases => proc[q].phase \in MigratePhases
  BY Apart
<1>5. ~raced => \A q \in Procs \ {p} : proc'[q] = Idle
  BY DEF SurvivesInv
<1>6. ~raced => \A q, u \in Procs : proc'[q] # Idle /\ proc'[u] # Idle => q = u
  BY <1>5
<1> QED
  BY <1>0, <1>1, <1>2, <1>3, <1>4, <1>6, Apart DEF SurvivesInv

\* A step of an append or an edit; version 0 with its file is not there.
LEMMA EditSurvives ==
    ASSUME ListsInv, SurvivesInv, NEW p \in Procs, proc[p] # Idle, proc[p].phase \in EditPhases,
           UNCHANGED <<backup, imported, raced>>, version' \in {version, 1}, ~Legacy',
           there' \in BOOLEAN, ~there' => manifest' = << >>,
           \A q \in Procs \ {p} : proc'[q] = proc[q],
           proc'[p].phase \in EditPhases \cup {"idle"},
           proc'[p].phase \in TweakPhases => proc[p].phase \in TweakPhases
    PROVE  SurvivesInv'
<1>1. \A q \in Procs : proc'[q].phase \in TweakPhases => version' = 1
  <2>1. \A q \in Procs : proc'[q].phase \in TweakPhases => proc[q].phase \in TweakPhases
    OBVIOUS
  <2>2. version' = version \/ version' = 1
    OBVIOUS
  <2> QED
    BY <2>1, <2>2 DEF SurvivesInv
<1>2. ~raced => \A q \in Procs \ {p} : proc'[q] = Idle
  BY DEF SurvivesInv
<1>3. ~raced => \A q \in Procs : proc'[q].phase \notin MigratePhases
  BY <1>2, Apart
<1>4. ~raced => \A q, u \in Procs : proc'[q] # Idle /\ proc'[u] # Idle => q = u
  BY <1>2
<1>5. ~Legacy
  BY DEF SurvivesInv
<1>6. ~raced /\ imported # << >> => backup = Original /\ Original' = Original
  BY <1>5 DEF SurvivesInv, Original
<1> QED
  BY <1>1, <1>3, <1>4, <1>6, Apart DEF SurvivesInv

\* A call begins while no other is under way, or it races.
LEMMA BeginSurvives ==
    ASSUME ListsInv, SurvivesInv, NEW p \in Procs, proc[p] = Idle, NotesRace(p),
           UNCHANGED <<version, manifest, there, backup, imported>>,
           \A q \in Procs \ {p} : proc'[q] = proc[q],
           \/ /\ ~Legacy /\ proc'[p].phase \in EditPhases
              /\ proc'[p].phase \in TweakPhases => version = 1
           \/ Legacy /\ proc'[p].phase = "planned"
    PROVE  SurvivesInv'
<1>0. UNCHANGED Legacy /\ UNCHANGED Original
  BY DEF Legacy, Original
<1>1. ~raced' => ~raced /\ \A q \in Procs \ {p} : proc[q] = Idle /\ proc'[q] = Idle
  BY DEF NotesRace
<1>2. \A q \in Procs : proc'[q].phase \in TweakPhases => version' = 1
  BY Apart DEF SurvivesInv
<1>3. Legacy' => manifest' = Original' /\ \A q \in Procs : proc'[q].phase \notin EditPhases
  BY <1>0, Apart DEF SurvivesInv
<1>4. ~raced' => \A q \in Procs : proc'[q].phase \in MigratePhases
                    => Legacy /\ proc'[q].phase \notin {"migrated", "migrateInstall"}
  BY <1>1, Apart
<1>5. ~raced' => \A q, u \in Procs : proc'[q] # Idle /\ proc'[u] # Idle => q = u
  BY <1>1
<1>6. ~raced' /\ ~Legacy' /\ imported' # << >> => backup' = Original'
  BY <1>0, <1>1 DEF SurvivesInv
<1>7. there' \in BOOLEAN /\ (~there' => manifest' = << >>)
  BY DEF SurvivesInv
<1>8. ~raced' => \A q \in Procs : proc'[q].phase \in MigratePhases =>
                    version' = 0 /\ there' /\ proc'[q].phase \notin {"migrated", "migrateInstall"}
  BY <1>4 DEF Legacy
<1>9. \A q \in Procs : ~raced' /\ proc'[q].phase \in {"migrated", "migrateInstall"} => FALSE
  BY <1>8, Apart
<1> QED
  BY <1>2, <1>3, <1>5, <1>6, <1>7, <1>8, <1>9 DEF SurvivesInv

\* What a step of an append or an edit does to the manifest and the processes.
LEMMA EditSteps ==
    ASSUME ListsInv, NEW p \in Procs, Record(p) \/ Tweak(p) \/ Fork(p)
    PROVE  /\ UNCHANGED raced /\ \A q \in Procs \ {p} : proc'[q] = proc[q]
           /\ proc[p].phase \in EditPhases
           /\ proc'[p].phase \in EditPhases \cup {"idle"}
           /\ proc'[p].phase \in TweakPhases => proc[p].phase \in TweakPhases
           /\ \/ UNCHANGED <<manifest, there>>
              \/ Retires
              \/ there' = TRUE /\ (AppendInstall(p) \/ proc[p].phase \in TweakPhases)
<1> USE DEF ListsInv, IsEdit, EditPhases, AppendPhases, ForkPhases, TweakPhases, history, source
<1>1. CASE AppendRetire(p) \/ TweakRetire(p)
  BY <1>1 DEF AppendRetire, TweakRetire, Goes
<1>2. CASE AppendInstall(p)
  BY <1>2 DEF AppendInstall, Installs, Ends, Idle
<1>3. CASE TweakInstall(p)
  BY <1>3 DEF TweakInstall, Installs, Ends, Idle
<1>4. CASE TweakRewrite(p) \/ TweakUnlinkRequest(p)
  BY <1>4 DEF TweakRewrite, TweakUnlinkRequest, Goes
<1>5. CASE TweakUnlinkResponse(p)
  BY <1>5 DEF TweakUnlinkResponse
<1>6. CASE ForkMake(p) \/ ForkCopyRequest(p) \/ ForkRetire(p)
  BY <1>6 DEF ForkMake, ForkCopyRequest, ForkRetire, Goes
<1>7. CASE ForkCopyResponse(p)
  BY <1>7 DEF ForkCopyResponse
<1>8. CASE ForkInstall(p)
  BY <1>8 DEF ForkInstall, Ends, Idle
<1> QED
  BY <1>1, <1>2, <1>3, <1>4, <1>5, <1>6, <1>7, <1>8 DEF Record, Tweak, Fork

LEMMA CallsSurvive ==
    ASSUME ListsInv, SurvivesInv, NEW p \in Procs, EditCalls(p)
    PROVE  SurvivesInv'
<1> USE DEF migrationVars, source
<1>0. UNCHANGED <<backup, imported>>
  BY DEF EditCalls
<1>1. ASSUME ~Legacy, UNCHANGED version, NEW body \in Bodies, AppendTx(p, body) PROVE SurvivesInv'
  <2>1. /\ proc'[p].phase \in EditPhases /\ proc'[p].phase \notin TweakPhases
        /\ \A q \in Procs \ {p} : proc'[q] = proc[q]
    BY <1>1 DEF AppendTx, Works, ListsInv, EditPhases, AppendPhases, TweakPhases
  <2>2. proc[p] = Idle /\ NotesRace(p) /\ UNCHANGED <<manifest, there>>
    BY <1>1 DEF AppendTx
  <2> QED
    BY <1>0, <1>1, <2>1, <2>2, BeginSurvives
<1>2. ASSUME ~Legacy, UNCHANGED version, NEW at \in Ids, NEW body \in Bodies, TweakLoad(p, at, body)
      PROVE  SurvivesInv'
  <2>1. /\ proc'[p].phase \in EditPhases
        /\ \A q \in Procs \ {p} : proc'[q] = proc[q]
    BY <1>2 DEF TweakLoad, Works, ListsInv, EditPhases, TweakPhases
  <2>2. proc[p] = Idle /\ NotesRace(p) /\ UNCHANGED <<manifest, there>> /\ manifest # << >>
    BY <1>2 DEF TweakLoad
  <2>3. version = 1
    BY <1>2, <2>2 DEF SurvivesInv, Legacy, ListsInv
  <2> QED
    BY <1>0, <1>2, <2>1, <2>2, <2>3, BeginSurvives
<1>3. ASSUME ~Legacy, UNCHANGED version, NEW seq \in 0 .. MaxTxs, ForkLoad(p, seq) PROVE SurvivesInv'
  <2>1. /\ proc'[p].phase \in EditPhases /\ proc'[p].phase \notin TweakPhases
        /\ \A q \in Procs \ {p} : proc'[q] = proc[q]
    BY <1>3 DEF ForkLoad, Works, ListsInv, EditPhases, ForkPhases, TweakPhases
  <2>2. proc[p] = Idle /\ NotesRace(p) /\ UNCHANGED <<manifest, there>>
    BY <1>3 DEF ForkLoad
  <2> QED
    BY <1>0, <1>3, <2>1, <2>2, BeginSurvives
<1>4. ASSUME Record(p) \/ Tweak(p) \/ Fork(p),
             IF Record(p) THEN version' = IF there' THEN 1 ELSE version ELSE UNCHANGED version
      PROVE  SurvivesInv'
  <2>1. version' \in {version, 1}
    BY <1>4
  <2>2. ~Legacy
    BY <1>4, EditSteps DEF SurvivesInv
  <2>3. ~Legacy' /\ there' \in BOOLEAN /\ (~there' => manifest' = << >>)
    <3>1. CASE UNCHANGED <<manifest, there>>
      <4>1. version' = version \/ version' = 1
        BY <2>1
      <4> QED
        BY <2>2, <3>1, <4>1 DEF Legacy, SurvivesInv
    <3>2. CASE Retires
      BY <3>2 DEF Retires, Legacy
    <3>3. CASE there' = TRUE /\ AppendInstall(p)
      BY <1>4, <3>3 DEF Legacy, Record
    <3>4. CASE there' = TRUE /\ proc[p].phase \in TweakPhases
      BY <2>1, <3>4 DEF Legacy, SurvivesInv
    <3> QED
      BY <1>4, <3>1, <3>2, <3>3, <3>4, EditSteps
  <2> QED
    BY <1>0, <1>4, <2>1, <2>3, EditSteps, EditSurvives, Apart
<1>5. CASE Kill(p, Rewriting(p) \cup Creating(p)) /\ UNCHANGED version
  <2>1. /\ proc[p] # Idle /\ UNCHANGED <<manifest, there, raced>> /\ proc'[p].phase = "idle"
        /\ \A q \in Procs \ {p} : proc'[q] = proc[q]
    BY <1>5 DEF Kill, Ends, ListsInv, Idle
  <2> QED
    BY <1>0, <1>5, <2>1, QuietSurvives
<1>6. Record(p) /\ (Tweak(p) \/ Fork(p)) => FALSE
  BY DEF Record, AppendRetire, AppendInstall, Tweak, TweakRewrite, TweakUnlinkRequest,
         TweakUnlinkResponse, TweakRetire, TweakInstall, Fork, ForkMake, ForkCopyRequest,
         ForkCopyResponse, ForkRetire, ForkInstall
<1> QED
  BY <1>1, <1>2, <1>3, <1>4, <1>5, <1>6 DEF EditCalls, Begins

LEMMA MigrateSurvives ==
    ASSUME ListsInv, SurvivesInv, NEW p \in Procs, Migrate(p)
    PROVE  SurvivesInv'
<1> USE DEF migrationVars, OnlyProc, source
<1>1. /\ proc[p].phase \in MigratePhases /\ proc[p] # Idle /\ UNCHANGED <<imported, raced>>
      /\ \A q \in Procs \ {p} : proc'[q] = proc[q]
  <2>1. proc[p].phase \in MigratePhases
    BY DEF Migrate, MigrateRead, MigrateHash, MigrateHashed, EnsureRequest, EnsureResponse,
           PreviewEnds, MigrateBackup, MigrateRetire, MigrateInstall, MigratePhases
  <2>2. proc[p] # Idle
    BY <2>1 DEF Idle, MigratePhases
  <2>3. UNCHANGED <<imported, raced>> /\ \A q \in Procs \ {p} : proc'[q] = proc[q]
    BY DEF Migrate, MigrateRead, MigrateHash, MigrateHashed, EnsureRequest, EnsureResponse,
           PreviewEnds, MigrateBackup, MigrateRetire, MigrateInstall, Works, Goes, Ends, ListsInv,
           history
  <2> QED
    BY <2>1, <2>2, <2>3
<1>2. CASE ~(MigrateBackup(p) /\ there) /\ ~MigrateRetire(p) /\ ~MigrateInstall(p)
  <2>1. UNCHANGED <<version, manifest, there, backup>>
    BY <1>2 DEF Migrate, MigrateRead, MigrateHash, MigrateHashed, EnsureRequest,
                EnsureResponse, PreviewEnds, MigrateBackup
  <2>2. /\ proc[p].phase \in MigratePhases \ {"migrateInstall"}
        /\ \/ proc'[p].phase = "idle"
           \/ proc'[p].phase \in MigratePhases \ {"migrated", "migrateInstall"}
    <3>1. CASE MigrateRead(p) \/ MigrateHash(p) \/ PreviewEnds(p)
      BY <3>1 DEF MigrateRead, MigrateHash, PreviewEnds, Works, Ends, ListsInv, Idle, MigratePhases
    <3>2. CASE MigrateHashed(p) \/ EnsureRequest(p)
      BY <3>2 DEF MigrateHashed, EnsureRequest, Goes, ListsInv, IsEdit, MigratePhases
    <3>3. CASE EnsureResponse(p)
      BY <3>3 DEF EnsureResponse, ListsInv, IsEdit, MigratePhases
    <3>4. CASE MigrateBackup(p) /\ ~there
      BY <3>4 DEF MigrateBackup, Ends, ListsInv, Idle, MigratePhases
    <3> QED
      BY <1>2, <3>1, <3>2, <3>3, <3>4 DEF Migrate
  <2> QED
    BY <1>1, <2>1, <2>2, QuietSurvives
<1>3. CASE MigrateBackup(p) /\ there
  <2>1. /\ backup' = manifest /\ UNCHANGED <<version, manifest, there>> /\ proc'[p].phase = "migrated"
        /\ proc[p].phase = "blobRequest"
    BY <1>3 DEF MigrateBackup, Backed, Goes, ListsInv, IsEdit
  <2>2. UNCHANGED Legacy /\ UNCHANGED Original
    BY <1>1, <2>1 DEF Legacy, Original
  <2>3. \A q \in Procs : proc'[q].phase \in EditPhases => proc'[q] = proc[q]
    BY <1>1, <2>1, Apart
  <2>4. ~raced => Legacy /\ backup' = Original
    BY <1>1, <1>3, <2>1 DEF SurvivesInv, Legacy
  <2>5. ~raced => \A q \in Procs \ {p} : proc'[q] = Idle
    BY <1>1 DEF SurvivesInv
  <2>6. ~raced => \A q, u \in Procs : proc'[q] # Idle /\ proc'[u] # Idle => q = u
    BY <2>5
  <2> QED
    BY <1>1, <1>3, <2>1, <2>2, <2>3, <2>4, <2>5, <2>6, Apart DEF SurvivesInv, Legacy
<1>4. CASE MigrateRetire(p)
  <2>1. /\ proc[p].phase = "migrated" /\ UNCHANGED <<version, backup>>
        /\ proc'[p].phase = "migrateInstall" /\ manifest' = << >> /\ there' = FALSE
    BY <1>4 DEF MigrateRetire, Retires, Goes, ListsInv, IsEdit
  <2>2. ~Legacy' /\ UNCHANGED Original
    BY <1>1, <2>1 DEF Legacy, Original
  <2>3. \A q \in Procs : proc'[q].phase \in TweakPhases => proc'[q] = proc[q]
    BY <1>1, <2>1, Apart
  <2>4. ~raced => version = 0 /\ backup = Original
    BY <1>1, <2>1 DEF SurvivesInv
  <2>5. ~raced => \A q \in Procs \ {p} : proc'[q] = Idle
    BY <1>1 DEF SurvivesInv
  <2>6. ~raced => \A q, u \in Procs : proc'[q] # Idle /\ proc'[u] # Idle => q = u
    BY <2>5
  <2>7. ~raced => \A q \in Procs : proc'[q].phase \in MigratePhases => q = p
    BY <2>5, Apart
  <2> QED
    BY <1>1, <2>1, <2>2, <2>3, <2>4, <2>6, <2>7 DEF SurvivesInv
<1>5. CASE MigrateInstall(p)
  <2>1. /\ proc[p].phase = "migrateInstall" /\ version' = 1 /\ UNCHANGED backup /\ proc'[p] = Idle
        /\ there' = TRUE
    BY <1>5 DEF MigrateInstall, Installs, Ends, ListsInv
  <2>2. ~raced => \A q \in Procs : proc'[q] = Idle
    BY <1>1, <2>1 DEF SurvivesInv
  <2>3. ~Legacy' /\ UNCHANGED Original
    BY <1>1, <2>1 DEF Legacy, Original
  <2>4. ~raced => backup' = Original'
    BY <2>1, <2>3 DEF SurvivesInv
  <2>5. ~raced => \A q \in Procs : proc'[q].phase \notin MigratePhases
    BY <2>2, Apart
  <2> QED
    BY <1>1, <2>1, <2>2, <2>3, <2>4, <2>5, Apart DEF SurvivesInv
<1> QED
  BY <1>2, <1>3, <1>4, <1>5

LEMMA NextSurvives ==
    ASSUME ListsInv, SurvivesInv, [NextMigration]_allVars
    PROVE  SurvivesInv'
<1> USE DEF source
<1>1. ASSUME NEW p \in Procs, NEW body \in Bodies, AppendRaises(p, body)
      PROVE  SurvivesInv'
  BY <1>1 DEF AppendRaises, SurvivesInv, Original, Legacy, history, migrationVars
<1>2. ASSUME NEW p \in Procs, NEW preview \in BOOLEAN,
             MigratePlan(p, preview)
      PROVE  SurvivesInv'
  <2>1. proc'[p].phase = "planned" /\ \A q \in Procs \ {p} : proc'[q] = proc[q]
    BY <1>2 DEF MigratePlan, Goes, ListsInv, IsEdit
  <2>2. /\ proc[p] = Idle /\ NotesRace(p) /\ Legacy
        /\ UNCHANGED <<version, backup, imported, manifest, there>>
    BY <1>2 DEF MigratePlan
  <2> QED
    BY <1>2, <2>1, <2>2, BeginSurvives
<1>3. CASE UNCHANGED allVars
  BY <1>3 DEF allVars, vars, history, migrationVars, SurvivesInv, Original, Legacy
<1> QED
  BY <1>1, <1>2, <1>3, CallsSurvive, MigrateSurvives DEF NextMigration

LEMMA SurvivesAlways == SpecMigration => []SurvivesInv
BY InitSurvives, NextSurvives, ListsInvariant, PTL DEF SpecMigration

\* migrate_cassette: what was imported is the manifest, and the backup once
\* that is migrated or renamed away, wherever a migration, a tweak, a fork or
\* an append is cut off, unless two calls overlapped.
THEOREM ImportsSurvive == SpecMigration => []OriginalSurvives
<1>1. SurvivesInv => OriginalSurvives
  BY DEF SurvivesInv, OriginalSurvives
<1> QED
  BY <1>1, SurvivesAlways, PTL

-----------------------------------------------------------------------------
(* What a step does to the processes *)

LEMMA GoesTo ==
    ASSUME ListsInv, NEW p \in Procs, NEW phase, Goes(p, phase)
    PROVE  /\ proc'[p].phase = phase /\ proc'[p].copy = proc[p].copy /\ proc'[p].at = proc[p].at
           /\ proc'[p].body = proc[p].body /\ proc'[p].todo = proc[p].todo
           /\ \A q \in Procs \ {p} : proc'[q] = proc[q]
BY DEF Goes, ListsInv, IsEdit

LEMMA EndsIdle ==
    ASSUME ListsInv, NEW p \in Procs, Ends(p)
    PROVE  proc'[p] = Idle /\ \A q \in Procs \ {p} : proc'[q] = proc[q]
BY DEF Ends, ListsInv

LEMMA WorksAt ==
    ASSUME ListsInv, NEW p \in Procs, NEW phase, NEW copy, NEW at, NEW body, NEW todo,
           Works(p, phase, copy, at, body, todo)
    PROVE  /\ proc'[p].phase = phase /\ proc'[p].copy = copy /\ proc'[p].at = at
           /\ proc'[p].body = body /\ proc'[p].todo = todo
           /\ \A q \in Procs \ {p} : proc'[q] = proc[q]
BY DEF Works, ListsInv

\* One more of what is left to do is done.
LEMMA DoesOne ==
    ASSUME ListsInv, NEW p \in Procs, NEW phase,
           \/ proc' = [proc EXCEPT ![p].phase = phase, ![p].todo = Tail(@)]
           \/ proc[p].phase = phase /\ proc' = [proc EXCEPT ![p].todo = Tail(@)]
    PROVE  /\ proc'[p].phase = phase /\ proc'[p].copy = proc[p].copy /\ proc'[p].at = proc[p].at
           /\ proc'[p].body = proc[p].body /\ proc'[p].todo = Tail(proc[p].todo)
           /\ \A q \in Procs \ {p} : proc'[q] = proc[q]
<1>1. DOMAIN proc = Procs /\ DOMAIN proc[p] = {"phase", "copy", "at", "body", "todo"}
  BY DEF ListsInv, IsEdit
<1>2. CASE proc' = [proc EXCEPT ![p].phase = phase, ![p].todo = Tail(@)]
  BY <1>1, <1>2
<1>3. CASE proc[p].phase = phase /\ proc' = [proc EXCEPT ![p].todo = Tail(@)]
  BY <1>1, <1>3
<1> QED
  BY <1>2, <1>3

\* A step that overlaps with no other call has the cassette for itself.
LEMMA AloneNow ==
    ASSUME ListsInv, SurvivesInv, NEW p \in Procs, ~raced',
           NotesRace(p) \/ (proc[p] # Idle /\ raced' = raced)
    PROVE  ~raced /\ \A q \in Procs \ {p} : proc[q] = Idle
<1>1. CASE NotesRace(p)
  BY <1>1 DEF NotesRace
<1>2. CASE proc[p] # Idle /\ raced' = raced
  BY <1>2 DEF SurvivesInv
<1> QED
  BY <1>1, <1>2

-----------------------------------------------------------------------------
(* What appends and edits keep listed *)

GapPhases == {"appendInstall", "tweakInstall", "migrateInstall"}
CarryPhases ==
    TweakPhases \cup AppendPhases
        \cup {"rehash", "blobRequest", "blobResponse", "migrated", "migrateInstall"}

\* What a call will write back lists what must stay listed.
Carries(r) == r.phase \in CarryPhases => kept \subseteq Listed(r.copy) \cup dropped

\* One process holds the lock, and between its renames there is no file.  Unless
\* a call was cut off there, what must stay listed is in the manifest when no
\* call is between its renames, and in each copy that is to be written.
KeptInv ==
    /\ \A p, q \in Procs : proc[p].phase \in Holding /\ proc[q].phase \in Holding => p = q
    /\ \A p \in Procs : proc[p].phase \in GapPhases => ~there
    /\ \A p \in Procs : proc[p].phase \in AppendPhases => proc[p].at \in Listed(proc[p].copy)
    /\ kept \subseteq 1 .. appended
    /\ ~severed =>
          /\ \A p \in Procs : Carries(proc[p])
          /\ (\A p \in Procs : proc[p].phase \notin GapPhases) =>
                kept \subseteq Listed(manifest) \cup dropped /\ (kept # {} => there)

LEMMA KeptPhases ==
    /\ Holding = GapPhases \cup {"append"} /\ AppendPhases \subseteq Holding
    /\ AppendPhases \cup GapPhases \subseteq CarryPhases /\ TweakPhases \subseteq CarryPhases
    /\ \A p \in Procs : proc[p].phase \in CarryPhases => Editing(p) \/ proc[p].phase \in AppendPhases
BY DEF Holding, GapPhases, AppendPhases, CarryPhases, TweakPhases, Editing

\* A step that leaves the manifest alone.  The call has loaded the manifest,
\* or goes on with what it carries.
LEMMA KeptQuiet ==
    ASSUME ListsInv, KeptInv, NEW p \in Procs, UNCHANGED <<manifest, there, kept, dropped>>,
           appended' \in {appended, appended + 1},
           \A q \in Procs \ {p} : proc'[q] = proc[q],
           severed \/ proc[p].phase \in GapPhases => severed',
           proc'[p].phase \notin Holding,
           proc'[p].phase \in CarryPhases =>
               \/ proc[p].phase \in CarryPhases /\ Listed(proc'[p].copy) = Listed(proc[p].copy)
               \/ there /\ proc'[p].copy = manifest
    PROVE  KeptInv'
<1>1. \A q \in Procs : proc'[q].phase \in Holding => q # p /\ proc'[q] = proc[q]
  OBVIOUS
<1>2. \A q \in Procs : proc'[q].phase \in GapPhases \cup AppendPhases => proc'[q].phase \in Holding
  BY KeptPhases
<1>3. kept' \subseteq 1 .. appended'
  BY DEF KeptInv, ListsInv
<1>4. ASSUME ~severed' PROVE \A q \in Procs : Carries(proc[q])'
  <2>1. there => kept \subseteq Listed(manifest) \cup dropped
    BY <1>4 DEF KeptInv
  <2> QED
    BY <1>4, <2>1 DEF KeptInv, Carries
<1>5. ASSUME ~severed', \A q \in Procs : proc'[q].phase \notin GapPhases
      PROVE  kept' \subseteq Listed(manifest') \cup dropped' /\ (kept' # {} => there')
  BY <1>5 DEF KeptInv
<1>6. \A q \in Procs : proc'[q].phase \in GapPhases => ~there'
  BY <1>1, <1>2 DEF KeptInv
<1>7. \A q \in Procs : proc'[q].phase \in AppendPhases => proc'[q].at \in Listed(proc'[q].copy)
  BY <1>1, <1>2 DEF KeptInv
<1>8. \A q, u \in Procs : proc'[q].phase \in Holding /\ proc'[u].phase \in Holding => q = u
  BY <1>1 DEF KeptInv
<1> QED
  BY <1>3, <1>4, <1>5, <1>6, <1>7, <1>8 DEF KeptInv

\* The manifest is renamed away under the lock.
LEMMA KeptRetire ==
    ASSUME ListsInv, KeptInv, NEW p \in Procs, NEW phase \in GapPhases, Goes(p, phase), Retires,
           UNCHANGED <<kept, dropped, severed, appended>>,
           \A q \in Procs \ {p} : proc[q].phase \notin Holding,
           proc[p].phase \in CarryPhases,
           phase \in AppendPhases => proc[p].phase \in AppendPhases
    PROVE  KeptInv'
<1>1. /\ proc'[p].phase = phase /\ proc'[p].copy = proc[p].copy /\ proc'[p].at = proc[p].at
      /\ \A q \in Procs \ {p} : proc'[q] = proc[q]
  BY GoesTo
<1>2. ~there'
  BY DEF Retires
<1>3. \A q \in Procs : Carries(proc[q]) => Carries(proc[q])'
  BY <1>1 DEF Carries
<1>4. \A q \in Procs : proc'[q].phase \in AppendPhases => proc'[q].at \in Listed(proc'[q].copy)
  BY <1>1 DEF KeptInv
<1>5. ~(\A q \in Procs : proc'[q].phase \notin GapPhases)
  BY <1>1
<1>6. \A q, u \in Procs : proc'[q].phase \in Holding /\ proc'[u].phase \in Holding => q = u
  BY <1>1
<1> QED
  BY <1>2, <1>3, <1>4, <1>5, <1>6 DEF KeptInv

\* The copy that is carried, or what is left of it, becomes the manifest.
LEMMA KeptInstall ==
    ASSUME ListsInv, KeptInv, NEW p \in Procs, proc[p].phase \in GapPhases, NEW log,
           Installs(log), Ends(p), UNCHANGED <<severed, appended>>, dropped \subseteq dropped',
           Listed(proc[p].copy) \subseteq Listed(log) \cup dropped',
           \/ kept' = kept
           \/ /\ proc[p].phase \in AppendPhases /\ \A q \in Procs : ~Editing(q)
              /\ kept' = kept \cup {proc[p].at}
    PROVE  KeptInv'
<1>1. proc'[p] = Idle /\ \A q \in Procs \ {p} : proc'[q] = proc[q]
  BY EndsIdle
<1>2. Idle.phase \notin Holding \cup GapPhases \cup AppendPhases \cup CarryPhases
  BY DEF Idle, Holding, GapPhases, AppendPhases, CarryPhases, TweakPhases
<1>3. \A q \in Procs \ {p} : proc'[q].phase \notin Holding
  BY <1>1, KeptPhases DEF KeptInv
<1>4. \A q \in Procs : proc'[q].phase \notin Holding \cup GapPhases \cup AppendPhases
  BY <1>1, <1>2, <1>3, KeptPhases
<1>5. kept' \subseteq kept \cup Listed(proc[p].copy)
  BY DEF KeptInv
<1>6. kept' \subseteq 1 .. appended'
  <2>1. Listing(proc[p].copy, appended) /\ appended \in Nat
    BY DEF ListsInv, IsEdit
  <2>2. Ids \subseteq Nat \ {0}
    BY EditsAssumption DEF Ids
  <2>3. \A i \in DOMAIN proc[p].copy : proc[p].copy[i].id \in 1 .. appended
    BY <2>1, <2>2, ListedTx
  <2>4. Listed(proc[p].copy) \subseteq 1 .. appended
    BY <2>3 DEF Listed
  <2> QED
    BY <1>5, <2>4 DEF KeptInv
<1>7. ASSUME ~severed, NEW q \in Procs PROVE Carries(proc[q])'
  <2>1. CASE proc'[q].phase \in CarryPhases
    <3>1. q # p /\ proc'[q] = proc[q]
      BY <1>1, <1>2, <2>1
    <3>2. Editing(q)
      BY <1>4, <2>1, <3>1, KeptPhases
    <3>3. kept' = kept /\ kept \subseteq Listed(proc[q].copy) \cup dropped
      BY <1>7, <2>1, <3>1, <3>2 DEF KeptInv, Carries
    <3> QED
      BY <3>1, <3>3 DEF Carries
  <2> QED
    BY <2>1 DEF Carries
<1>8. ASSUME ~severed PROVE kept' \subseteq Listed(manifest') \cup dropped' /\ there'
  <2>1. kept \subseteq Listed(proc[p].copy) \cup dropped
    BY <1>8, KeptPhases DEF KeptInv, Carries
  <2> QED
    BY <1>5, <2>1 DEF Installs
<1> QED
  BY <1>4, <1>6, <1>7, <1>8 DEF KeptInv

LEMMA AppendedLog ==
    ASSUME NEW log \in Seq(Tx), NEW n, NEW h
    PROVE  /\ Listed(Append(log, TxOf(n, h))) = Listed(log) \cup {n}
           /\ \A i \in DOMAIN Append(log, TxOf(n, h)) :
                 \/ Append(log, TxOf(n, h))[i] = TxOf(n, h)
                 \/ i \in DOMAIN log /\ Append(log, TxOf(n, h))[i] = log[i]
<1> PICK tx : tx = TxOf(n, h)
  OBVIOUS
<1> PICK new : new = Append(log, tx)
  OBVIOUS
<1>1. /\ DOMAIN new = 1 .. Len(log) + 1 /\ DOMAIN log = 1 .. Len(log)
      /\ Len(log) \in Nat /\ new[Len(log) + 1] = tx
      /\ \A i \in 1 .. Len(log) : new[i] = log[i]
  OBVIOUS
<1>2. tx.id = n
  BY DEF TxOf
<1>3. \A i \in 1 .. Len(log) + 1 : i \in 1 .. Len(log) \/ i = Len(log) + 1
  BY <1>1
<1>4. Len(log) + 1 \in 1 .. Len(log) + 1 /\ 1 .. Len(log) \subseteq 1 .. Len(log) + 1
  BY <1>1
<1>5. Listed(new) = Listed(log) \cup {n}
  BY <1>1, <1>2, <1>3, <1>4 DEF Listed
<1> QED
  BY <1>1, <1>3, <1>5

LEMMA AppendKept ==
    ASSUME ListsInv, KeptInv, NEW p \in Procs, NEW body \in Bodies, AppendTx(p, body)
    PROVE  KeptInv'
<1> DEFINE copy == Append(manifest, TxOf(appended + 1, body))
<1>1. /\ Works(p, "append", copy, appended + 1, body, << >>) /\ Unlocked
      /\ appended' = appended + 1 /\ UNCHANGED <<manifest, there, kept, dropped, severed>>
  BY DEF AppendTx, source
<1>2. manifest \in Seq(Tx) /\ appended \in Nat
  BY EditsAssumption DEF ListsInv, Listing
<1>3. Listed(copy) = Listed(manifest) \cup {appended + 1}
  BY <1>2, AppendedLog
<1> HIDE DEF copy
<1>4. /\ proc'[p].phase = "append" /\ proc'[p].copy = copy /\ proc'[p].at = appended + 1
      /\ \A q \in Procs \ {p} : proc'[q] = proc[q]
  BY <1>1, WorksAt
<1>5. \A q \in Procs : proc[q].phase \notin Holding
  BY <1>1 DEF Unlocked
<1>6. \A q, u \in Procs : proc'[q].phase \in Holding /\ proc'[u].phase \in Holding => q = u
  BY <1>4, <1>5
<1>7. \A q \in Procs : proc'[q].phase \notin GapPhases /\ proc[q].phase \notin GapPhases
  BY <1>4, <1>5, KeptPhases DEF GapPhases
<1>8. \A q \in Procs : proc'[q].phase \in AppendPhases => proc'[q].at \in Listed(proc'[q].copy)
  BY <1>3, <1>4 DEF KeptInv
<1>9. kept' \subseteq 1 .. appended'
  BY <1>1, <1>2 DEF KeptInv
<1>10. ~severed => kept \subseteq Listed(manifest) \cup dropped /\ (kept # {} => there)
  BY <1>7 DEF KeptInv
<1>11. ~severed => \A q \in Procs : Carries(proc[q])'
  BY <1>1, <1>3, <1>4, <1>10 DEF KeptInv, Carries
<1> QED
  BY <1>1, <1>6, <1>7, <1>8, <1>9, <1>10, <1>11 DEF KeptInv

LEMMA RecordKept ==
    ASSUME ListsInv, KeptInv, NEW p \in Procs, Record(p)
    PROVE  KeptInv'
<1>1. CASE AppendRetire(p)
  <2>1. /\ proc[p].phase = "append" /\ Goes(p, "appendInstall") /\ Retires
        /\ UNCHANGED <<kept, dropped, severed, appended>>
    BY <1>1 DEF AppendRetire, history
  <2>2. "append" \in Holding \cap AppendPhases \cap CarryPhases /\ "appendInstall" \in GapPhases
    BY DEF Holding, AppendPhases, CarryPhases, GapPhases
  <2>3. \A q \in Procs \ {p} : proc[q].phase \notin Holding
    BY <2>1, <2>2 DEF KeptInv
  <2> QED
    BY <2>1, <2>2, <2>3, KeptRetire
<1>2. CASE AppendInstall(p)
  <2>1. /\ proc[p].phase = "appendInstall" /\ Installs(proc[p].copy) /\ Ends(p)
        /\ UNCHANGED <<dropped, severed, appended>>
        /\ kept' = IF \E q \in Procs : Editing(q) THEN kept ELSE kept \cup {proc[p].at}
    BY <1>2 DEF AppendInstall
  <2>2. "appendInstall" \in GapPhases \cap AppendPhases
    BY DEF AppendPhases, GapPhases
  <2> QED
    BY <2>1, <2>2, KeptInstall
<1> QED
  BY <1>1, <1>2 DEF Record

\* What a tweak keeps lists the transactions up to the tweaked one.
LEMMA ListedKept ==
    ASSUME NEW n, NEW log, Listing(log, n), NEW at \in DOMAIN log, NEW h \in Hashes
    PROVE  /\ DOMAIN Kept(log, at, h) = 1 .. at
           /\ \A i \in 1 .. at - 1 : Kept(log, at, h)[i] = log[i]
           /\ Kept(log, at, h)[at] = TxOf(log[at].id, h)
           /\ Listed(Kept(log, at, h)) = {log[i].id : i \in 1 .. at}
           /\ Listed(SubSeq(log, at + 1, Len(log))) = {log[i].id : i \in at + 1 .. Len(log)}
<1> DEFINE prefix == SubSeq(log, 1, at - 1)
           tx == TxOf(log[at].id, h)
           new == Append(prefix, tx)
           rest == SubSeq(log, at + 1, Len(log))
<1>1. log \in Seq(Tx) /\ at \in 1 .. Len(log) /\ Len(log) \in Nat /\ DOMAIN log = 1 .. Len(log)
  BY DEF Listing
<1>2. tx.id = log[at].id
  BY DEF TxOf
<1>3. /\ prefix \in Seq(Tx) /\ Len(prefix) = at - 1
      /\ \A i \in 1 .. at - 1 : prefix[i] = log[i]
  BY <1>1, ListingPrefix
<1>4. /\ DOMAIN new = 1 .. at /\ new[at] = tx /\ \A i \in 1 .. at - 1 : new[i] = log[i]
  <2> HIDE DEF prefix, tx
  <2> QED
    BY <1>1, <1>3
<1>5. Listed(new) = {log[i].id : i \in 1 .. at}
  <2>1. \A i \in 1 .. at : new[i].id = log[i].id
    <3>1. \A i \in 1 .. at : i \in 1 .. at - 1 \/ i = at
      BY <1>1
    <3> HIDE DEF new, tx
    <3> QED
      BY <1>2, <1>4, <3>1
  <2> HIDE DEF new
  <2> QED
    BY <1>4, <2>1 DEF Listed
<1>6. Listed(rest) = {log[i].id : i \in at + 1 .. Len(log)}
  <2>1. /\ DOMAIN rest = 1 .. Len(log) - at
        /\ \A i \in 1 .. Len(log) - at : rest[i] = log[at + i]
    BY <1>1
  <2>2. \A i \in 1 .. Len(log) - at : at + i \in at + 1 .. Len(log)
    BY <1>1
  <2>3. \A i \in at + 1 .. Len(log) : i - at \in 1 .. Len(log) - at /\ at + (i - at) = i
    BY <1>1
  <2>4. \A i \in at + 1 .. Len(log) : rest[i - at] = log[i]
    BY <2>1, <2>3
  <2> HIDE DEF rest
  <2> QED
    BY <2>1, <2>2, <2>3, <2>4 DEF Listed
<1> QED
  BY <1>4, <1>5, <1>6 DEF Kept, new, prefix, tx, rest

LEMMA TweakKept ==
    ASSUME ListsInv, SurvivesInv, KeptInv, NEW p \in Procs,
           Tweak(p) \/ \E at \in Ids, body \in Bodies : TweakLoad(p, at, body)
    PROVE  KeptInv'
<1>1. ASSUME NEW at \in Ids, NEW body \in Bodies, TweakLoad(p, at, body) PROVE KeptInv'
  <2>1. /\ proc'[p].phase = "rewrite" /\ proc'[p].copy = manifest
        /\ \A q \in Procs \ {p} : proc'[q] = proc[q]
    BY <1>1, WorksAt DEF TweakLoad
  <2>2. manifest # << >> /\ proc[p] = Idle
        /\ UNCHANGED <<manifest, there, kept, dropped, severed, appended>>
    BY <1>1 DEF TweakLoad, source
  <2>3. there /\ proc[p].phase \notin GapPhases /\ "rewrite" \notin Holding
    BY <2>2 DEF SurvivesInv, Idle, GapPhases, Holding
  <2> QED
    BY <2>1, <2>2, <2>3, KeptQuiet
<1>2. CASE TweakRewrite(p) \/ TweakUnlinkRequest(p) \/ TweakUnlinkResponse(p)
  <2>1. /\ proc'[p].copy = proc[p].copy /\ \A q \in Procs \ {p} : proc'[q] = proc[q]
        /\ proc'[p].phase \in {"unlinkRequest", "unlinkResponse"}
    <3>1. CASE TweakRewrite(p) \/ TweakUnlinkRequest(p)
      BY <3>1, GoesTo DEF TweakRewrite, TweakUnlinkRequest
    <3>2. CASE TweakUnlinkResponse(p)
      BY <3>2, DoesOne DEF TweakUnlinkResponse
    <3> QED
      BY <1>2, <3>1, <3>2
  <2>2. proc[p].phase \in CarryPhases /\ proc[p].phase \notin GapPhases
        /\ UNCHANGED <<manifest, there, kept, dropped, severed, appended>>
    BY <1>2 DEF TweakRewrite, TweakUnlinkRequest, TweakUnlinkResponse, CarryPhases, TweakPhases,
                GapPhases, source, history
  <2>3. proc'[p].phase \notin Holding
    BY <2>1 DEF Holding
  <2> QED
    BY <2>1, <2>2, <2>3, KeptQuiet
<1>3. CASE TweakRetire(p)
  <2>1. /\ proc[p].phase = "unlinkRequest" /\ Goes(p, "tweakInstall") /\ Retires /\ Unlocked
        /\ UNCHANGED <<kept, dropped, severed, appended>>
    BY <1>3 DEF TweakRetire, history
  <2>2. "unlinkRequest" \in CarryPhases /\ "tweakInstall" \in GapPhases
        /\ "tweakInstall" \notin AppendPhases
    BY DEF TweakPhases, AppendPhases, CarryPhases, GapPhases
  <2> QED
    BY <2>1, <2>2, KeptRetire DEF Unlocked
<1>4. CASE TweakInstall(p)
  <2> DEFINE copy == proc[p].copy
             at == proc[p].at
             log == Kept(copy, at, proc[p].body)
  <2>1. /\ proc[p].phase = "tweakInstall" /\ Installs(log) /\ Ends(p)
        /\ dropped' = dropped \cup Listed(SubSeq(copy, at + 1, Len(copy)))
        /\ UNCHANGED <<kept, severed, appended>>
    BY <1>4 DEF TweakInstall
  <2>2. Listing(copy, appended) /\ at \in DOMAIN copy /\ proc[p].body \in Hashes
    BY <2>1 DEF ListsInv, IsEdit, Hashes, TweakPhases
  <2> HIDE DEF copy, at
  <2>3. /\ Listed(log) = {copy[i].id : i \in 1 .. at}
        /\ dropped' = dropped \cup {copy[i].id : i \in at + 1 .. Len(copy)}
    BY <2>1, <2>2, ListedKept
  <2> HIDE DEF log
  <2>4. \A i \in DOMAIN copy : i \in 1 .. at \/ i \in at + 1 .. Len(copy)
    BY <2>2 DEF Listing
  <2>5. Listed(copy) \subseteq Listed(log) \cup dropped' /\ dropped \subseteq dropped'
    BY <2>3, <2>4 DEF Listed
  <2>6. proc[p].phase \in GapPhases
    BY <2>1 DEF GapPhases
  <2> QED
    BY <2>1, <2>5, <2>6, KeptInstall DEF copy
<1> QED
  BY <1>1, <1>2, <1>3, <1>4 DEF Tweak

\* A fork carries nothing that is written back.
LEMMA ForkKept ==
    ASSUME ListsInv, KeptInv, NEW p \in Procs,
           Fork(p) \/ \E seq \in 0 .. MaxTxs : ForkLoad(p, seq)
    PROVE  KeptInv'
<1>1. /\ UNCHANGED <<manifest, there, kept, dropped, severed, appended>>
      /\ proc[p].phase \notin GapPhases
  <2> USE DEF GapPhases, Idle, source, history
  <2>1. CASE Fork(p)
    BY <2>1 DEF Fork, ForkMake, ForkCopyRequest, ForkCopyResponse, ForkRetire, ForkInstall
  <2>2. ASSUME NEW seq \in 0 .. MaxTxs, ForkLoad(p, seq)
        PROVE  /\ UNCHANGED <<manifest, there, kept, dropped, severed, appended>>
               /\ proc[p].phase \notin GapPhases
    BY <2>2 DEF ForkLoad
  <2> QED
    BY <2>1, <2>2
<1>2. /\ proc'[p].phase \in ForkPhases \cup {"idle"}
      /\ \A q \in Procs \ {p} : proc'[q] = proc[q]
  <2>1. CASE ForkMake(p) \/ ForkCopyRequest(p) \/ ForkRetire(p)
    BY <2>1, GoesTo DEF ForkMake, ForkCopyRequest, ForkRetire, ForkPhases
  <2>2. CASE ForkCopyResponse(p)
    BY <2>2, DoesOne DEF ForkCopyResponse, ForkPhases
  <2>3. CASE ForkInstall(p)
    BY <2>3, EndsIdle DEF ForkInstall, Idle
  <2>4. ASSUME NEW seq \in 0 .. MaxTxs, ForkLoad(p, seq)
        PROVE  proc'[p].phase = "forkMake" /\ \A q \in Procs \ {p} : proc'[q] = proc[q]
    BY <2>4, WorksAt DEF ForkLoad
  <2> QED
    BY <2>1, <2>2, <2>3, <2>4 DEF Fork, ForkPhases
<1>3. proc'[p].phase \notin Holding /\ proc'[p].phase \notin CarryPhases
  BY <1>2 DEF ForkPhases, Holding, CarryPhases, TweakPhases, AppendPhases
<1> QED
  BY <1>1, <1>2, <1>3, KeptQuiet

LEMMA MigrateKept ==
    ASSUME ListsInv, KeptInv, NEW p \in Procs,
           Migrate(p) \/ \E preview \in BOOLEAN : MigratePlan(p, preview)
    PROVE  KeptInv'
<1> USE DEF OnlyProc, migrationVars, source, history
<1>0. Idle.phase = "idle" /\ "idle" \notin Holding \cup CarryPhases /\ "planned" \notin Holding \cup CarryPhases
      /\ {"rehash", "blobRequest", "blobResponse", "migrated"} \subseteq CarryPhases \ (Holding \cup GapPhases)
      /\ {"idle", "planned"} \cap GapPhases = {}
  BY DEF Idle, Holding, CarryPhases, TweakPhases, AppendPhases, GapPhases
<1>1. CASE MigrateRetire(p)
  <2>1. /\ proc[p].phase = "migrated" /\ Goes(p, "migrateInstall") /\ Retires /\ Unlocked
        /\ UNCHANGED <<kept, dropped, severed, appended>>
    BY <1>1 DEF MigrateRetire
  <2>2. "migrateInstall" \in GapPhases /\ "migrateInstall" \notin AppendPhases
    BY DEF AppendPhases, GapPhases
  <2> QED
    BY <1>0, <2>1, <2>2, KeptRetire DEF Unlocked
<1>2. CASE MigrateInstall(p)
  <2>1. /\ proc[p].phase = "migrateInstall" /\ Installs(proc[p].copy) /\ Ends(p)
        /\ UNCHANGED <<kept, dropped, severed, appended>>
    BY <1>2 DEF MigrateInstall
  <2>2. "migrateInstall" \in GapPhases
    BY DEF GapPhases
  <2> QED
    BY <2>1, <2>2, KeptInstall
<1>3. ASSUME ~MigrateRetire(p), ~MigrateInstall(p)
      PROVE  /\ UNCHANGED <<manifest, there, kept, dropped, severed, appended>>
             /\ proc[p].phase \notin GapPhases
  BY <1>3 DEF Migrate, MigratePlan, MigrateRead, MigrateHash, MigrateHashed, EnsureRequest,
              EnsureResponse, PreviewEnds, MigrateBackup, GapPhases, Idle
<1>4. CASE MigrateRead(p)
  <2>1. ~MigrateRetire(p) /\ ~MigrateInstall(p)
    BY <1>4 DEF MigrateRead, MigrateRetire, MigrateInstall
  <2>2. CASE there
    <3>1. /\ proc'[p].phase = "rehash" /\ proc'[p].copy = manifest
          /\ \A q \in Procs \ {p} : proc'[q] = proc[q]
      BY <1>4, <2>2, WorksAt DEF MigrateRead
    <3> QED
      BY <1>0, <1>3, <2>1, <2>2, <3>1, KeptQuiet
  <2>3. CASE ~there
    <3>1. proc'[p] = Idle /\ \A q \in Procs \ {p} : proc'[q] = proc[q]
      BY <1>4, <2>3, EndsIdle DEF MigrateRead
    <3> QED
      BY <1>0, <1>3, <2>1, <3>1, KeptQuiet
  <2> QED
    BY <2>2, <2>3
<1>5. CASE MigrateHash(p)
  <2> DEFINE at == proc[p].at
             tx == proc[p].copy[at]
             new == [proc[p].copy EXCEPT ![at] = TxOf(tx.id, Rehashed(tx, request[tx.id]))]
  <2>1. /\ proc[p].phase = "rehash" /\ at \in DOMAIN proc[p].copy
        /\ ~MigrateRetire(p) /\ ~MigrateInstall(p)
    BY <1>5 DEF MigrateHash, MigrateRetire, MigrateInstall
  <2>2. CASE Ends(p)
    <3>1. proc'[p] = Idle /\ \A q \in Procs \ {p} : proc'[q] = proc[q]
      BY <2>2, EndsIdle
    <3> QED
      BY <1>0, <1>3, <2>1, <3>1, KeptQuiet
  <2>3. CASE Works(p, "rehash", new, at + 1, NoBody, proc[p].todo)
    <3>1. DOMAIN new = DOMAIN proc[p].copy /\ \A i \in DOMAIN new : new[i].id = proc[p].copy[i].id
      BY DEF TxOf
    <3> HIDE DEF new
    <3>2. /\ proc'[p].phase = "rehash" /\ proc'[p].copy = new
          /\ \A q \in Procs \ {p} : proc'[q] = proc[q]
      BY <2>3, WorksAt
    <3>3. Listed(proc'[p].copy) = Listed(proc[p].copy)
      BY <3>1, <3>2 DEF Listed
    <3> QED
      BY <1>0, <1>3, <2>1, <3>2, <3>3, KeptQuiet
  <2> QED
    BY <1>5, <2>2, <2>3 DEF MigrateHash
<1>6. CASE MigrateHashed(p) \/ EnsureRequest(p) \/ EnsureResponse(p) \/ MigrateBackup(p)
           \/ PreviewEnds(p)
  <2>1. /\ ~MigrateRetire(p) /\ ~MigrateInstall(p)
        /\ proc[p].phase \in {"rehash", "blobRequest", "blobResponse"}
    BY <1>6 DEF MigrateHashed, EnsureRequest, EnsureResponse, MigrateBackup, PreviewEnds,
                MigrateRetire, MigrateInstall
  <2>2. /\ \A q \in Procs \ {p} : proc'[q] = proc[q]
        /\ \/ proc'[p] = Idle
           \/ /\ proc'[p].phase \in {"blobRequest", "blobResponse", "migrated"}
              /\ proc'[p].copy = proc[p].copy
    <3>1. CASE MigrateHashed(p) \/ EnsureRequest(p) \/ MigrateBackup(p) \/ PreviewEnds(p)
      BY <3>1, GoesTo, EndsIdle DEF MigrateHashed, EnsureRequest, MigrateBackup, PreviewEnds
    <3>2. CASE EnsureResponse(p)
      BY <3>2, DoesOne DEF EnsureResponse
    <3> QED
      BY <1>6, <3>1, <3>2
  <2> QED
    BY <1>0, <1>3, <2>1, <2>2, KeptQuiet
<1>7. ASSUME NEW preview \in BOOLEAN, MigratePlan(p, preview) PROVE KeptInv'
  <2>1. proc'[p].phase = "planned" /\ \A q \in Procs \ {p} : proc'[q] = proc[q]
    BY <1>7, GoesTo DEF MigratePlan
  <2>2. ~MigrateRetire(p) /\ ~MigrateInstall(p)
    BY <1>7 DEF MigratePlan, MigrateRetire, MigrateInstall, Idle
  <2> QED
    BY <1>0, <1>3, <2>1, <2>2, KeptQuiet
<1> QED
  BY <1>1, <1>2, <1>4, <1>5, <1>6, <1>7 DEF Migrate

LEMMA NextKept ==
    ASSUME ListsInv, SurvivesInv, KeptInv, [NextMigration]_allVars
    PROVE  KeptInv'
<1>1. ASSUME NEW p \in Procs, Kill(p, Rewriting(p) \cup Creating(p)) PROVE KeptInv'
  <2>1. /\ proc'[p] = Idle /\ \A q \in Procs \ {p} : proc'[q] = proc[q]
        /\ UNCHANGED <<manifest, there, kept, dropped, appended>>
        /\ severed \/ proc[p].phase \in GapPhases => severed'
    BY <1>1, EndsIdle DEF Kill, source, Holding, GapPhases
  <2>2. Idle.phase \notin Holding \cup CarryPhases
    BY DEF Idle, Holding, CarryPhases, TweakPhases, AppendPhases
  <2> QED
    BY <2>1, <2>2, KeptQuiet
<1>2. ASSUME NEW p \in Procs, NEW body \in Bodies, AppendRaises(p, body) PROVE KeptInv'
  <2>1. /\ appended' = appended + 1 /\ appended \in Nat
        /\ UNCHANGED <<manifest, there, proc, kept, dropped, severed>>
    BY <1>2 DEF AppendRaises, source, history, ListsInv
  <2> QED
    BY <2>1 DEF KeptInv, Carries
<1>3. CASE UNCHANGED allVars
  BY <1>3 DEF allVars, vars, source, history, migrationVars, KeptInv, Carries
<1>4. ASSUME NEW p \in Procs, EditCalls(p) PROVE KeptInv'
  BY <1>1, <1>4, AppendKept, RecordKept, TweakKept, ForkKept DEF EditCalls, Begins
<1> QED
  BY <1>2, <1>3, <1>4, MigrateKept DEF NextMigration

LEMMA InitKept == InitMigration => KeptInv
<1> SUFFICES ASSUME NEW n \in 0 .. MaxImports, NEW old \in [1 .. n -> Imports],
                    InitWith([i \in 1 .. n |-> TxOf(i, old[i].hash)],
                             [id \in Ids |-> IF id <= n THEN old[id].request ELSE Gone],
                             {id \in 1 .. n : old[id].response})
             PROVE  KeptInv
  BY DEF InitMigration
<1> DEFINE log == [i \in 1 .. n |-> TxOf(i, old[i].hash)]
<1>1. /\ manifest = log /\ n \in Nat /\ DOMAIN log = 1 .. n
      /\ \A p \in Procs : proc[p] = Idle /\ kept = 1 .. n
  BY MigrationAssumption DEF InitWith
<1>2. Listed(manifest) = 1 .. n
  BY <1>1 DEF Listed, TxOf
<1>3. appended = n
  <2>1. \A f, k : k \in Nat /\ f = [i \in 1 .. k |-> f[i]] => Len(f) = k
    OBVIOUS
  <2> QED
    BY <1>1, <2>1 DEF InitWith
<1>4. kept # {} => there
  <2>1. there = (log # << >>) /\ kept = DOMAIN log
    BY <1>1 DEF InitWith
  <2>2. DOMAIN << >> = {}
    OBVIOUS
  <2> HIDE DEF log
  <2> QED
    BY <2>1, <2>2
<1>5. kept = 1 .. n
  BY <1>1 DEF InitWith
<1>6. Idle.phase \notin Holding \cup GapPhases \cup AppendPhases \cup CarryPhases
  BY DEF Idle, Holding, GapPhases, AppendPhases, CarryPhases, TweakPhases
<1> QED
  BY <1>1, <1>2, <1>3, <1>4, <1>5, <1>6 DEF KeptInv, Carries

LEMMA KeptAlways == SpecMigration => []KeptInv
BY InitKept, NextKept, ListsInvariant, SurvivesAlways, PTL DEF SpecMigration

\* append_transaction beside tweak_transaction, fork_cassette and
\* migrate_cassette: however they race, and wherever they are cut off but
\* between the two renames of a write, a transaction whose append returned
\* while no tweak or migration had the manifest in hand stays listed until a
\* tweak that saw it drops it.
THEOREM AppendsAreKept == SpecMigration => []AppendsStayListed
<1>1. KeptInv => AppendsStayListed
  BY DEF KeptInv, AppendsStayListed, Holding, GapPhases
<1> QED
  BY <1>1, KeptAlways, PTL

-----------------------------------------------------------------------------
(* What a call that nothing overlaps has loaded *)

HashedPhases == {"blobRequest", "blobResponse", "migrated"}

\* Until a call renames the manifest away, that still lists what it loaded.
CopyFits(r) ==
    /\ r.phase \in TweakPhases \ {"tweakInstall"} => r.copy = manifest
    /\ r.phase \in ForkPhases => r.at \in 0 .. Len(manifest) /\ r.copy = SubSeq(manifest, 1, r.at)
    /\ r.phase \in HashedPhases \cup {"rehash"} =>
          /\ DOMAIN r.copy = DOMAIN manifest
          /\ \A i \in DOMAIN manifest : r.copy[i].id = manifest[i].id

FitsInv == ~raced => \A p \in Procs : CopyFits(proc[p])

LEMMA FitsNothing ==
    ASSUME NEW p \in Procs,
           proc'[p].phase \in {"idle", "planned"} \cup AppendPhases \cup GapPhases
    PROVE  CopyFits(proc[p])'
BY DEF CopyFits, TweakPhases, ForkPhases, HashedPhases, AppendPhases, GapPhases

LEMMA FitsAgain ==
    ASSUME ListsInv, SurvivesInv, NEW p \in Procs,
           NotesRace(p) \/ (proc[p] # Idle /\ raced' = raced),
           \A q \in Procs \ {p} : proc'[q] = proc[q],
           ~raced' => CopyFits(proc[p])'
    PROVE  FitsInv'
<1> SUFFICES ASSUME ~raced' PROVE FitsInv'
  BY DEF FitsInv
<1>1. \A q \in Procs \ {p} : proc'[q] = Idle
  BY AloneNow
<1>2. \A q \in Procs \ {p} : CopyFits(proc[q])'
  BY <1>1 DEF CopyFits, Idle, TweakPhases, ForkPhases, HashedPhases
<1> QED
  BY <1>2 DEF FitsInv

\* A step of an edit that goes on with its copy, with the manifest left alone.
LEMMA FitsStill ==
    ASSUME ListsInv, SurvivesInv, FitsInv, NEW p \in Procs, proc[p] # Idle, raced' = raced,
           \A q \in Procs \ {p} : proc'[q] = proc[q], manifest' = manifest,
           proc'[p].copy = proc[p].copy, proc'[p].at = proc[p].at,
           \E phases \in {TweakPhases \ {"tweakInstall"}, ForkPhases, HashedPhases \cup {"rehash"}} :
              proc[p].phase \in phases /\ proc'[p].phase \in phases
    PROVE  FitsInv'
<1>1. ~raced' => CopyFits(proc[p])'
  BY DEF FitsInv, CopyFits, TweakPhases, ForkPhases, HashedPhases
<1> QED
  BY <1>1, FitsAgain

LEMMA CallsFit ==
    ASSUME ListsInv, SurvivesInv, FitsInv, NEW p \in Procs, EditCalls(p)
    PROVE  FitsInv'
<1> USE DEF source, history
<1>1. ASSUME NEW body \in Bodies, AppendTx(p, body) PROVE FitsInv'
  <2>1. /\ proc'[p].phase = "append" /\ NotesRace(p)
        /\ \A q \in Procs \ {p} : proc'[q] = proc[q]
    BY <1>1, WorksAt DEF AppendTx
  <2> QED
    BY <2>1, FitsNothing, FitsAgain DEF AppendPhases
<1>2. ASSUME NEW at \in Ids, NEW body \in Bodies, TweakLoad(p, at, body) PROVE FitsInv'
  <2>1. /\ proc'[p].phase = "rewrite" /\ proc'[p].copy = manifest /\ NotesRace(p)
        /\ \A q \in Procs \ {p} : proc'[q] = proc[q] /\ manifest' = manifest
    BY <1>2, WorksAt DEF TweakLoad
  <2>2. CopyFits(proc[p])'
    BY <1>2, <2>1 DEF CopyFits, TweakPhases, ForkPhases, HashedPhases, TweakLoad
  <2> QED
    BY <2>1, <2>2, FitsAgain
<1>3. ASSUME NEW seq \in 0 .. MaxTxs, ForkLoad(p, seq) PROVE FitsInv'
  <2>1. PICK todo : Works(p, "forkMake", SubSeq(manifest, 1, seq), seq, NoBody, todo)
    <3>1. Works(p, "forkMake", SubSeq(manifest, 1, seq), seq, NoBody,
                [i \in 1 .. seq |-> manifest[i].id])
      BY <1>3 DEF ForkLoad
    <3> QED
      BY <3>1, Zenon
  <2>2. /\ proc'[p].phase = "forkMake" /\ proc'[p].copy = SubSeq(manifest, 1, seq)
        /\ proc'[p].at = seq /\ \A q \in Procs \ {p} : proc'[q] = proc[q]
    <3>1. proc'[p].copy = SubSeq(manifest, 1, seq) /\ proc'[p].at = seq
      BY <2>1, WorksAt
    <3> QED
      BY <2>1, <3>1, WorksAt
  <2>3. NotesRace(p) /\ manifest' = manifest /\ seq \in 0 .. Len(manifest)
    BY <1>3 DEF ForkLoad
  <2>4. CopyFits(proc[p])'
    BY <2>2, <2>3 DEF CopyFits, TweakPhases, ForkPhases, HashedPhases
  <2> QED
    BY <2>2, <2>3, <2>4, FitsAgain
<1>4. CASE AppendRetire(p) \/ TweakRetire(p)
  <2>1. /\ proc'[p].phase \in GapPhases /\ raced' = raced /\ proc[p] # Idle
        /\ \A q \in Procs \ {p} : proc'[q] = proc[q]
    BY <1>4, GoesTo DEF AppendRetire, TweakRetire, GapPhases, Idle
  <2> QED
    BY <2>1, FitsNothing, FitsAgain
<1>5. CASE AppendInstall(p) \/ TweakInstall(p) \/ ForkInstall(p) \/ Kill(p, Rewriting(p) \cup Creating(p))
  <2>1. /\ proc'[p] = Idle /\ raced' = raced /\ proc[p] # Idle
        /\ \A q \in Procs \ {p} : proc'[q] = proc[q]
    BY <1>5, EndsIdle DEF AppendInstall, TweakInstall, ForkInstall, Kill, Idle
  <2>2. proc'[p].phase = "idle"
    BY <2>1 DEF Idle
  <2> QED
    BY <2>1, <2>2, FitsNothing, FitsAgain
<1>6. CASE TweakRewrite(p) \/ TweakUnlinkRequest(p) \/ TweakUnlinkResponse(p)
  <2>1. /\ proc'[p].copy = proc[p].copy /\ proc'[p].at = proc[p].at
        /\ \A q \in Procs \ {p} : proc'[q] = proc[q]
        /\ proc'[p].phase \in {"unlinkRequest", "unlinkResponse"}
    <3>1. CASE TweakRewrite(p) \/ TweakUnlinkRequest(p)
      BY <3>1, GoesTo DEF TweakRewrite, TweakUnlinkRequest
    <3>2. CASE TweakUnlinkResponse(p)
      BY <3>2, DoesOne DEF TweakUnlinkResponse
    <3> QED
      BY <1>6, <3>1, <3>2
  <2>2. /\ proc[p].phase \in TweakPhases \ {"tweakInstall"} /\ proc[p] # Idle
        /\ UNCHANGED <<manifest, raced>>
    BY <1>6 DEF TweakRewrite, TweakUnlinkRequest, TweakUnlinkResponse, TweakPhases, Idle
  <2>3. proc'[p].phase \in TweakPhases \ {"tweakInstall"}
    BY <2>1 DEF TweakPhases
  <2> QED
    BY <2>1, <2>2, <2>3, FitsStill
<1>7. CASE ForkMake(p) \/ ForkCopyRequest(p) \/ ForkCopyResponse(p) \/ ForkRetire(p)
  <2>1. /\ proc'[p].copy = proc[p].copy /\ proc'[p].at = proc[p].at
        /\ \A q \in Procs \ {p} : proc'[q] = proc[q]
        /\ proc'[p].phase \in ForkPhases
    <3>1. CASE ForkMake(p) \/ ForkCopyRequest(p) \/ ForkRetire(p)
      BY <3>1, GoesTo DEF ForkMake, ForkCopyRequest, ForkRetire, ForkPhases
    <3>2. CASE ForkCopyResponse(p)
      BY <3>2, DoesOne DEF ForkCopyResponse, ForkPhases
    <3> QED
      BY <1>7, <3>1, <3>2
  <2>2. /\ proc[p].phase \in ForkPhases /\ proc[p] # Idle
        /\ UNCHANGED <<manifest, raced>>
    BY <1>7 DEF ForkMake, ForkCopyRequest, ForkCopyResponse, ForkRetire, ForkPhases, Idle
  <2> QED
    BY <2>1, <2>2, FitsStill
<1> QED
  BY <1>1, <1>2, <1>3, <1>4, <1>5, <1>6, <1>7 DEF EditCalls, Begins, Record, Tweak, Fork

LEMMA MigrateFits ==
    ASSUME ListsInv, SurvivesInv, FitsInv, NEW p \in Procs,
           Migrate(p) \/ \E preview \in BOOLEAN : MigratePlan(p, preview)
    PROVE  FitsInv'
<1> USE DEF OnlyProc, migrationVars, source, history
<1>1. ASSUME NEW preview \in BOOLEAN, MigratePlan(p, preview) PROVE FitsInv'
  <2>1. /\ proc'[p].phase = "planned" /\ NotesRace(p)
        /\ \A q \in Procs \ {p} : proc'[q] = proc[q]
    BY <1>1, GoesTo DEF MigratePlan
  <2> QED
    BY <2>1, FitsNothing, FitsAgain
<1>2. ASSUME proc[p] # Idle, raced' = raced, Ends(p) PROVE FitsInv'
  <2>1. proc'[p].phase = "idle" /\ \A q \in Procs \ {p} : proc'[q] = proc[q]
    BY <1>2, EndsIdle DEF Idle
  <2> QED
    BY <1>2, <2>1, FitsNothing, FitsAgain
<1>3. CASE MigrateRead(p)
  <2>1. proc[p] # Idle /\ UNCHANGED <<raced, manifest>>
    BY <1>3 DEF MigrateRead, Idle
  <2>2. CASE there
    <3>1. /\ proc'[p].phase = "rehash" /\ proc'[p].copy = manifest
          /\ \A q \in Procs \ {p} : proc'[q] = proc[q]
      BY <1>3, <2>2, WorksAt DEF MigrateRead
    <3>2. CopyFits(proc[p])'
      BY <2>1, <3>1 DEF CopyFits, TweakPhases, ForkPhases, HashedPhases
    <3> QED
      BY <2>1, <3>1, <3>2, FitsAgain
  <2> QED
    BY <1>2, <1>3, <2>1, <2>2 DEF MigrateRead
<1>4. CASE MigrateHash(p)
  <2> DEFINE at == proc[p].at
             tx == proc[p].copy[at]
             h == Rehashed(tx, request[tx.id])
             new == [proc[p].copy EXCEPT ![at] = TxOf(tx.id, h)]
  <2>1. proc[p] # Idle /\ UNCHANGED <<raced, manifest>> /\ proc[p].phase = "rehash"
        /\ at \in DOMAIN proc[p].copy
    BY <1>4 DEF MigrateHash, Idle
  <2>2. CASE Works(p, "rehash", new, at + 1, NoBody, proc[p].todo)
    <3>1. DOMAIN new = DOMAIN proc[p].copy /\ \A i \in DOMAIN new : new[i].id = proc[p].copy[i].id
      BY DEF TxOf
    <3> HIDE DEF new
    <3>2. /\ proc'[p].phase = "rehash" /\ proc'[p].copy = new
          /\ \A q \in Procs \ {p} : proc'[q] = proc[q]
      BY <2>2, WorksAt
    <3>3. ~raced' => CopyFits(proc[p])'
      BY <2>1, <3>1, <3>2 DEF FitsInv, CopyFits, TweakPhases, ForkPhases, HashedPhases
    <3> QED
      BY <2>1, <3>2, <3>3, FitsAgain
  <2> QED
    BY <1>2, <1>4, <2>1, <2>2 DEF MigrateHash
<1>5. CASE MigrateHashed(p) \/ EnsureRequest(p) \/ MigrateBackup(p)
  <2>1. (\E phase \in HashedPhases : Goes(p, phase)) \/ Ends(p)
    BY <1>5 DEF MigrateHashed, EnsureRequest, MigrateBackup, HashedPhases
  <2>2. /\ UNCHANGED <<manifest, raced>> /\ proc[p].phase \in HashedPhases \cup {"rehash"}
        /\ proc[p] # Idle
    BY <1>5 DEF MigrateHashed, EnsureRequest, MigrateBackup, HashedPhases, Idle
  <2> QED
    BY <1>2, <2>1, <2>2, GoesTo, FitsStill
<1>6. CASE EnsureResponse(p)
  <2>1. /\ proc' = [proc EXCEPT ![p].phase = "blobRequest", ![p].todo = Tail(@)]
        /\ UNCHANGED <<manifest, raced>> /\ proc[p].phase \in HashedPhases /\ proc[p] # Idle
        /\ "blobRequest" \in HashedPhases
    BY <1>6 DEF EnsureResponse, HashedPhases, Idle
  <2>2. /\ proc'[p].phase = "blobRequest" /\ proc'[p].copy = proc[p].copy
        /\ proc'[p].at = proc[p].at /\ \A q \in Procs \ {p} : proc'[q] = proc[q]
    BY <2>1, DoesOne
  <2> QED
    BY <2>1, <2>2, FitsStill
<1>7. CASE PreviewEnds(p) \/ MigrateInstall(p)
  <2>1. Ends(p) /\ raced' = raced /\ proc[p] # Idle
    BY <1>7 DEF PreviewEnds, MigrateInstall, Idle
  <2> QED
    BY <1>2, <2>1
<1>8. CASE MigrateRetire(p)
  <2>1. /\ proc'[p].phase \in GapPhases /\ raced' = raced /\ proc[p] # Idle
        /\ \A q \in Procs \ {p} : proc'[q] = proc[q]
    BY <1>8, GoesTo DEF MigrateRetire, GapPhases, Idle
  <2> QED
    BY <2>1, FitsNothing, FitsAgain
<1> QED
  BY <1>1, <1>3, <1>4, <1>5, <1>6, <1>7, <1>8 DEF Migrate

LEMMA NextFits ==
    ASSUME ListsInv, SurvivesInv, FitsInv, [NextMigration]_allVars
    PROVE  FitsInv'
<1>1. ASSUME NEW p \in Procs, NEW body \in Bodies, AppendRaises(p, body) PROVE FitsInv'
  BY <1>1 DEF AppendRaises, FitsInv, CopyFits, source, history
<1>2. CASE UNCHANGED allVars
  BY <1>2 DEF allVars, vars, source, history, FitsInv, CopyFits
<1> QED
  BY <1>1, <1>2, CallsFit, MigrateFits DEF NextMigration

LEMMA InitFits == InitMigration => FitsInv
BY DEF InitMigration, InitWith, FitsInv, CopyFits, Idle, TweakPhases, ForkPhases, HashedPhases

LEMMA FitsAlways == SpecMigration => []FitsInv
BY InitFits, NextFits, ListsInvariant, SurvivesAlways, PTL DEF SpecMigration

-----------------------------------------------------------------------------
(* The keys a migration gives *)

\* The key of an imported transaction: that of its request, if there is one.
KeyOf(i) == IF imported[i].request = Gone THEN imported[i].hash ELSE imported[i].request

KeyedPhases == HashedPhases \cup {"migrateInstall"}

\* A migration has given the transactions before "at", and in the end all of
\* them, their keys.
HasKeyed(r) ==
    /\ r.phase = "rehash" =>
          /\ r.at \in Nat \ {0}
          /\ \A i \in DOMAIN imported :
                r.copy[i] = TxOf(i, IF i < r.at THEN KeyOf(i) ELSE imported[i].hash)
    /\ r.phase \in KeyedPhases =>
          /\ DOMAIN r.copy = DOMAIN imported
          /\ \A i \in DOMAIN imported : r.copy[i] = TxOf(i, KeyOf(i))

Untouched == \A i \in DOMAIN imported : request[i] = imported[i].request

\* The request files are the imported ones, until a migration that is no dry
\* run creates blobs or a dry run has; the file is away while a migration is
\* between its renames.
KeysInv ==
    /\ imported \in Seq(Imports)
    /\ version = 0 /\ ~previewed /\ ~cut /\ ~raced =>
          /\ (\A p \in Procs \ dry : proc[p].phase \notin KeyedPhases) => Untouched
          /\ \A p \in Procs : HasKeyed(proc[p])
    /\ version = 0 /\ ~cut /\ ~raced /\ ~there => \E p \in Procs : proc[p].phase = "migrateInstall"

LEMMA InitKeys == InitMigration => KeysInv
<1> SUFFICES ASSUME NEW n \in 0 .. MaxImports, NEW old \in [1 .. n -> Imports],
                    InitWith([i \in 1 .. n |-> TxOf(i, old[i].hash)],
                             [id \in Ids |-> IF id <= n THEN old[id].request ELSE Gone],
                             {id \in 1 .. n : old[id].response}),
                    imported = old, version = IF n = 0 THEN 1 ELSE 0
             PROVE  KeysInv
  BY DEF InitMigration
<1>1. n \in Nat /\ MaxTxs \in Nat /\ n <= MaxTxs
  BY EditsAssumption, MigrationAssumption
<1>2. imported \in Seq(Imports) /\ DOMAIN imported = 1 .. n
  BY <1>1
<1>3. Untouched
  <2>1. \A i \in 1 .. n : i \in Ids /\ i <= n
    BY <1>1 DEF Ids
  <2> QED
    BY <1>2, <2>1 DEF Untouched, InitWith
<1>4. \A p \in Procs : HasKeyed(proc[p])
  BY DEF InitWith, HasKeyed, Idle, KeyedPhases, HashedPhases
<1>5. n # 0 => there
  <2> DEFINE log == [i \in 1 .. n |-> TxOf(i, old[i].hash)]
  <2>1. n # 0 => 1 \in DOMAIN log
    BY <1>1
  <2>2. there = (log # << >>) /\ DOMAIN << >> = {}
    BY DEF InitWith
  <2> HIDE DEF log
  <2> QED
    BY <2>1, <2>2
<1> QED
  BY <1>2, <1>3, <1>4, <1>5 DEF KeysInv

\* What was imported has the first ids.
LEMMA ImportedIds ==
    ASSUME ListsInv, SurvivesInv, KeysInv, Legacy
    PROVE  /\ DOMAIN manifest = DOMAIN imported /\ DOMAIN imported = 1 .. Len(imported)
           /\ Len(imported) \in Nat
           /\ \A i \in DOMAIN imported :
                 i \in Ids /\ i <= appended /\ manifest[i] = TxOf(i, imported[i].hash)
<1>1. manifest = Original
  BY DEF SurvivesInv
<1>2. \A i \in DOMAIN imported : manifest[i] = TxOf(i, imported[i].hash) /\ manifest[i].id = i
  BY <1>1 DEF Original, TxOf
<1>3. DOMAIN manifest = DOMAIN imported
  BY <1>1 DEF Original
<1>4. \A i \in DOMAIN imported : manifest[i].id \in Ids /\ manifest[i].id <= appended
  BY <1>3, ListedTx DEF ListsInv
<1> QED
  BY <1>2, <1>3, <1>4 DEF KeysInv

\* A step that overlaps with no other call.
LEMMA KeysAgain ==
    ASSUME ListsInv, SurvivesInv, KeysInv, NEW p \in Procs,
           NotesRace(p) \/ (proc[p] # Idle /\ raced' = raced),
           \A q \in Procs \ {p} : proc'[q] = proc[q], imported' = imported,
           version' = 0 /\ ~previewed' /\ ~cut' /\ ~raced' =>
               /\ p \in dry' \/ proc'[p].phase \notin KeyedPhases => Untouched'
               /\ HasKeyed(proc[p])',
           version' = 0 /\ ~cut' /\ ~raced' => there' \/ proc'[p].phase = "migrateInstall"
    PROVE  KeysInv'
<1> SUFFICES ASSUME version' = 0, ~previewed', ~cut', ~raced' PROVE KeysInv'
  BY DEF KeysInv
<1>1. \A q \in Procs \ {p} : proc'[q] = Idle
  BY AloneNow
<1>2. \A q \in Procs \ {p} : HasKeyed(proc[q])'
  BY <1>1 DEF HasKeyed, Idle, KeyedPhases, HashedPhases
<1> QED
  BY <1>2 DEF KeysInv

\* Where the request files are the imported ones.
LEMMA NotTouched ==
    ASSUME SurvivesInv, KeysInv, version = 0, ~previewed, ~cut, ~raced, NEW p \in Procs,
           \A q \in Procs \ {p} : proc[q] = Idle,
           p \in dry \/ proc[p].phase \notin KeyedPhases
    PROVE  Untouched
<1>1. \A q \in Procs \ dry : proc[q].phase \notin KeyedPhases
  BY DEF Idle, KeyedPhases, HashedPhases
<1> QED
  BY <1>1 DEF KeysInv

\* A migration that renames the file away is between its renames.
LEMMA MigrateStays ==
    ASSUME ListsInv, SurvivesInv, KeysInv, NEW p \in Procs, Migrate(p)
    PROVE  version' = 0 /\ ~cut' /\ ~raced' => there' \/ proc'[p].phase = "migrateInstall"
<1>1. CASE MigrateRetire(p)
  BY <1>1, GoesTo DEF MigrateRetire
<1>2. CASE MigrateInstall(p)
  BY <1>2 DEF MigrateInstall
<1>3. CASE ~MigrateRetire(p) /\ ~MigrateInstall(p)
  <2>1. there' = there /\ cut' = cut /\ raced' = raced /\ version' = version
    BY <1>3 DEF Migrate, MigrateRead, MigrateHash, MigrateHashed, EnsureRequest, EnsureResponse,
                PreviewEnds, MigrateBackup, OnlyProc, source, history, migrationVars
  <2>2. proc[p].phase \in MigratePhases \ {"migrateInstall"} /\ proc[p] # Idle
    BY <1>3 DEF Migrate, MigrateRead, MigrateHash, MigrateHashed, EnsureRequest, EnsureResponse,
                PreviewEnds, MigrateBackup, MigratePhases, Idle
  <2> QED
    BY <2>1, <2>2 DEF SurvivesInv
<1> QED
  BY <1>1, <1>2, <1>3

LEMMA MigrateKeys ==
    ASSUME ListsInv, SurvivesInv, FitsInv, KeysInv, NEW p \in Procs,
           Migrate(p) \/ \E preview \in BOOLEAN : MigratePlan(p, preview)
    PROVE  KeysInv'
<1> USE DEF OnlyProc, migrationVars, source, history
<1>1. imported' = imported /\ cut' = cut /\ (previewed => previewed')
  <2>1. EnsureRequest(p) => imported' = imported /\ cut' = cut /\ (previewed => previewed')
    BY Zenon DEF EnsureRequest
  <2>2. ~EnsureRequest(p) => UNCHANGED <<imported, cut, previewed>>
    BY DEF Migrate, MigratePlan, MigrateRead, MigrateHash, MigrateHashed,
           EnsureResponse, PreviewEnds, MigrateBackup, MigrateRetire, MigrateInstall
  <2> QED
    BY <2>1, <2>2
<1>2. ASSUME NEW preview \in BOOLEAN, MigratePlan(p, preview) PROVE KeysInv'
  <2>1. /\ NotesRace(p) /\ Goes(p, "planned") /\ UNCHANGED request /\ version = 0
        /\ proc[p] = Idle /\ there'
    BY <1>2 DEF MigratePlan, Legacy
  <2>2. proc'[p].phase = "planned" /\ \A q \in Procs \ {p} : proc'[q] = proc[q]
    BY <2>1, GoesTo
  <2>3. HasKeyed(proc[p])'
    BY <2>2 DEF HasKeyed, KeyedPhases, HashedPhases
  <2>4. ASSUME version' = 0, ~previewed', ~cut', ~raced' PROVE Untouched'
    <3>1. ~raced /\ \A q \in Procs \ {p} : proc[q] = Idle
      BY <2>1, <2>4, AloneNow
    <3>2. Idle.phase \notin KeyedPhases
      BY DEF Idle, KeyedPhases, HashedPhases
    <3>3. Untouched
      BY <1>1, <2>1, <2>4, <3>1, <3>2, NotTouched
    <3> QED
      BY <1>1, <2>1, <3>3 DEF Untouched
  <2> QED
    BY <1>1, <2>1, <2>2, <2>3, <2>4, KeysAgain
<1> SUFFICES ASSUME Migrate(p) PROVE KeysInv'
  BY <1>2
<1>3. /\ proc[p] # Idle /\ raced' = raced
      /\ \A q \in Procs \ {p} : proc'[q] = proc[q]
  <2>1. proc[p].phase # "idle"
    BY DEF Migrate, MigrateRead, MigrateHash, MigrateHashed, EnsureRequest, EnsureResponse,
           PreviewEnds, MigrateBackup, MigrateRetire, MigrateInstall
  <2>2. proc[p] # Idle
    BY <2>1 DEF Idle
  <2> QED
    BY <2>2 DEF Migrate, MigrateRead, MigrateHash, MigrateHashed, EnsureRequest,
       EnsureResponse, PreviewEnds, MigrateBackup, MigrateRetire, MigrateInstall, Works, Goes, Ends,
       ListsInv
<1> SUFFICES ASSUME version' = 0, ~previewed', ~cut', ~raced'
             PROVE  /\ p \in dry' \/ proc'[p].phase \notin KeyedPhases => Untouched'
                    /\ HasKeyed(proc[p])'
  <2>1. version' = 0 /\ ~cut' /\ ~raced' => there' \/ proc'[p].phase = "migrateInstall"
    BY MigrateStays
  <2> QED
    BY <1>1, <1>3, <2>1, KeysAgain
<1>4. /\ ~previewed /\ ~cut /\ ~raced /\ \A q \in Procs \ {p} : proc[q] = Idle
  BY <1>1, <1>3, AloneNow
<1>5. proc[p].phase \in MigratePhases
  BY DEF Migrate, MigrateRead, MigrateHash, MigrateHashed, EnsureRequest, EnsureResponse,
         PreviewEnds, MigrateBackup, MigrateRetire, MigrateInstall, MigratePhases
<1> SUFFICES ASSUME ~MigrateInstall(p)
             PROVE  /\ p \in dry' \/ proc'[p].phase \notin KeyedPhases => Untouched'
                    /\ HasKeyed(proc[p])'
  BY DEF MigrateInstall
<1>6. version = 0 /\ there
  <2>1. proc[p].phase # "migrateInstall"
    BY DEF Migrate, MigrateRead, MigrateHash, MigrateHashed, EnsureRequest, EnsureResponse,
           PreviewEnds, MigrateBackup, MigrateRetire
  <2> QED
    BY <1>4, <1>5, <2>1 DEF SurvivesInv
<1>7. /\ DOMAIN manifest = DOMAIN imported /\ DOMAIN imported = 1 .. Len(imported)
      /\ Len(imported) \in Nat
      /\ \A i \in DOMAIN imported :
            i \in Ids /\ i <= appended /\ manifest[i] = TxOf(i, imported[i].hash)
  BY <1>6, ImportedIds DEF Legacy
<1>8. HasKeyed(proc[p]) /\ CopyFits(proc[p])
  BY <1>4, <1>6 DEF KeysInv, FitsInv
<1>9. CASE MigrateRead(p)
  <2>1. /\ UNCHANGED request /\ proc[p].phase = "planned"
        /\ proc'[p].phase = "rehash" /\ proc'[p].copy = manifest /\ proc'[p].at = 1
    BY <1>6, <1>9, WorksAt DEF MigrateRead
  <2>2. Untouched
    BY <1>4, <1>6, <2>1, NotTouched DEF KeyedPhases, HashedPhases
  <2>3. HasKeyed(proc[p])'
    BY <1>1, <1>7, <2>1 DEF HasKeyed, KeyedPhases, HashedPhases
  <2> QED
    BY <1>1, <2>1, <2>2, <2>3 DEF Untouched
<1>10. CASE MigrateHash(p)
  <2> DEFINE at == proc[p].at
             tx == proc[p].copy[at]
             h == Rehashed(tx, request[tx.id])
             new == [proc[p].copy EXCEPT ![at] = TxOf(tx.id, h)]
  <2>1. /\ UNCHANGED request /\ proc[p].phase = "rehash" /\ at \in DOMAIN proc[p].copy
    BY <1>10 DEF MigrateHash
  <2>2. Untouched
    BY <1>4, <1>6, <2>1, NotTouched DEF KeyedPhases, HashedPhases
  <2>3. Untouched'
    BY <1>1, <2>1, <2>2 DEF Untouched
  <2>4. CASE Ends(p)
    BY <2>3, <2>4, EndsIdle DEF HasKeyed, Idle, KeyedPhases, HashedPhases
  <2>5. CASE Works(p, "rehash", new, at + 1, NoBody, proc[p].todo)
    <3>1. DOMAIN proc[p].copy = DOMAIN imported
      BY <1>7, <1>8, <2>1 DEF CopyFits
    <3>2. tx = TxOf(at, imported[at].hash) /\ at \in Nat \ {0}
      BY <1>8, <2>1, <3>1 DEF HasKeyed
    <3>3. tx.id = at /\ tx.hash = imported[at].hash
      BY <3>2 DEF TxOf
    <3>4. h = KeyOf(at)
      BY <2>1, <2>2, <3>1, <3>3 DEF Rehashed, KeyOf, Untouched
    <3>5. /\ new[at] = TxOf(at, KeyOf(at))
          /\ \A i \in DOMAIN imported : i # at => new[i] = proc[p].copy[i]
      BY <2>1, <3>1, <3>3, <3>4
    <3> HIDE DEF new, tx, h
    <3>6. /\ proc'[p].phase = "rehash" /\ proc'[p].copy = new /\ proc'[p].at = at + 1
      BY <2>5, WorksAt
    <3>7. ASSUME NEW i \in DOMAIN imported
          PROVE  new[i] = TxOf(i, IF i < at + 1 THEN KeyOf(i) ELSE imported[i].hash)
      <4>1. i \in Nat
        BY <1>7
      <4>2. CASE i = at
        BY <3>2, <3>5, <4>2
      <4>3. CASE i # at
        <5>1. i < at + 1 <=> i < at
          BY <3>2, <4>1, <4>3
        <5>2. new[i] = TxOf(i, IF i < at THEN KeyOf(i) ELSE imported[i].hash)
          BY <1>8, <2>1, <3>5, <4>3 DEF HasKeyed
        <5> QED
          BY <5>1, <5>2
      <4> QED
        BY <4>2, <4>3
    <3>8. HasKeyed(proc[p])'
      BY <1>1, <3>2, <3>6, <3>7 DEF HasKeyed, KeyedPhases, HashedPhases, KeyOf
    <3> QED
      BY <2>3, <3>8
  <2> QED
    BY <1>10, <2>4, <2>5 DEF MigrateHash
<1>11. CASE MigrateHashed(p)
  <2>1. /\ UNCHANGED request /\ proc[p].phase = "rehash" /\ proc[p].at \notin DOMAIN proc[p].copy
        /\ proc'[p].phase = "blobRequest" /\ proc'[p].copy = proc[p].copy
    BY <1>11, GoesTo DEF MigrateHashed
  <2>2. Untouched
    BY <1>4, <1>6, <2>1, NotTouched DEF KeyedPhases, HashedPhases
  <2>3. \A i \in DOMAIN imported : i < proc[p].at
    <3>1. DOMAIN proc[p].copy = 1 .. Len(imported) /\ proc[p].at \in Nat \ {0}
      BY <1>7, <1>8, <2>1 DEF CopyFits, HasKeyed
    <3> QED
      BY <1>7, <2>1, <3>1
  <2>4. HasKeyed(proc[p])'
    <3>1. DOMAIN proc[p].copy = DOMAIN imported
      BY <1>7, <1>8, <2>1 DEF CopyFits
    <3> QED
      BY <1>1, <1>8, <2>1, <2>3, <3>1 DEF HasKeyed, KeyedPhases, HashedPhases, KeyOf
  <2> QED
    BY <1>1, <2>1, <2>2, <2>4 DEF Untouched
<1>12. CASE EnsureRequest(p) \/ EnsureResponse(p) \/ MigrateBackup(p) \/ MigrateRetire(p)
  <2>1. /\ proc[p].phase \in KeyedPhases /\ proc'[p].phase \in KeyedPhases
        /\ proc'[p].copy = proc[p].copy
    <3>1. CASE EnsureRequest(p) \/ MigrateBackup(p) \/ MigrateRetire(p)
      <4>1. \E phase \in KeyedPhases : Goes(p, phase)
        BY <1>6, <3>1 DEF MigrateRetire, EnsureRequest, MigrateBackup, KeyedPhases, HashedPhases
      <4>2. proc[p].phase \in KeyedPhases
        BY <3>1 DEF MigrateRetire, EnsureRequest, MigrateBackup, KeyedPhases, HashedPhases
      <4> QED
        BY <4>1, <4>2, GoesTo
    <3>2. CASE EnsureResponse(p)
      BY <3>2, DoesOne DEF EnsureResponse, KeyedPhases, HashedPhases
    <3> QED
      BY <1>12, <3>1, <3>2
  <2>2. HasKeyed(proc[p])'
    BY <1>1, <1>8, <2>1 DEF HasKeyed, KeyedPhases, HashedPhases, KeyOf
  <2>3. ASSUME p \in dry' PROVE Untouched'
    <3>1. p \in dry
      BY <1>12, <2>3 DEF EnsureRequest, EnsureResponse, MigrateBackup, MigrateRetire
    <3>2. Untouched
      BY <1>4, <1>6, <3>1, NotTouched
    <3>3. request' = request
      <4>1. CASE EnsureRequest(p)
        <5>1. request[Head(proc[p].todo)] # Gone
          BY <1>4, <3>1, <4>1 DEF EnsureRequest
        <5> QED
          BY <4>1, <5>1 DEF EnsureRequest, ListsInv
      <4> QED
        BY <1>12, <4>1 DEF EnsureResponse, MigrateBackup, MigrateRetire
    <3> QED
      BY <1>1, <3>2, <3>3 DEF Untouched
  <2> QED
    BY <2>1, <2>2, <2>3
<1>13. CASE PreviewEnds(p)
  <2>1. p \in dry /\ UNCHANGED request /\ proc'[p] = Idle
    BY <1>13, EndsIdle DEF PreviewEnds
  <2>2. Untouched
    BY <1>4, <1>6, <2>1, NotTouched
  <2> QED
    BY <1>1, <2>1, <2>2 DEF Untouched, HasKeyed, Idle, KeyedPhases, HashedPhases
<1> QED
  BY <1>9, <1>10, <1>11, <1>12, <1>13 DEF Migrate

LEMMA NextKeys ==
    ASSUME ListsInv, SurvivesInv, FitsInv, KeysInv, [NextMigration]_allVars
    PROVE  KeysInv'
<1>1. ASSUME NEW p \in Procs, EditCalls(p) PROVE KeysInv'
  <2>1. UNCHANGED imported
    BY <1>1 DEF EditCalls
  <2>2. CASE Kill(p, Rewriting(p) \cup Creating(p))
    BY <2>1, <2>2 DEF Kill, KeysInv
  <2>3. CASE ~Kill(p, Rewriting(p) \cup Creating(p))
    <3> SUFFICES ASSUME version' = 0, ~cut', ~raced' PROVE FALSE
      BY <2>1 DEF KeysInv
    <3>1. version = 0
      BY <1>1 DEF EditCalls, ListsInv
    <3>2. (~Legacy /\ Begins(p)) \/ Record(p) \/ Tweak(p) \/ Fork(p)
      BY <1>1, <2>3 DEF EditCalls
    <3>3. /\ ~cut /\ ~raced /\ ~Legacy
          /\ \/ NotesRace(p) /\ proc[p] = Idle
             \/ proc[p] # Idle /\ proc[p].phase \in EditPhases
      <4>1. CASE ~Legacy /\ Begins(p)
        <5>1. proc[p] = Idle /\ NotesRace(p) /\ cut' = cut
          <6>1. ASSUME NEW body \in Bodies, AppendTx(p, body)
                PROVE  proc[p] = Idle /\ NotesRace(p) /\ cut' = cut
            BY <6>1 DEF AppendTx
          <6>2. ASSUME NEW at \in Ids, NEW body \in Bodies, TweakLoad(p, at, body)
                PROVE  proc[p] = Idle /\ NotesRace(p) /\ cut' = cut
            BY <6>2 DEF TweakLoad
          <6>3. ASSUME NEW seq \in 0 .. MaxTxs, ForkLoad(p, seq)
                PROVE  proc[p] = Idle /\ NotesRace(p) /\ cut' = cut
            BY <6>3 DEF ForkLoad
          <6> QED
            BY <4>1, <6>1, <6>2, <6>3 DEF Begins
        <5>2. ~cut
          BY <5>1
        <5>3. ~raced
          BY <5>1, Zenon DEF NotesRace
        <5> QED
          BY <4>1, <5>1, <5>2, <5>3
      <4>2. CASE Record(p) \/ Tweak(p) \/ Fork(p)
        <5>1. raced' = raced /\ proc[p].phase \in EditPhases /\ proc[p] # Idle
          BY <4>2, EditSteps, Apart
        <5>2. cut' = cut
          BY <4>2 DEF Record, AppendRetire, AppendInstall, Tweak, TweakRewrite, TweakUnlinkRequest,
                 TweakUnlinkResponse, TweakRetire, TweakInstall, Fork, ForkMake, ForkCopyRequest,
                 ForkCopyResponse, ForkRetire, ForkInstall, history
        <5>3. ~Legacy
          BY <5>1 DEF SurvivesInv
        <5> QED
          BY <5>1, <5>2, <5>3
      <4> QED
        BY <3>2, <4>1, <4>2
    <3>4. PICK q \in Procs : proc[q].phase = "migrateInstall"
      BY <3>1, <3>3 DEF KeysInv, Legacy, SurvivesInv
    <3>5. q # p /\ proc[q] # Idle
      BY <3>3, <3>4, Apart
    <3> QED
      BY <3>3, <3>5 DEF NotesRace, SurvivesInv
  <2> QED
    BY <2>2, <2>3
<1>2. ASSUME NEW p \in Procs, NEW body \in Bodies, AppendRaises(p, body) PROVE KeysInv'
  <2>1. /\ request' = [request EXCEPT ![appended + 1] = body] /\ Legacy
        /\ UNCHANGED <<proc, dry, imported, version, previewed, cut, raced, there>>
    BY <1>2 DEF AppendRaises, source, history, migrationVars
  <2>2. \A i \in DOMAIN imported : request'[i] = request[i]
    <3>1. \A i \in DOMAIN imported : i \in Ids /\ i \in Nat /\ i <= appended /\ appended \in Nat
      BY <2>1, ImportedIds DEF ListsInv
    <3>2. \A i \in DOMAIN imported : i # appended + 1
      BY <3>1
    <3> QED
      BY <2>1, <3>1, <3>2 DEF ListsInv
  <2>3. Untouched => Untouched'
    BY <2>1, <2>2 DEF Untouched
  <2> QED
    BY <2>1, <2>3 DEF KeysInv, HasKeyed, KeyOf
<1>3. CASE UNCHANGED allVars
  BY <1>3 DEF allVars, vars, source, history, migrationVars, KeysInv, HasKeyed, KeyOf, Untouched
<1> QED
  BY <1>1, <1>2, <1>3, MigrateKeys DEF NextMigration

LEMMA KeysAlways == SpecMigration => []KeysInv
BY InitKeys, NextKeys, ListsInvariant, SurvivesAlways, FitsAlways, PTL DEF SpecMigration

\* migrate_cassette: the step that makes a cassette one of version 1 gives
\* each transaction that was imported the key of its request, or leaves it its
\* hash when there was none, in the imported order: unless a dry run created
\* blobs before, a migration was cut off, or another call overlapped.
THEOREM MigrationGivesKeys == SpecMigration => MigrationKeepsKeys
<1> DEFINE Keyed == [i \in DOMAIN imported |->
                       TxOf(i, IF imported[i].request = Gone THEN imported[i].hash
                               ELSE imported[i].request)]
           Step == version = 0 /\ version' = 1 /\ ~previewed /\ ~cut /\ ~raced
                   => manifest' = Keyed
<1>1. ASSUME ListsInv, SurvivesInv, KeysInv, [NextMigration]_allVars
      PROVE  [Step]_allVars
  <2> SUFFICES ASSUME NextMigration, version = 0, version' = 1, ~previewed, ~cut, ~raced
               PROVE  manifest' = Keyed
    BY <1>1
  <2>1. ASSUME NEW p \in Procs, Record(p) PROVE FALSE
    <3>1. proc[p].phase \in EditPhases /\ ~Legacy
      BY <1>1, <2>1, EditSteps DEF SurvivesInv
    <3>2. PICK q \in Procs : proc[q].phase = "migrateInstall"
      BY <1>1, <3>1 DEF KeysInv, Legacy, SurvivesInv
    <3>3. q # p /\ proc[q] # Idle /\ proc[p] # Idle
      BY <3>1, <3>2, Apart
    <3> QED
      BY <1>1, <3>3 DEF SurvivesInv
  <2>2. PICK p \in Procs : MigrateInstall(p)
    BY <2>1 DEF NextMigration, EditCalls, migrationVars, AppendRaises, MigratePlan, Migrate,
           OnlyProc, MigrateRead, MigrateHash, MigrateHashed, EnsureRequest, EnsureResponse,
           PreviewEnds, MigrateBackup, MigrateRetire
  <2>3. proc[p].phase = "migrateInstall" /\ manifest' = proc[p].copy
    BY <2>2 DEF MigrateInstall, Installs
  <2>4. /\ DOMAIN proc[p].copy = DOMAIN imported
        /\ \A i \in DOMAIN imported : proc[p].copy[i] = TxOf(i, KeyOf(i))
    BY <1>1, <2>3 DEF KeysInv, HasKeyed, KeyedPhases
  <2>5. proc[p].copy = [i \in DOMAIN proc[p].copy |-> proc[p].copy[i]]
    BY <1>1 DEF ListsInv, IsEdit, Listing
  <2> QED
    BY <2>3, <2>4, <2>5 DEF KeyOf
<1>2. SpecMigration => [][Step]_allVars
  BY <1>1, ListsInvariant, SurvivesAlways, KeysAlways, PTL DEF SpecMigration
<1> QED
  BY <1>2, PTL DEF MigrationKeepsKeys

-----------------------------------------------------------------------------
(* The files of what is listed *)

\* What is left to do.
Left(todo) == {todo[k] : k \in DOMAIN todo}

LEMMA LeftTail ==
    ASSUME NEW S, NEW todo \in Seq(S), todo # << >>
    PROVE  /\ Tail(todo) \in Seq(S) /\ Head(todo) \in S /\ Head(todo) \in Left(todo)
           /\ \A x \in Left(todo) : x = Head(todo) \/ x \in Left(Tail(todo))
           /\ Left(Tail(todo)) \subseteq Left(todo)
<1>1. /\ Tail(todo) \in Seq(S) /\ Head(todo) = todo[1] /\ DOMAIN todo = 1 .. Len(todo)
      /\ Len(todo) \in Nat \ {0} /\ DOMAIN Tail(todo) = 1 .. Len(todo) - 1
      /\ \A k \in 1 .. Len(todo) - 1 : Tail(todo)[k] = todo[k + 1]
  BY HeadTailProperties
<1>2. Head(todo) \in S /\ Head(todo) \in Left(todo)
  BY <1>1 DEF Left
<1>3. ASSUME NEW k \in DOMAIN todo, k # 1 PROVE todo[k] \in Left(Tail(todo))
  <2>1. k - 1 \in DOMAIN Tail(todo) /\ Tail(todo)[k - 1] = todo[k]
    BY <1>1, <1>3
  <2> QED
    BY <2>1 DEF Left
<1>4. Left(Tail(todo)) \subseteq Left(todo)
  <2>1. \A k \in DOMAIN Tail(todo) : k + 1 \in DOMAIN todo /\ Tail(todo)[k] = todo[k + 1]
    BY <1>1
  <2> QED
    BY <2>1 DEF Left
<1>5. \A x \in Left(todo) : x = Head(todo) \/ x \in Left(Tail(todo))
  BY <1>1, <1>3 DEF Left
<1> QED
  BY <1>1, <1>2, <1>4, <1>5

LEMMA NothingLeft == ASSUME NEW todo, todo = << >> PROVE Left(todo) = {}
BY DEF Left

\* Transactions of a manifest have different ids.
LEMMA DifferentIds ==
    ASSUME NEW n, NEW log, Listing(log, n), NEW i \in DOMAIN log, NEW j \in DOMAIN log, i # j
    PROVE  log[i].id # log[j].id
<1>1. i \in Nat /\ j \in Nat /\ log[i].id \in Nat /\ log[j].id \in Nat
  BY ListedTx DEF Listing
<1>2. i < j \/ j < i
  BY <1>1
<1> QED
  BY <1>1, <1>2 DEF Listing

\* The ids of a manifest, in a list.
LEMMA IdsOf ==
    ASSUME NEW n, NEW log, Listing(log, n), NEW k \in 0 .. Len(log),
           NEW ids, ids = [i \in 1 .. k |-> log[i].id]
    PROVE  ids \in Seq(Ids) /\ Left(ids) = {log[i].id : i \in 1 .. k}
<1>1. log \in Seq(Tx)
  BY DEF Listing
<1>2. \A i \in 1 .. k : i \in DOMAIN log /\ log[i].id \in Ids
  BY <1>1, ListedTx
<1> QED
  BY <1>1, <1>2 DEF Left

LEMMA SuffixIds ==
    ASSUME NEW n, NEW log, Listing(log, n), NEW at \in DOMAIN log
    PROVE  /\ Suffix(log, at) \in Seq(Ids)
           /\ Left(Suffix(log, at)) = {log[i].id : i \in at + 1 .. Len(log)}
<1>1. log \in Seq(Tx) /\ DOMAIN log = 1 .. Len(log) /\ Len(log) \in Nat /\ at \in 1 .. Len(log)
  BY DEF Listing
<1>2. \A i \in 1 .. Len(log) - at : at + i \in DOMAIN log /\ at + i \in at + 1 .. Len(log)
  BY <1>1
<1>3. \A i \in 1 .. Len(log) - at : log[at + i].id \in Ids
  BY <1>2, ListedTx
<1>4. \A i \in at + 1 .. Len(log) : i - at \in 1 .. Len(log) - at /\ at + (i - at) = i
  BY <1>1
<1>5. Suffix(log, at) \in Seq(Ids)
  BY <1>1, <1>3 DEF Suffix
<1>6. DOMAIN Suffix(log, at) = 1 .. Len(log) - at
      /\ \A i \in 1 .. Len(log) - at : Suffix(log, at)[i] = log[at + i].id
  BY DEF Suffix
<1>7. \A i \in at + 1 .. Len(log) : Suffix(log, at)[i - at] = log[i].id
  BY <1>4, <1>6
<1> PICK ids : ids = Suffix(log, at)
  OBVIOUS
<1>8. \A k \in DOMAIN ids : ids[k] \in {log[i].id : i \in at + 1 .. Len(log)}
  BY <1>2, <1>6
<1>9. \A i \in at + 1 .. Len(log) : \E k \in DOMAIN ids : ids[k] = log[i].id
  BY <1>4, <1>6, <1>7
<1>10. Left(ids) = {log[i].id : i \in at + 1 .. Len(log)}
  BY <1>8, <1>9 DEF Left
<1> QED
  BY <1>5, <1>10

ForkTyped ==
    fork \in [made : BOOLEAN, done : BOOLEAN, manifest : Seq(Tx), request : [Ids -> Texts],
              response : SUBSET Ids]

\* The second file of a transaction is due.
SecondPhases == {"unlinkResponse", "blobResponse", "forkResponse"}

\* What is left to do, which is something while a second file is due, and the
\* fork, which is made before its files are copied.
FilesTyped ==
    /\ ForkTyped
    /\ fork.done => fork.made
    /\ \A p \in Procs :
          /\ proc[p].todo \in Seq(Ids)
          /\ proc[p].phase \in ForkPhases \ {"forkMake"} => fork.made
          /\ proc[p].phase \in SecondPhases => proc[p].todo # << >>

LEMMA InitFiles == InitMigration => FilesTyped
<1> SUFFICES ASSUME NEW log, NEW requests, NEW responses, InitWith(log, requests, responses)
             PROVE  FilesTyped
  BY DEF InitMigration
<1>1. << >> \in Seq(Ids) /\ << >> \in Seq(Tx)
  OBVIOUS
<1>2. NoFork \in [made : BOOLEAN, done : BOOLEAN, manifest : Seq(Tx), request : [Ids -> Texts],
                  response : SUBSET Ids]
  BY <1>1 DEF NoFork, Texts
<1>3. fork = NoFork /\ NoFork.done = FALSE /\ \A p \in Procs : proc[p] = Idle
  BY DEF InitWith, NoFork
<1>4. Idle.todo = << >> /\ Idle.phase = "idle"
  BY DEF Idle
<1> QED
  BY <1>1, <1>2, <1>3, <1>4 DEF FilesTyped, ForkTyped, ForkPhases, SecondPhases

\* A step that leaves the fork alone.
LEMMA FilesAgain ==
    ASSUME FilesTyped, NEW p \in Procs, fork' = fork,
           \A q \in Procs \ {p} : proc'[q] = proc[q],
           proc'[p].todo \in Seq(Ids), proc'[p].phase \notin ForkPhases \ {"forkMake"},
           proc'[p].phase \in SecondPhases => proc'[p].todo # << >>
    PROVE  FilesTyped'
BY DEF FilesTyped, ForkTyped

LEMMA NextFiles ==
    ASSUME ListsInv, FilesTyped, [NextMigration]_allVars
    PROVE  FilesTyped'
<1> USE DEF OnlyProc, source, history, ForkPhases, SecondPhases
<1>0. Idle.todo \in Seq(Ids) /\ Idle.phase = "idle"
  BY DEF Idle
<1>1. ASSUME NEW p \in Procs, NEW at \in Ids, NEW body \in Bodies, TweakLoad(p, at, body)
      PROVE  FilesTyped'
  <2>1. /\ fork' = fork /\ proc'[p].phase = "rewrite" /\ proc'[p].todo = Suffix(manifest, at)
        /\ at \in DOMAIN manifest /\ \A q \in Procs \ {p} : proc'[q] = proc[q]
    BY <1>1, WorksAt DEF TweakLoad
  <2>2. proc'[p].todo \in Seq(Ids)
    BY <2>1, SuffixIds DEF ListsInv
  <2> QED
    BY <2>1, <2>2, FilesAgain
<1>2. ASSUME NEW p \in Procs, NEW seq \in 0 .. MaxTxs, ForkLoad(p, seq) PROVE FilesTyped'
  <2> PICK todo : todo = [i \in 1 .. seq |-> manifest[i].id]
    OBVIOUS
  <2>1. /\ Works(p, "forkMake", SubSeq(manifest, 1, seq), seq, NoBody, todo)
        /\ fork' = fork /\ seq \in 0 .. Len(manifest)
    BY <1>2 DEF ForkLoad
  <2>2. /\ proc'[p].phase = "forkMake" /\ proc'[p].todo = todo
        /\ \A q \in Procs \ {p} : proc'[q] = proc[q]
    BY <2>1, WorksAt
  <2>3. todo \in Seq(Ids)
    BY <2>1, IdsOf DEF ListsInv
  <2> QED
    BY <2>1, <2>2, <2>3, FilesAgain
<1>3. ASSUME NEW p \in Procs, Tweak(p) PROVE FilesTyped'
  <2>1. CASE TweakRewrite(p) \/ TweakUnlinkRequest(p) \/ TweakRetire(p)
    <3>1. /\ fork' = fork
          /\ \E phase \in {"unlinkRequest", "unlinkResponse", "tweakInstall"} :
                Goes(p, phase) /\ (phase = "unlinkResponse" => proc[p].todo # << >>)
      BY <2>1 DEF TweakRewrite, TweakUnlinkRequest, TweakRetire
    <3>2. /\ proc'[p].todo \in Seq(Ids) /\ proc'[p].phase \notin ForkPhases
          /\ proc'[p].phase \in SecondPhases => proc'[p].todo # << >>
      BY <3>1, GoesTo DEF FilesTyped
    <3> QED
      BY <3>1, <3>2, GoesTo, FilesAgain
  <2>2. CASE TweakUnlinkResponse(p)
    <3>1. /\ fork' = fork /\ proc[p].todo \in Seq(Ids) /\ proc[p].todo # << >>
          /\ proc' = [proc EXCEPT ![p].phase = "unlinkRequest", ![p].todo = Tail(@)]
      BY <2>2 DEF TweakUnlinkResponse, FilesTyped
    <3>2. /\ proc'[p].phase = "unlinkRequest" /\ proc'[p].todo = Tail(proc[p].todo)
          /\ \A q \in Procs \ {p} : proc'[q] = proc[q]
      BY <3>1, DoesOne
    <3>3. proc'[p].todo \in Seq(Ids)
      <4>1. proc[p].todo \in Seq(Ids) /\ proc[p].todo # << >>
        BY <3>1
      <4>2. Tail(proc[p].todo) \in Seq(Ids)
        BY <4>1
      <4> QED
        BY <3>2, <4>2
    <3> QED
      BY <3>1, <3>2, <3>3, FilesAgain
  <2>3. CASE TweakInstall(p)
    BY <1>0, <2>3, EndsIdle, FilesAgain DEF TweakInstall
  <2> QED
    BY <1>3, <2>1, <2>2, <2>3 DEF Tweak
<1>4. ASSUME NEW p \in Procs, Fork(p) PROVE FilesTyped'
  <2>0. ForkTyped /\ fork = [fork EXCEPT !.made = fork.made]
    BY DEF FilesTyped, ForkTyped
  <2>1. CASE ForkMake(p)
    <3>1. /\ fork' = [fork EXCEPT !.made = TRUE] /\ proc'[p].todo = proc[p].todo
          /\ proc'[p].phase = "forkCopy"
          /\ \A q \in Procs \ {p} : proc'[q] = proc[q]
      BY <2>1, GoesTo DEF ForkMake
    <3>2. ForkTyped' /\ fork'.made
      BY <2>0, <3>1 DEF ForkTyped
    <3> QED
      BY <3>1, <3>2 DEF FilesTyped
  <2>2. CASE ForkCopyRequest(p)
    <3>1. /\ proc'[p].phase = "forkResponse" /\ proc[p].phase = "forkCopy"
          /\ proc'[p].todo = proc[p].todo
          /\ proc[p].todo # << >> /\ proc[p].todo \in Seq(Ids)
          /\ \A q \in Procs \ {p} : proc'[q] = proc[q]
      BY <2>2, GoesTo DEF ForkCopyRequest, ToCopy, FilesTyped
    <3>2. Head(proc[p].todo) \in Ids
      BY <3>1
    <3>3. ForkTyped' /\ fork'.made = fork.made /\ fork'.done = fork.done
      BY <2>0, <2>2, <3>2 DEF ForkCopyRequest, ForkTyped, ListsInv
    <3> QED
      BY <3>1, <3>3 DEF FilesTyped
  <2>3. CASE ForkCopyResponse(p)
    <3>1. /\ proc'[p].phase = "forkCopy" /\ proc[p].phase = "forkResponse"
          /\ proc'[p].todo = Tail(proc[p].todo)
          /\ proc[p].todo # << >> /\ proc[p].todo \in Seq(Ids)
          /\ \A q \in Procs \ {p} : proc'[q] = proc[q]
      BY <2>3, DoesOne DEF ForkCopyResponse, FilesTyped
    <3>2. proc'[p].todo \in Seq(Ids) /\ Head(proc[p].todo) \in Ids
      BY <3>1
    <3>3. ForkTyped' /\ fork'.made = fork.made /\ fork'.done = fork.done
      BY <2>0, <2>3, <3>2 DEF ForkCopyResponse, ForkTyped
    <3> QED
      BY <3>1, <3>2, <3>3 DEF FilesTyped
  <2>4. CASE ForkRetire(p)
    <3>1. /\ proc'[p].phase = "forkInstall" /\ proc[p].phase = "forkCopy"
          /\ proc'[p].todo = proc[p].todo
          /\ fork' = [fork EXCEPT !.manifest = << >>, !.done = FALSE]
          /\ \A q \in Procs \ {p} : proc'[q] = proc[q]
      BY <2>4, GoesTo DEF ForkRetire
    <3>2. << >> \in Seq(Tx)
      OBVIOUS
    <3>3. ForkTyped' /\ fork'.made = fork.made /\ ~fork'.done
      BY <2>0, <3>1, <3>2 DEF ForkTyped
    <3> QED
      BY <3>1, <3>3 DEF FilesTyped
  <2>5. CASE ForkInstall(p)
    <3>1. /\ fork' = [fork EXCEPT !.manifest = proc[p].copy, !.done = TRUE]
          /\ proc'[p] = Idle /\ proc[p].phase = "forkInstall"
          /\ \A q \in Procs \ {p} : proc'[q] = proc[q]
      BY <2>5, EndsIdle DEF ForkInstall
    <3>2. proc[p].copy \in Seq(Tx)
      BY DEF ListsInv, IsEdit, Listing
    <3>3. ForkTyped' /\ fork'.made = fork.made
      BY <2>0, <3>1, <3>2 DEF ForkTyped
    <3> QED
      BY <1>0, <3>1, <3>3 DEF FilesTyped
  <2> QED
    BY <1>4, <2>1, <2>2, <2>3, <2>4, <2>5 DEF Fork
<1>5. ASSUME NEW p \in Procs, Migrate(p) PROVE FilesTyped'
  <2>0. ASSUME Ends(p), fork' = fork PROVE FilesTyped'
    BY <1>0, <2>0, EndsIdle, FilesAgain
  <2>1. CASE MigrateRead(p) /\ there
    <3> PICK todo : todo = [i \in DOMAIN manifest |-> manifest[i].id]
      OBVIOUS
    <3>1. Works(p, "rehash", manifest, 1, NoBody, todo) /\ fork' = fork
      BY <2>1 DEF MigrateRead
    <3>2. /\ proc'[p].phase = "rehash" /\ proc'[p].todo = todo
          /\ \A q \in Procs \ {p} : proc'[q] = proc[q]
      BY <3>1, WorksAt
    <3>3. todo \in Seq(Ids)
      <4>1. DOMAIN manifest = 1 .. Len(manifest) /\ Len(manifest) \in 0 .. Len(manifest)
        BY DEF ListsInv, Listing
      <4> QED
        BY <4>1, IdsOf DEF ListsInv
    <3> QED
      BY <3>1, <3>2, <3>3, FilesAgain
  <2>2. CASE MigrateHash(p)
    <3>1. fork' = fork /\ proc[p].phase = "rehash" /\ proc[p].todo \in Seq(Ids)
      BY <2>2 DEF MigrateHash, FilesTyped
    <3>2. CASE Ends(p)
      BY <2>0, <3>1, <3>2
    <3>3. CASE \E new, at : Works(p, "rehash", new, at, NoBody, proc[p].todo)
      BY <3>1, <3>3, WorksAt, FilesAgain
    <3> QED
      BY <2>2, <3>2, <3>3 DEF MigrateHash
  <2>3. CASE MigrateHashed(p) \/ EnsureRequest(p) \/ (MigrateBackup(p) /\ there) \/ MigrateRetire(p)
    <3>1. /\ fork' = fork
          /\ \E phase \in HashedPhases \cup {"migrateInstall"} :
                Goes(p, phase) /\ (phase = "blobResponse" => proc[p].todo # << >>)
      BY <2>3 DEF MigrateHashed, EnsureRequest, MigrateBackup, MigrateRetire, HashedPhases
    <3>2. /\ proc'[p].todo \in Seq(Ids) /\ proc'[p].phase \notin ForkPhases
          /\ proc'[p].phase \in SecondPhases => proc'[p].todo # << >>
      BY <3>1, GoesTo DEF FilesTyped, HashedPhases
    <3> QED
      BY <3>1, <3>2, GoesTo, FilesAgain
  <2>4. CASE EnsureResponse(p)
    <3>1. /\ fork' = fork /\ proc[p].todo \in Seq(Ids) /\ proc[p].todo # << >>
          /\ proc' = [proc EXCEPT ![p].phase = "blobRequest", ![p].todo = Tail(@)]
      BY <2>4 DEF EnsureResponse, FilesTyped
    <3>2. /\ proc'[p].phase = "blobRequest" /\ proc'[p].todo = Tail(proc[p].todo)
          /\ \A q \in Procs \ {p} : proc'[q] = proc[q]
      BY <3>1, DoesOne
    <3>3. proc'[p].todo \in Seq(Ids)
      <4>1. proc[p].todo \in Seq(Ids) /\ proc[p].todo # << >>
        BY <3>1
      <4>2. Tail(proc[p].todo) \in Seq(Ids)
        BY <4>1
      <4> QED
        BY <3>2, <4>2
    <3> QED
      BY <3>1, <3>2, <3>3, FilesAgain
  <2>5. CASE PreviewEnds(p) \/ MigrateInstall(p) \/ ((MigrateRead(p) \/ MigrateBackup(p)) /\ ~there)
    BY <2>0, <2>5 DEF PreviewEnds, MigrateInstall, MigrateRead, MigrateBackup
  <2> QED
    BY <1>5, <2>1, <2>2, <2>3, <2>4, <2>5 DEF Migrate
<1>6. ASSUME NEW p \in Procs, NEW preview \in BOOLEAN, MigratePlan(p, preview) PROVE FilesTyped'
  <2>1. Goes(p, "planned") /\ fork' = fork
    BY <1>6 DEF MigratePlan
  <2>2. proc'[p].todo \in Seq(Ids) /\ proc'[p].phase = "planned"
    BY <2>1, GoesTo DEF FilesTyped
  <2> QED
    BY <2>1, <2>2, GoesTo, FilesAgain
<1>7. ASSUME NEW p \in Procs, NEW body \in Bodies, AppendTx(p, body) PROVE FilesTyped'
  <2>1. /\ proc'[p].phase = "append" /\ proc'[p].todo = << >> /\ fork' = fork
        /\ \A q \in Procs \ {p} : proc'[q] = proc[q]
    BY <1>7, WorksAt DEF AppendTx
  <2> QED
    BY <1>0, <2>1, FilesAgain DEF Idle
<1>10. ASSUME NEW p \in Procs, NEW body \in Bodies, AppendRaises(p, body) PROVE FilesTyped'
  BY <1>10 DEF AppendRaises, FilesTyped, ForkTyped
<1>11. ASSUME NEW p \in Procs, Record(p) PROVE FilesTyped'
  <2>1. CASE AppendRetire(p)
    <3>1. /\ proc'[p].phase = "appendInstall" /\ proc'[p].todo = proc[p].todo /\ fork' = fork
          /\ \A q \in Procs \ {p} : proc'[q] = proc[q]
      BY <2>1, GoesTo DEF AppendRetire
    <3>2. proc'[p].todo \in Seq(Ids)
      BY <3>1 DEF FilesTyped
    <3> QED
      BY <3>1, <3>2, FilesAgain
  <2>2. CASE AppendInstall(p)
    BY <1>0, <2>2, EndsIdle, FilesAgain DEF AppendInstall
  <2> QED
    BY <1>11, <2>1, <2>2 DEF Record
<1>8. ASSUME NEW p \in Procs, Kill(p, Rewriting(p) \cup Creating(p)) PROVE FilesTyped'
  BY <1>0, <1>8, EndsIdle, FilesAgain DEF Kill
<1>9. CASE UNCHANGED allVars
  BY <1>9 DEF allVars, vars, FilesTyped, ForkTyped
<1> QED
  BY <1>1, <1>2, <1>3, <1>4, <1>5, <1>6, <1>7, <1>8, <1>9, <1>10, <1>11
     DEF NextMigration, EditCalls, Begins


-----------------------------------------------------------------------------
(* A cassette on which nothing overlaps and nothing is cut off *)

Complete(tx) ==
    request[tx.id] # Gone /\ tx.id \in response /\ KeyIs(tx.hash, request[tx.id])

CompleteIn(log) == \A i \in DOMAIN log : Complete(log[i])
NoOthersIn(log) ==
    {id \in Ids : request[id] # Gone} \cup response \subseteq Listed(log) \cup (Ids \ kept)

\* What a call that has renamed the manifest away installs.
Written(r) == IF r.phase = "tweakInstall" THEN Kept(r.copy, r.at, r.body) ELSE r.copy

WritesWell(r) == r.phase \in GapPhases => NoOthersIn(Written(r)) /\ CompleteIn(Written(r))

\* An append adds to the manifest a transaction that has its files.
AppendGoesWell(r) ==
    r.phase = "append" => CompleteIn(r.copy) /\ Listed(manifest) \subseteq Listed(r.copy)

\* A tweak leaves the transactions before "at" alone; those after it have
\* no files or have them still to be unlinked.
TweakGoesWell(r) ==
    /\ r.phase \in TweakPhases \ {"tweakInstall"} =>
          /\ Left(r.todo) \subseteq {r.copy[i].id : i \in r.at + 1 .. Len(r.copy)}
          /\ \A i \in DOMAIN r.copy :
                /\ i < r.at => Complete(r.copy[i])
                /\ i > r.at => \/ r.copy[i].id \in Left(r.todo)
                               \/ request[r.copy[i].id] = Gone /\ r.copy[i].id \notin response
          /\ r.copy[r.at].id \in response
    /\ r.phase \in {"unlinkRequest", "unlinkResponse"} => request[r.copy[r.at].id] = r.body
    /\ r.phase = "unlinkResponse" => request[Head(r.todo)] = Gone

\* A fork has copied the files of what it lists, or has them still to copy.
ForkGoesWell(r) ==
    /\ r.phase \in ForkPhases =>
          /\ ~fork.done
          /\ \A i \in DOMAIN r.copy :
              \/ r.copy[i].id \in Left(r.todo)
              \/ /\ r.phase # "forkMake"
                 /\ fork.request[r.copy[i].id] = request[r.copy[i].id]
                 /\ r.copy[i].id \in fork.response
    /\ r.phase = "forkResponse" =>
          request[Head(r.todo)] \in {Gone, fork.request[Head(r.todo)]}
    /\ r.phase = "forkInstall" => r.todo = << >>

\* A migration has given the transactions before "at" their keys, and has
\* created the files that were missing or has them still to create.
MigrationGoesWell(r) ==
    /\ r.phase = "rehash" =>
          /\ r.at \in Nat \ {0}
          /\ \A i \in DOMAIN r.copy :
                /\ i < r.at => request[r.copy[i].id] \in {Gone, r.copy[i].hash}
                /\ r.copy[i].id \in Left(r.todo)
    /\ r.phase \in HashedPhases =>
          \A i \in DOMAIN r.copy :
              /\ request[r.copy[i].id] \in {Gone, r.copy[i].hash, Blank}
              /\ \/ r.copy[i].id \in Left(r.todo)
                 \/ request[r.copy[i].id] # Gone /\ r.copy[i].id \in response
    /\ r.phase \in HashedPhases \cup {"rehash"} => Left(r.todo) \subseteq Listed(r.copy)
    /\ r.phase = "blobResponse" => request[Head(r.todo)] # Gone
    /\ r.phase = "migrated" => r.todo = << >>

GoesWell(r) ==
    /\ WritesWell(r)
    /\ AppendGoesWell(r)
    /\ TweakGoesWell(r)
    /\ ForkGoesWell(r)
    /\ MigrationGoesWell(r)

Unlinking(r) == r.phase \in {"unlinkRequest", "unlinkResponse"}

\* The only files are those of what is listed and of appends that did not
\* return, each call goes well, all files are there while none are unlinked,
\* and a fork that is finished is whole.
WholeInv ==
    ~cut /\ ~raced =>
        /\ (\A p \in Procs : proc[p].phase \notin GapPhases) => NoOthersIn(manifest)
        /\ ~Legacy /\ (\A p \in Procs : ~Unlinking(proc[p])) => CompleteIn(manifest)
        /\ \A p \in Procs : GoesWell(proc[p])
        /\ ForkIsWhole

LEMMA Parted ==
    /\ {"idle", "planned"} \cap (GapPhases \cup AppendPhases \cup TweakPhases \cup ForkPhases
                                 \cup HashedPhases) = {}
    /\ "rehash" \notin GapPhases \cup AppendPhases \cup TweakPhases \cup ForkPhases
                       \cup HashedPhases
    /\ (GapPhases \cup AppendPhases) \cap (ForkPhases \cup HashedPhases) = {}
    /\ TweakPhases \cap (AppendPhases \cup ForkPhases \cup HashedPhases) = {}
    /\ ForkPhases \cap HashedPhases = {} /\ TweakPhases \cap GapPhases = {"tweakInstall"}
BY DEF GapPhases, AppendPhases, TweakPhases, ForkPhases, HashedPhases

\* A process that is at rest, or that migrates and has not read the manifest.
LEMMA QuietGoesWell ==
    ASSUME NEW r, r = Idle \/ r.phase = "planned"
    PROVE  GoesWell(r) /\ ~Unlinking(r) /\ r.phase \notin GapPhases
<1>1. r.phase \in {"idle", "planned"}
  BY DEF Idle
<1> QED
  BY <1>1 DEF GoesWell, WritesWell, AppendGoesWell, TweakGoesWell, ForkGoesWell,
       MigrationGoesWell, TweakPhases, ForkPhases, HashedPhases, GapPhases, Unlinking

LEMMA InitWhole == InitMigration => WholeInv
<1> SUFFICES ASSUME NEW n \in 0 .. MaxImports, NEW old \in [1 .. n -> Imports],
                    InitWith([i \in 1 .. n |-> TxOf(i, old[i].hash)],
                             [id \in Ids |-> IF id <= n THEN old[id].request ELSE Gone],
                             {id \in 1 .. n : old[id].response}),
                    version = IF n = 0 THEN 1 ELSE 0
             PROVE  WholeInv
  BY DEF InitMigration
<1> DEFINE log == [i \in 1 .. n |-> TxOf(i, old[i].hash)]
<1>0. manifest = log /\ DOMAIN log = 1 .. n /\ n \in Nat /\ there = (log # << >>)
  BY MigrationAssumption DEF InitWith
<1>1. Listed(manifest) = 1 .. n
  BY <1>0 DEF Listed, TxOf
<1>2. NoOthersIn(manifest)
  <2>1. \A id \in Ids : id <= n => id \in 1 .. n
    BY EditsAssumption, MigrationAssumption DEF Ids
  <2> QED
    BY <1>1, <2>1 DEF InitWith, NoOthersIn
<1>3. ~Legacy => CompleteIn(manifest)
  <2>1. (n # 0 => 1 \in DOMAIN log /\ version = 0) /\ DOMAIN << >> = {}
    BY <1>0
  <2> HIDE DEF log
  <2>2. n # 0 => Legacy
    BY <1>0, <2>1 DEF Legacy
  <2>3. n = 0 => DOMAIN manifest = {}
    BY <1>0
  <2> QED
    BY <2>2, <2>3 DEF CompleteIn
<1>4. (\A p \in Procs : proc[p] = Idle) /\ ForkIsWhole
  BY DEF InitWith, NoFork, ForkIsWhole
<1> QED
  BY <1>2, <1>3, <1>4, QuietGoesWell DEF WholeInv

\* A step that overlaps with no other call.
LEMMA WholeAgain ==
    ASSUME ListsInv, SurvivesInv, NEW p \in Procs,
           NotesRace(p) \/ (proc[p] # Idle /\ raced' = raced),
           \A q \in Procs \ {p} : proc'[q] = proc[q],
           ~cut' /\ ~raced' =>
               /\ proc'[p].phase \notin GapPhases => NoOthersIn(manifest)'
               /\ ForkIsWhole' /\ GoesWell(proc[p])'
               /\ ~Legacy' /\ ~Unlinking(proc'[p]) => CompleteIn(manifest)'
    PROVE  WholeInv'
<1> SUFFICES ASSUME ~cut', ~raced' PROVE WholeInv'
  BY DEF WholeInv
<1>1. \A q \in Procs \ {p} : proc'[q] = Idle
  BY AloneNow
<1>2. ASSUME NEW q \in Procs \ {p} PROVE GoesWell(proc[q])'
  BY <1>1 DEF GoesWell, WritesWell, AppendGoesWell, TweakGoesWell, ForkGoesWell,
     MigrationGoesWell, Idle, TweakPhases, ForkPhases, HashedPhases, GapPhases
<1>3. Unlinking(proc[p])' <=> Unlinking(proc'[p])
  BY DEF Unlinking
<1> QED
  BY <1>2, <1>3 DEF WholeInv

\* What a process that has the cassette for itself finds.
LEMMA WholeBefore ==
    ASSUME WholeInv, ~cut, ~raced, NEW p \in Procs, \A q \in Procs \ {p} : proc[q] = Idle
    PROVE  /\ proc[p].phase \notin GapPhases => NoOthersIn(manifest)
           /\ GoesWell(proc[p]) /\ ForkIsWhole
           /\ ~Legacy /\ ~Unlinking(proc[p]) => CompleteIn(manifest)
<1>1. ~Unlinking(Idle) /\ Idle.phase \notin GapPhases
  BY DEF Unlinking, Idle, GapPhases
<1> QED
  BY <1>1 DEF WholeInv

\* What a call finds that begins and is alone.
LEMMA WholeAtRest ==
    ASSUME WholeInv, ~cut, ~raced, \A q \in Procs : proc[q] = Idle
    PROVE  NoOthersIn(manifest) /\ ForkIsWhole /\ (~Legacy => CompleteIn(manifest))
<1>1. ~Unlinking(Idle) /\ Idle.phase \notin GapPhases
  BY DEF Unlinking, Idle, GapPhases
<1> QED
  BY <1>1 DEF WholeInv

\* The manifest is renamed away, and what will be installed is whole.
LEMMA RetireWhole ==
    ASSUME ListsInv, SurvivesInv, WholeInv, NEW p \in Procs, NEW phase \in GapPhases,
           proc[p] # Idle, Goes(p, phase), Retires,
           UNCHANGED <<request, response, fork, cut, raced, kept>>,
           ~cut /\ ~raced => NoOthersIn(Written(proc'[p])) /\ CompleteIn(Written(proc'[p]))
    PROVE  WholeInv'
<1>1. proc'[p].phase = phase /\ \A q \in Procs \ {p} : proc'[q] = proc[q]
  BY GoesTo
<1> SUFFICES ASSUME ~cut', ~raced'
             PROVE  ForkIsWhole' /\ GoesWell(proc[p])' /\ CompleteIn(manifest)'
  BY <1>1, WholeAgain
<1>2. CompleteIn(manifest)'
  BY DEF CompleteIn, Retires
<1>3. ForkIsWhole'
  BY DEF ForkIsWhole, MissingBlobs, WholeInv
<1>4. WritesWell(proc[p])'
  BY DEF WritesWell, NoOthersIn, CompleteIn, Complete, Written
<1>5. AppendGoesWell(proc[p])' /\ TweakGoesWell(proc[p])' /\ ForkGoesWell(proc[p])'
      /\ MigrationGoesWell(proc[p])'
  BY <1>1, Parted DEF AppendGoesWell, TweakGoesWell, ForkGoesWell, MigrationGoesWell, GapPhases,
     TweakPhases, ForkPhases, HashedPhases
<1> QED
  BY <1>2, <1>3, <1>4, <1>5 DEF GoesWell

\* It is installed.
LEMMA InstallWhole ==
    ASSUME ListsInv, SurvivesInv, KeptInv, WholeInv, NEW p \in Procs,
           proc[p].phase \in GapPhases, Installs(Written(proc[p])), Ends(p),
           UNCHANGED <<request, response, fork, cut, raced>>,
           \/ kept' = kept
           \/ proc[p].phase \in AppendPhases /\ kept' = kept \cup {proc[p].at}
    PROVE  WholeInv'
<1>1. /\ proc'[p] = Idle /\ \A q \in Procs \ {p} : proc'[q] = proc[q]
      /\ proc[p] # Idle
  BY EndsIdle, Parted DEF Idle
<1> SUFFICES ASSUME ~cut', ~raced'
             PROVE  NoOthersIn(manifest)' /\ ForkIsWhole' /\ GoesWell(proc[p])'
                    /\ CompleteIn(manifest)'
  BY <1>1, WholeAgain
<1> PICK log : log = Written(proc[p])
  OBVIOUS
<1>2. NoOthersIn(log) /\ CompleteIn(log) /\ manifest' = log
  BY DEF WholeInv, GoesWell, WritesWell, Installs
<1>3. CompleteIn(manifest)'
  BY <1>2 DEF CompleteIn, Complete
<1>4. ForkIsWhole'
  BY DEF ForkIsWhole, MissingBlobs, WholeInv
<1>5. GoesWell(proc[p])'
  BY <1>1 DEF GoesWell, WritesWell, AppendGoesWell, TweakGoesWell, ForkGoesWell,
     MigrationGoesWell, Idle, TweakPhases, ForkPhases, HashedPhases, GapPhases
<1>6. kept' \subseteq kept \cup Listed(log)
  <2>1. CASE kept' = kept
    BY <2>1
  <2>2. CASE proc[p].phase \in AppendPhases /\ kept' = kept \cup {proc[p].at}
    <3>1. proc[p].at \in Listed(proc[p].copy) /\ log = proc[p].copy
      BY <2>2 DEF KeptInv, Written, AppendPhases
    <3> QED
      BY <2>2, <3>1
  <2> QED
    BY <2>1, <2>2
<1>7. NoOthersIn(manifest)'
  <2>1. Ids' = Ids /\ Listed(manifest)' = Listed(log)
    BY <1>2 DEF Listed
  <2> QED
    BY <1>2, <1>6, <2>1 DEF NoOthersIn
<1> QED
  BY <1>3, <1>4, <1>5, <1>7

\* append_transaction leaves the files of the others alone.
LEMMA AppendWhole ==
    ASSUME ListsInv, SurvivesInv, KeptInv, WholeInv, NEW p \in Procs, NEW body \in Bodies,
           AppendTx(p, body), ~Legacy, UNCHANGED version
    PROVE  WholeInv'
<1> DEFINE new == appended + 1
           copy == Append(manifest, TxOf(new, body))
<1>1. /\ proc[p] = Idle /\ NotesRace(p) /\ UNCHANGED <<fork, cut, manifest, there, kept>>
      /\ Works(p, "append", copy, new, body, << >>) /\ new \in Ids
      /\ request' = [request EXCEPT ![new] = body] /\ response' = response \cup {new}
  BY EditsAssumption DEF AppendTx, ListsInv, Ids, source
<1>2. manifest \in Seq(Tx)
  BY DEF ListsInv, Listing
<1>3. /\ Listed(copy) = Listed(manifest) \cup {new}
      /\ \A i \in DOMAIN copy : copy[i] = TxOf(new, body) \/
             (i \in DOMAIN manifest /\ copy[i] = manifest[i])
  BY <1>2, AppendedLog
<1> HIDE DEF copy
<1>4. /\ proc'[p].phase = "append" /\ proc'[p].copy = copy
      /\ \A q \in Procs \ {p} : proc'[q] = proc[q]
  BY <1>1, WorksAt
<1> SUFFICES ASSUME ~cut', ~raced'
             PROVE  /\ NoOthersIn(manifest)' /\ ForkIsWhole' /\ GoesWell(proc[p])'
                    /\ CompleteIn(manifest)'
  BY <1>1, <1>4, WholeAgain
<1>5. ~cut /\ ~raced /\ \A q \in Procs : proc[q] = Idle
  BY <1>1, AloneNow
<1>6. NoOthersIn(manifest) /\ ForkIsWhole /\ CompleteIn(manifest)
  BY <1>5, WholeAtRest
<1>7. new \notin kept /\ appended \in Nat
  BY DEF KeptInv, ListsInv
<1>8. NoOthersIn(manifest)'
  BY <1>1, <1>6, <1>7 DEF NoOthersIn, ListsInv
<1>9. ASSUME NEW i \in DOMAIN manifest
      PROVE  /\ manifest[i].id \in Ids /\ manifest[i].id # new
             /\ request'[manifest[i].id] = request[manifest[i].id] /\ Complete(manifest[i])
  <2>1. manifest[i].id \in Ids /\ manifest[i].id \in Nat /\ manifest[i].id <= appended
    BY ListedTx DEF ListsInv
  <2>2. manifest[i].id # new
    BY <1>7, <2>1
  <2> QED
    BY <1>1, <1>6, <2>1, <2>2 DEF CompleteIn, ListsInv
<1>10. CompleteIn(manifest)'
  BY <1>1, <1>9 DEF CompleteIn, Complete
<1>11. ASSUME NEW i \in DOMAIN copy
       PROVE  /\ request'[copy[i].id] # Gone /\ copy[i].id \in response'
              /\ KeyIs(copy[i].hash, request'[copy[i].id])
  <2>1. CASE copy[i] = TxOf(new, body)
    <3>1. request'[new] = body /\ new \in response' /\ body # Gone
      BY <1>1, EditsAssumption DEF ListsInv
    <3>2. copy[i].id = new /\ copy[i].hash = body
      BY <2>1 DEF TxOf
    <3> QED
      BY <3>1, <3>2 DEF KeyIs
  <2>2. CASE i \in DOMAIN manifest /\ copy[i] = manifest[i]
    BY <1>1, <1>9, <2>2 DEF Complete
  <2> QED
    BY <1>3, <2>1, <2>2
<1>12. AppendGoesWell(proc[p])'
  <2>1. CompleteIn(proc[p].copy)'
    BY <1>4, <1>11 DEF CompleteIn, Complete
  <2>2. Listed(manifest)' = Listed(manifest) /\ Listed(proc[p].copy)' = Listed(copy)
    BY <1>1, <1>4 DEF Listed
  <2> QED
    BY <1>3, <2>1, <2>2 DEF AppendGoesWell
<1>13. ForkIsWhole'
  BY <1>1, <1>5, <1>6 DEF ForkIsWhole, MissingBlobs
<1>14. WritesWell(proc[p])' /\ TweakGoesWell(proc[p])' /\ ForkGoesWell(proc[p])'
       /\ MigrationGoesWell(proc[p])'
  BY <1>4 DEF WritesWell, TweakGoesWell, ForkGoesWell, MigrationGoesWell, GapPhases,
     TweakPhases, ForkPhases, HashedPhases
<1> QED
  BY <1>8, <1>10, <1>12, <1>13, <1>14 DEF GoesWell

LEMMA RecordWhole ==
    ASSUME ListsInv, SurvivesInv, KeptInv, WholeInv, NEW p \in Procs, Record(p)
    PROVE  WholeInv'
<1> USE DEF history
<1>1. CASE AppendRetire(p)
  <2>1. /\ proc[p].phase = "append" /\ Retires /\ Goes(p, "appendInstall")
        /\ UNCHANGED <<request, response, fork, cut, raced, kept>>
    BY <1>1 DEF AppendRetire
  <2>2. proc[p] # Idle /\ "append" \notin GapPhases /\ "appendInstall" \in GapPhases
    BY <2>1 DEF Idle, GapPhases
  <2>3. Written(proc'[p]) = proc[p].copy
    BY <2>1, GoesTo DEF Written
  <2>4. ASSUME ~cut, ~raced PROVE NoOthersIn(proc[p].copy) /\ CompleteIn(proc[p].copy)
    <3>1. NoOthersIn(manifest) /\ AppendGoesWell(proc[p])
      <4>1. \A q \in Procs \ {p} : proc[q] = Idle
        BY <2>2, <2>4 DEF SurvivesInv
      <4> QED
        BY <2>1, <2>2, <2>4, <4>1, WholeBefore DEF GoesWell
    <3> QED
      BY <2>1, <3>1 DEF AppendGoesWell, NoOthersIn
  <2> QED
    BY <2>1, <2>2, <2>3, <2>4, RetireWhole
<1>2. CASE AppendInstall(p)
  <2>1. /\ proc[p].phase = "appendInstall" /\ Installs(proc[p].copy) /\ Ends(p)
        /\ kept' = kept \/ kept' = kept \cup {proc[p].at}
        /\ UNCHANGED <<request, response, fork, cut, raced>>
    BY <1>2 DEF AppendInstall
  <2>2. /\ Written(proc[p]) = proc[p].copy
        /\ "appendInstall" \in GapPhases /\ "appendInstall" \in AppendPhases
    BY <2>1 DEF Written, GapPhases, AppendPhases
  <2> QED
    BY <2>1, <2>2, InstallWhole
<1> QED
  BY <1>1, <1>2 DEF Record

LEMMA TweakLoadWhole ==
    ASSUME ListsInv, SurvivesInv, WholeInv, NEW p \in Procs, NEW at \in Ids, NEW body \in Bodies,
           TweakLoad(p, at, body), ~Legacy, UNCHANGED version
    PROVE  WholeInv'
<1>1. /\ proc[p] = Idle /\ NotesRace(p) /\ at \in DOMAIN manifest
      /\ proc'[p].phase = "rewrite" /\ proc'[p].copy = manifest /\ proc'[p].at = at
      /\ proc'[p].todo = Suffix(manifest, at) /\ \A q \in Procs \ {p} : proc'[q] = proc[q]
      /\ UNCHANGED <<manifest, request, response, fork, cut, kept>>
  BY WorksAt DEF TweakLoad, source
<1> SUFFICES ASSUME ~cut', ~raced'
             PROVE  /\ NoOthersIn(manifest)' /\ ForkIsWhole' /\ GoesWell(proc[p])'
                    /\ CompleteIn(manifest)'
  BY <1>1, WholeAgain
<1>2. ~cut /\ ~raced /\ \A q \in Procs : proc[q] = Idle
  BY <1>1, AloneNow
<1>3. NoOthersIn(manifest) /\ ForkIsWhole /\ CompleteIn(manifest)
  BY <1>2, WholeAtRest
<1>4. NoOthersIn(manifest)' /\ ForkIsWhole' /\ CompleteIn(manifest)'
  BY <1>1, <1>2, <1>3 DEF NoOthersIn, ForkIsWhole, CompleteIn, Complete, MissingBlobs
<1>5. Left(Suffix(manifest, at)) = {manifest[i].id : i \in at + 1 .. Len(manifest)}
  BY <1>1, SuffixIds DEF ListsInv
<1>6. \A i \in DOMAIN manifest : i > at => i \in at + 1 .. Len(manifest)
  BY <1>1 DEF ListsInv, Listing
<1>7. TweakGoesWell(proc[p])'
  BY <1>1, <1>3, <1>5, <1>6 DEF TweakGoesWell, CompleteIn, Complete
<1>8. /\ WritesWell(proc[p])' /\ AppendGoesWell(proc[p])' /\ ForkGoesWell(proc[p])'
      /\ MigrationGoesWell(proc[p])'
  BY <1>1 DEF WritesWell, AppendGoesWell, ForkGoesWell, MigrationGoesWell, GapPhases,
     ForkPhases, HashedPhases
<1> QED
  BY <1>4, <1>7, <1>8 DEF GoesWell

\* The ids of the copy of a tweak, before, at and after the transaction.
LEMMA TweakIds ==
    ASSUME ListsInv, NEW p \in Procs, proc[p].phase \in TweakPhases
    PROVE  /\ proc[p].at \in DOMAIN proc[p].copy /\ DOMAIN proc[p].copy \subseteq Nat
           /\ \A i \in DOMAIN proc[p].copy :
                 /\ proc[p].copy[i].id \in Ids
                 /\ i # proc[p].at => proc[p].copy[i].id # proc[p].copy[proc[p].at].id
                 /\ i <= proc[p].at =>
                       proc[p].copy[i].id \notin
                           {proc[p].copy[k].id : k \in proc[p].at + 1 .. Len(proc[p].copy)}
<1> DEFINE copy == proc[p].copy
           at == proc[p].at
<1>1. Listing(copy, appended) /\ at \in DOMAIN copy
  BY DEF ListsInv, IsEdit
<1> HIDE DEF copy, at
<1>2. DOMAIN copy = 1 .. Len(copy) /\ Len(copy) \in Nat
  BY <1>1 DEF Listing
<1>3. \A i, j \in DOMAIN copy : i # j => copy[i].id # copy[j].id
  BY <1>1, DifferentIds
<1>4. \A i \in DOMAIN copy : copy[i].id \in Ids
  BY <1>1, ListedTx
<1>5. ASSUME NEW i \in DOMAIN copy, i <= at, NEW k \in at + 1 .. Len(copy)
      PROVE  copy[i].id # copy[k].id
  BY <1>1, <1>2, <1>3, <1>5
<1> QED
  BY <1>1, <1>2, <1>3, <1>4, <1>5 DEF copy, at

\* What a tweak finds that is alone and has not renamed the manifest away.
LEMMA TweakFinds ==
    ASSUME ListsInv, SurvivesInv, FitsInv, WholeInv, ~cut, ~raced, NEW p \in Procs,
           proc[p].phase \in TweakPhases \ {"tweakInstall"}
    PROVE  /\ proc[p].copy = manifest /\ NoOthersIn(manifest) /\ TweakGoesWell(proc[p])
           /\ ForkIsWhole /\ (~Unlinking(proc[p]) => CompleteIn(manifest))
<1>1. proc[p] # Idle /\ proc[p].phase \notin GapPhases /\ proc[p].phase \in EditPhases
  BY Parted, Apart DEF Idle
<1>2. ~Legacy /\ \A q \in Procs \ {p} : proc[q] = Idle
  BY <1>1 DEF SurvivesInv
<1>3. proc[p].copy = manifest
  BY DEF FitsInv, CopyFits
<1> QED
  BY <1>1, <1>2, <1>3, WholeBefore DEF GoesWell

\* The manifest is renamed away when the files after the tweaked transaction
\* are gone.
LEMMA TweakRetireWhole ==
    ASSUME ListsInv, SurvivesInv, FitsInv, FilesTyped, WholeInv, NEW p \in Procs, TweakRetire(p)
    PROVE  WholeInv'
<1> DEFINE r == proc[p]
           copy == proc[p].copy
           at == proc[p].at
           body == proc[p].body
           todo == proc[p].todo
           log == Kept(copy, at, body)
<1>1. /\ r.phase = "unlinkRequest" /\ todo = << >> /\ Goes(p, "tweakInstall") /\ Retires
      /\ UNCHANGED <<request, response, fork, cut, raced, kept>>
  BY DEF TweakRetire, history
<1>2. /\ r # Idle /\ "tweakInstall" \in GapPhases
      /\ r.phase \in TweakPhases \ {"tweakInstall"}
  BY <1>1 DEF Idle, GapPhases, TweakPhases
<1>3. Written(proc'[p]) = log
  BY <1>1, GoesTo DEF Written
<1>4. ASSUME ~cut, ~raced PROVE NoOthersIn(log) /\ CompleteIn(log)
  <2>1. copy = manifest /\ NoOthersIn(manifest) /\ TweakGoesWell(r)
    BY <1>2, <1>4, TweakFinds
  <2>2. /\ at \in DOMAIN copy /\ DOMAIN copy \subseteq Nat /\ at \in Nat
        /\ \A i \in DOMAIN copy : copy[i].id \in Ids
    BY <1>2, TweakIds
  <2>3. /\ copy[at].id \in response /\ request[copy[at].id] = body
        /\ \A i \in DOMAIN copy :
              /\ i < at => Complete(copy[i])
              /\ i > at => copy[i].id \in Left(todo)
                           \/ (request[copy[i].id] = Gone /\ copy[i].id \notin response)
    BY <1>1, <1>2, <2>1 DEF TweakGoesWell
  <2>4. Listing(copy, appended) /\ body \in Hashes /\ body # Gone
    BY <1>2, EditsAssumption DEF ListsInv, IsEdit, Hashes
  <2>5. Left(todo) = {}
    BY <1>1, NothingLeft
  <2> HIDE DEF r, copy, at, body, todo
  <2>6. /\ DOMAIN log = 1 .. at
        /\ \A i \in 1 .. at - 1 : log[i] = copy[i]
        /\ log[at] = TxOf(copy[at].id, body)
        /\ Listed(log) = {copy[i].id : i \in 1 .. at}
    BY <2>2, <2>4, ListedKept
  <2> HIDE DEF log
  <2>7. DOMAIN copy = 1 .. Len(copy) /\ Len(copy) \in Nat
    BY <2>4 DEF Listing
  <2>8. ASSUME NEW i \in DOMAIN log PROVE Complete(log[i])
    <3>1. CASE i = at
      <4>1. log[i].id = copy[at].id /\ log[i].hash = body
        BY <2>6, <3>1 DEF TxOf
      <4> QED
        BY <2>3, <2>4, <4>1 DEF Complete, KeyIs
    <3>2. CASE i # at
      <4>1. i \in 1 .. at - 1 /\ i \in DOMAIN copy /\ i < at
        BY <2>2, <2>6, <2>7, <3>2
      <4> QED
        BY <2>3, <2>6, <4>1
    <3> QED
      BY <3>1, <3>2
  <2>9. ASSUME NEW id \in Listed(manifest), id \in response \/ (id \in Ids /\ request[id] # Gone)
        PROVE  id \in Listed(log)
    <3>1. PICK i \in DOMAIN copy : id = copy[i].id
      BY <2>1 DEF Listed
    <3>2. ~(i > at)
      BY <2>3, <2>5, <2>9, <3>1
    <3>3. i \in 1 .. at
      BY <2>2, <2>7, <3>1, <3>2
    <3> QED
      BY <2>6, <3>1, <3>3
  <2>10. NoOthersIn(log)
    BY <2>1, <2>9 DEF NoOthersIn
  <2> QED
    BY <2>8, <2>10 DEF CompleteIn
<1> HIDE DEF log
<1> QED
  BY <1>1, <1>2, <1>3, <1>4, RetireWhole

LEMMA TweakWhole ==
    ASSUME ListsInv, SurvivesInv, KeptInv, FitsInv, FilesTyped, WholeInv, NEW p \in Procs,
           Tweak(p), UNCHANGED version
    PROVE  WholeInv'
<1> DEFINE r == proc[p]
           copy == proc[p].copy
           at == proc[p].at
           todo == proc[p].todo
           later == {copy[k].id : k \in at + 1 .. Len(copy)}
<1> USE DEF source, history
<1>1. CASE TweakInstall(p)
  <2>1. /\ r.phase = "tweakInstall" /\ Installs(Kept(copy, at, r.body)) /\ Ends(p)
        /\ UNCHANGED <<request, response, fork, cut, raced, kept>>
    BY <1>1 DEF TweakInstall
  <2>2. Written(r) = Kept(copy, at, r.body) /\ "tweakInstall" \in GapPhases
    BY <2>1 DEF Written, GapPhases
  <2> QED
    BY <2>1, <2>2, InstallWhole
<1>2. CASE TweakRewrite(p) \/ TweakUnlinkRequest(p) \/ TweakUnlinkResponse(p)
  <2>1. /\ r.phase \in TweakPhases \ {"tweakInstall"} /\ r # Idle
        /\ UNCHANGED <<raced, cut, fork, kept, manifest, there>>
        /\ \A q \in Procs \ {p} : proc'[q] = proc[q]
    BY <1>2 DEF TweakRewrite, TweakUnlinkRequest, TweakUnlinkResponse, TweakPhases, Goes, Idle,
       ListsInv
  <2> SUFFICES ASSUME ~cut', ~raced'
               PROVE  /\ NoOthersIn(manifest)' /\ ForkIsWhole' /\ GoesWell(proc[p])'
                      /\ ~Unlinking(proc'[p]) => CompleteIn(manifest)'
    BY <2>1, WholeAgain
  <2>2. /\ copy = manifest /\ NoOthersIn(manifest) /\ TweakGoesWell(r) /\ ForkIsWhole
        /\ ~Unlinking(r) => CompleteIn(manifest)
    BY <2>1, TweakFinds
  <2>3. ForkIsWhole'
    BY <2>1, <2>2 DEF ForkIsWhole, MissingBlobs
  <2>4. ASSUME proc'[p].phase \in {"unlinkRequest", "unlinkResponse"}
        PROVE  /\ WritesWell(proc[p])' /\ AppendGoesWell(proc[p])' /\ ForkGoesWell(proc[p])'
               /\ MigrationGoesWell(proc[p])' /\ Unlinking(proc'[p])
    BY <2>4 DEF WritesWell, AppendGoesWell, ForkGoesWell, MigrationGoesWell, GapPhases,
       ForkPhases, HashedPhases, Unlinking
  <2>5. /\ at \in DOMAIN copy /\ DOMAIN copy \subseteq Nat /\ at \in Nat
        /\ \A i \in DOMAIN copy :
              /\ copy[i].id \in Ids
              /\ i # at => copy[i].id # copy[at].id
              /\ i <= at => copy[i].id \notin later
    BY <2>1, TweakIds
  <2>6. \A i \in DOMAIN copy : i < at \/ i = at \/ i > at
    BY <2>5
  <2>7. /\ Left(todo) \subseteq later /\ copy[at].id \in response
        /\ \A i \in DOMAIN copy :
              /\ i < at => Complete(copy[i])
              /\ i > at => copy[i].id \in Left(todo)
                           \/ (request[copy[i].id] = Gone /\ copy[i].id \notin response)
    BY <2>1, <2>2 DEF TweakGoesWell
  <2>8. CASE TweakRewrite(p)
    <3>1. /\ request' = [request EXCEPT ![copy[at].id] = r.body] /\ UNCHANGED <<manifest, response>>
          /\ proc'[p].phase = "unlinkRequest" /\ proc'[p].copy = copy /\ proc'[p].at = at
          /\ proc'[p].body = r.body /\ proc'[p].todo = todo
      BY <2>8, GoesTo DEF TweakRewrite
    <3> HIDE DEF r, copy, at, todo, later
    <3>2. request'[copy[at].id] = r.body
          /\ \A i \in DOMAIN copy : i # at => request'[copy[i].id] = request[copy[i].id]
      BY <2>5, <3>1 DEF ListsInv
    <3>3. NoOthersIn(manifest)'
      <4>1. copy[at].id \in Listed(manifest)
        BY <2>2, <2>5 DEF Listed
      <4> QED
        BY <2>1, <2>2, <2>5, <3>1, <4>1 DEF NoOthersIn, ListsInv
    <3>4. \A i \in DOMAIN copy :
              i < at => /\ request'[copy[i].id] # Gone /\ copy[i].id \in response'
                        /\ KeyIs(copy[i].hash, request'[copy[i].id])
      BY <2>5, <2>7, <3>1, <3>2 DEF Complete
    <3>5. TweakGoesWell(proc[p])'
      BY <2>5, <2>7, <3>1, <3>2, <3>4 DEF TweakGoesWell, Complete, later
    <3> QED
      BY <2>3, <2>4, <3>1, <3>3, <3>5 DEF GoesWell
  <2>9. CASE TweakUnlinkRequest(p)
    <3>1. /\ request' = [request EXCEPT ![Head(todo)] = Gone] /\ UNCHANGED <<manifest, response>>
          /\ r.phase = "unlinkRequest" /\ todo # << >>
          /\ proc'[p].phase = "unlinkResponse" /\ proc'[p].copy = copy /\ proc'[p].at = at
          /\ proc'[p].body = r.body /\ proc'[p].todo = todo
      BY <2>9, GoesTo DEF TweakUnlinkRequest
    <3>2. Head(todo) \in Ids /\ Head(todo) \in Left(todo)
      BY <3>1, LeftTail DEF FilesTyped
    <3>3. request[copy[at].id] = r.body
      BY <2>2, <3>1 DEF TweakGoesWell
    <3> HIDE DEF r, copy, at, todo, later
    <3>4. /\ request'[Head(todo)] = Gone
          /\ \A i \in DOMAIN copy : i <= at => request'[copy[i].id] = request[copy[i].id]
          /\ \A id \in Ids : request'[id] # Gone => request[id] # Gone
      BY <2>5, <2>7, <3>1, <3>2 DEF ListsInv
    <3>5. NoOthersIn(manifest)'
      BY <2>1, <2>2, <3>1, <3>4 DEF NoOthersIn
    <3>6. \A i \in DOMAIN copy :
              i < at => /\ request'[copy[i].id] # Gone /\ copy[i].id \in response'
                        /\ KeyIs(copy[i].hash, request'[copy[i].id])
      BY <2>5, <2>7, <3>1, <3>4 DEF Complete
    <3>7. request'[copy[at].id] = r.body
      BY <2>5, <3>3, <3>4
    <3>8. TweakGoesWell(proc[p])'
      BY <2>5, <2>7, <3>1, <3>4, <3>6, <3>7 DEF TweakGoesWell, Complete, later
    <3> QED
      BY <2>3, <2>4, <3>1, <3>5, <3>8 DEF GoesWell
  <2>10. CASE TweakUnlinkResponse(p)
    <3>1. /\ response' = response \ {Head(todo)} /\ UNCHANGED <<manifest, request>>
          /\ r.phase = "unlinkResponse"
          /\ proc' = [proc EXCEPT ![p].phase = "unlinkRequest", ![p].todo = Tail(@)]
      BY <2>10 DEF TweakUnlinkResponse
    <3>2. /\ proc'[p].phase = "unlinkRequest" /\ proc'[p].copy = copy /\ proc'[p].at = at
          /\ proc'[p].body = r.body /\ proc'[p].todo = Tail(todo)
      BY <3>1, DoesOne
    <3>3. todo \in Seq(Ids) /\ todo # << >>
      BY <3>1 DEF FilesTyped, SecondPhases
    <3>4. request[copy[at].id] = r.body /\ request[Head(todo)] = Gone
      BY <2>2, <3>1 DEF TweakGoesWell
    <3>5. /\ Left(Tail(todo)) \subseteq Left(todo) /\ Head(todo) \in Left(todo)
          /\ \A x \in Left(todo) : x = Head(todo) \/ x \in Left(Tail(todo))
      BY <3>3, LeftTail
    <3> HIDE DEF r, copy, at, todo, later
    <3>6. NoOthersIn(manifest)'
      BY <2>1, <2>2, <3>1 DEF NoOthersIn
    <3>7. \A i \in DOMAIN copy : i <= at => copy[i].id # Head(todo)
      BY <2>5, <2>7, <3>5
    <3>8. \A i \in DOMAIN copy :
              i < at => /\ request'[copy[i].id] # Gone /\ copy[i].id \in response'
                        /\ KeyIs(copy[i].hash, request'[copy[i].id])
      BY <2>5, <2>7, <3>1, <3>7 DEF Complete
    <3>9. copy[at].id \in response'
      BY <2>5, <2>7, <3>1, <3>7
    <3>10. ASSUME NEW i \in DOMAIN copy, i > at
           PROVE  \/ copy[i].id \in Left(Tail(todo))
                  \/ request'[copy[i].id] = Gone /\ copy[i].id \notin response'
      <4>1. CASE copy[i].id \in Left(todo)
        BY <3>1, <3>4, <3>5, <4>1
      <4>2. CASE copy[i].id \notin Left(todo)
        BY <2>7, <3>1, <3>10, <4>2
      <4> QED
        BY <4>1, <4>2
    <3>11. Left(Tail(todo)) \subseteq later /\ request'[copy[at].id] = r.body
      BY <2>7, <3>1, <3>4, <3>5
    <3>12. TweakGoesWell(proc[p])'
      BY <3>2, <3>8, <3>9, <3>10, <3>11 DEF TweakGoesWell, Complete, later
    <3> QED
      BY <2>3, <2>4, <3>2, <3>6, <3>12 DEF GoesWell
  <2> QED
    BY <1>2, <2>8, <2>9, <2>10
<1> QED
  BY <1>1, <1>2, TweakRetireWhole DEF Tweak

LEMMA ForkLoadWhole ==
    ASSUME ListsInv, SurvivesInv, FilesTyped, WholeInv, NEW p \in Procs, NEW seq \in 0 .. MaxTxs,
           ForkLoad(p, seq), ~Legacy, UNCHANGED version
    PROVE  WholeInv'
<1> PICK todo : todo = [i \in 1 .. seq |-> manifest[i].id]
  OBVIOUS
<1>1. /\ Works(p, "forkMake", SubSeq(manifest, 1, seq), seq, NoBody, todo)
      /\ proc[p] = Idle /\ NotesRace(p) /\ seq \in 0 .. Len(manifest) /\ ~fork.made
      /\ UNCHANGED <<manifest, request, response, fork, cut, kept>>
  BY DEF ForkLoad, source
<1>2. /\ proc'[p].phase = "forkMake" /\ proc'[p].copy = SubSeq(manifest, 1, seq)
      /\ proc'[p].todo = todo /\ \A q \in Procs \ {p} : proc'[q] = proc[q]
  <2>1. proc' = [proc EXCEPT ![p] = [phase |-> "forkMake", copy |-> SubSeq(manifest, 1, seq),
                                     at |-> seq, body |-> NoBody, todo |-> todo]]
    BY <1>1 DEF Works
  <2>2. DOMAIN proc = Procs
    BY DEF ListsInv
  <2> QED
    BY <2>1, <2>2
<1> SUFFICES ASSUME ~cut', ~raced'
             PROVE  /\ NoOthersIn(manifest)' /\ ForkIsWhole' /\ GoesWell(proc[p])'
                    /\ CompleteIn(manifest)'
  BY <1>1, <1>2, WholeAgain
<1>3. ~cut /\ ~raced /\ \A q \in Procs : proc[q] = Idle
  BY <1>1, AloneNow
<1>4. NoOthersIn(manifest) /\ ForkIsWhole /\ CompleteIn(manifest)
  BY <1>3, WholeAtRest
<1>5. NoOthersIn(manifest)' /\ ForkIsWhole' /\ CompleteIn(manifest)'
  BY <1>1, <1>3, <1>4 DEF NoOthersIn, ForkIsWhole, CompleteIn, Complete, MissingBlobs
<1>6. Left(todo) = {manifest[i].id : i \in 1 .. seq}
  BY <1>1, IdsOf DEF ListsInv
<1>7. /\ DOMAIN SubSeq(manifest, 1, seq) = 1 .. seq
      /\ \A i \in 1 .. seq : SubSeq(manifest, 1, seq)[i] = manifest[i]
  BY <1>1, ListingPrefix DEF ListsInv, Listing
<1>8. ForkGoesWell(proc[p])'
  <2>1. ~fork'.done
    BY <1>1 DEF FilesTyped
  <2>2. \A i \in DOMAIN SubSeq(manifest, 1, seq) : SubSeq(manifest, 1, seq)[i].id \in Left(todo)
    BY <1>6, <1>7
  <2>3. \A i \in DOMAIN proc'[p].copy : proc'[p].copy[i].id \in Left(proc'[p].todo)
    BY <1>2, <2>2
  <2> QED
    BY <1>2, <2>1, <2>3 DEF ForkGoesWell
<1>9. WritesWell(proc[p])' /\ AppendGoesWell(proc[p])' /\ TweakGoesWell(proc[p])'
      /\ MigrationGoesWell(proc[p])'
  BY <1>2 DEF WritesWell, AppendGoesWell, TweakGoesWell, MigrationGoesWell, GapPhases,
     TweakPhases, HashedPhases
<1> QED
  BY <1>5, <1>8, <1>9 DEF GoesWell

LEMMA ForkWhole ==
    ASSUME ListsInv, SurvivesInv, FitsInv, FilesTyped, WholeInv, NEW p \in Procs, Fork(p),
           UNCHANGED version
    PROVE  WholeInv'
<1> DEFINE r == proc[p]
           copy == proc[p].copy
           todo == proc[p].todo
<1>1. /\ r.phase \in ForkPhases
      /\ UNCHANGED <<raced, cut, manifest, there, request, response, kept>>
      /\ \A q \in Procs \ {p} : proc'[q] = proc[q]
  BY DEF Fork, ForkMake, ForkCopyRequest, ForkCopyResponse, ForkRetire, ForkInstall, ForkPhases,
         Goes, Ends, ListsInv, source, history
<1>2. r # Idle /\ ~Unlinking(r) /\ r.phase \notin GapPhases /\ r.phase \in EditPhases
  BY <1>1 DEF ForkPhases, Idle, Unlinking, GapPhases, EditPhases
<1> SUFFICES ASSUME ~cut', ~raced'
             PROVE  /\ NoOthersIn(manifest)' /\ ForkIsWhole' /\ GoesWell(proc[p])'
                    /\ CompleteIn(manifest)'
  BY <1>1, <1>2, WholeAgain
<1>3. ~cut /\ ~raced /\ \A q \in Procs \ {p} : proc[q] = Idle
  BY <1>1, <1>2, AloneNow
<1>4. ~Legacy
  BY <1>2 DEF SurvivesInv
<1>5. NoOthersIn(manifest) /\ ForkGoesWell(r) /\ ~fork.done /\ CompleteIn(manifest)
  BY <1>1, <1>2, <1>3, <1>4, WholeBefore DEF GoesWell, ForkGoesWell
<1>6. NoOthersIn(manifest)' /\ CompleteIn(manifest)'
  BY <1>1, <1>5 DEF NoOthersIn, CompleteIn, Complete
<1>7. \A i \in DOMAIN copy : copy[i].id \in Ids /\ Complete(copy[i])
  <2>1. Listing(manifest, appended) /\ r.at \in 0 .. Len(manifest)
        /\ copy = SubSeq(manifest, 1, r.at)
    BY <1>1, <1>3 DEF ListsInv, FitsInv, CopyFits
  <2>2. /\ DOMAIN copy = 1 .. r.at /\ \A i \in 1 .. r.at : copy[i] = manifest[i]
        /\ 1 .. r.at \subseteq DOMAIN manifest
    BY <2>1, ListingPrefix DEF Listing
  <2> QED
    BY <1>5, <2>1, <2>2, ListedTx DEF CompleteIn
<1>8. fork \in [made : BOOLEAN, done : BOOLEAN, manifest : Seq(Tx), request : [Ids -> Texts],
                response : SUBSET Ids]
  BY DEF FilesTyped, ForkTyped
<1>9. ASSUME proc'[p].phase \in ForkPhases
      PROVE  WritesWell(proc[p])' /\ AppendGoesWell(proc[p])' /\ TweakGoesWell(proc[p])'
             /\ MigrationGoesWell(proc[p])'
  BY <1>9 DEF WritesWell, AppendGoesWell, TweakGoesWell, MigrationGoesWell, GapPhases,
     TweakPhases, ForkPhases, HashedPhases
<1>10. \A i \in DOMAIN copy :
           \/ copy[i].id \in Left(todo)
           \/ /\ r.phase # "forkMake"
              /\ fork.request[copy[i].id] = request[copy[i].id]
              /\ copy[i].id \in fork.response
  BY <1>1, <1>5 DEF ForkGoesWell
<1>11. CASE ForkMake(p)
  <2>1. /\ r.phase = "forkMake" /\ fork' = [fork EXCEPT !.made = TRUE]
        /\ proc'[p].phase = "forkCopy" /\ proc'[p].copy = copy /\ proc'[p].todo = todo
    BY <1>11, GoesTo DEF ForkMake
  <2>2. ~fork'.done
    BY <1>5, <1>8, <2>1
  <2>3. ForkGoesWell(proc[p])'
    BY <1>10, <2>1, <2>2 DEF ForkGoesWell
  <2> QED
    BY <1>6, <1>9, <2>1, <2>2, <2>3 DEF GoesWell, ForkIsWhole, ForkPhases
<1>12. CASE ForkCopyRequest(p)
  <2> DEFINE id == Head(todo)
  <2>1. /\ r.phase = "forkCopy" /\ todo # << >> /\ todo \in Seq(Ids)
        /\ proc'[p].phase = "forkResponse" /\ proc'[p].copy = copy /\ proc'[p].todo = todo
        /\ fork' = [fork EXCEPT !.request[id] = IF request[id] = Gone THEN @ ELSE request[id]]
    BY <1>12, GoesTo DEF ForkCopyRequest, ToCopy, FilesTyped
  <2>2. id \in Ids
    BY <2>1, LeftTail
  <2> HIDE DEF r, copy, todo, id
  <2>3. /\ ~fork'.done /\ fork'.response = fork.response
        /\ fork'.request[id] = IF request[id] = Gone THEN fork.request[id] ELSE request[id]
        /\ \A x \in Ids : x # id => fork'.request[x] = fork.request[x]
    BY <1>5, <1>8, <2>1, <2>2
  <2>4. ASSUME NEW i \in DOMAIN copy, copy[i].id \notin Left(todo)
        PROVE  fork'.request[copy[i].id] = request[copy[i].id] /\ copy[i].id \in fork'.response
    <3>1. CASE copy[i].id = id
      BY <1>10, <2>3, <2>4, <3>1
    <3>2. CASE copy[i].id # id
      BY <1>7, <1>10, <2>3, <2>4, <3>2
    <3> QED
      BY <3>1, <3>2
  <2>5. request[id] \in {Gone, fork'.request[id]}
    BY <2>3
  <2>6. ForkGoesWell(proc[p])'
    BY <1>1, <2>1, <2>3, <2>4, <2>5 DEF ForkGoesWell, id
  <2> QED
    BY <1>6, <1>9, <2>1, <2>3, <2>6 DEF GoesWell, ForkIsWhole, ForkPhases
<1>13. CASE ForkCopyResponse(p)
  <2> DEFINE id == Head(todo)
  <2>1. /\ r.phase = "forkResponse" /\ todo # << >> /\ todo \in Seq(Ids)
        /\ fork' = [fork EXCEPT !.response = @ \cup ({id} \cap response)]
    BY <1>13 DEF ForkCopyResponse, FilesTyped, SecondPhases
  <2>2. proc'[p].phase = "forkCopy" /\ proc'[p].copy = copy /\ proc'[p].todo = Tail(todo)
    BY <1>13, DoesOne DEF ForkCopyResponse
  <2>3. /\ id \in Ids /\ \A x \in Left(todo) : x = id \/ x \in Left(Tail(todo))
    BY <2>1, LeftTail
  <2>4. request[id] \in {Gone, fork.request[id]}
    BY <1>5, <2>1 DEF ForkGoesWell
  <2> HIDE DEF r, copy, todo, id
  <2>5. /\ ~fork'.done /\ fork'.response = fork.response \cup ({id} \cap response)
        /\ fork'.request = fork.request
    BY <1>5, <1>8, <2>1
  <2>6. ASSUME NEW i \in DOMAIN copy, copy[i].id \notin Left(Tail(todo))
        PROVE  fork'.request[copy[i].id] = request[copy[i].id] /\ copy[i].id \in fork'.response
    <3>1. CASE copy[i].id = id
      BY <1>7, <2>4, <2>5, <3>1 DEF Complete
    <3>2. CASE copy[i].id # id
      BY <1>10, <2>3, <2>5, <2>6, <3>2
    <3> QED
      BY <3>1, <3>2
  <2>7. ForkGoesWell(proc[p])'
    BY <1>1, <2>2, <2>5, <2>6 DEF ForkGoesWell
  <2> QED
    BY <1>6, <1>9, <2>2, <2>5, <2>7 DEF GoesWell, ForkIsWhole, ForkPhases
<1>14. CASE ForkRetire(p)
  <2>1. /\ r.phase = "forkCopy" /\ todo = << >>
        /\ fork' = [fork EXCEPT !.manifest = << >>, !.done = FALSE]
        /\ proc'[p].phase = "forkInstall" /\ proc'[p].copy = copy /\ proc'[p].todo = todo
    BY <1>14, GoesTo DEF ForkRetire, ToCopy
  <2>2. ~fork'.done /\ fork'.request = fork.request /\ fork'.response = fork.response
    BY <1>8, <2>1
  <2>3. ForkGoesWell(proc[p])'
    BY <1>1, <1>10, <2>1, <2>2 DEF ForkGoesWell
  <2> QED
    BY <1>6, <1>9, <2>1, <2>2, <2>3 DEF GoesWell, ForkIsWhole, ForkPhases
<1>15. CASE ForkInstall(p)
  <2>1. /\ r.phase = "forkInstall" /\ proc'[p] = Idle
        /\ fork' = [fork EXCEPT !.manifest = copy, !.done = TRUE]
    BY <1>15, EndsIdle DEF ForkInstall
  <2>2. fork'.manifest = copy /\ fork'.request = fork.request /\ fork'.response = fork.response
    BY <1>8, <2>1
  <2>3. Left(todo) = {}
    BY <1>5, <2>1, NothingLeft DEF ForkGoesWell
  <2>4. ASSUME NEW i \in DOMAIN copy
        PROVE  /\ fork.request[copy[i].id] # Gone /\ copy[i].id \in fork.response
               /\ KeyIs(copy[i].hash, fork.request[copy[i].id])
    BY <1>7, <1>10, <2>3 DEF Complete
  <2>5. ForkIsWhole'
    BY <2>2, <2>4 DEF ForkIsWhole, MissingBlobs
  <2>6. GoesWell(proc[p])'
    BY <2>1 DEF GoesWell, WritesWell, AppendGoesWell, TweakGoesWell, ForkGoesWell,
       MigrationGoesWell, Idle, TweakPhases, ForkPhases, HashedPhases, GapPhases
  <2> QED
    BY <1>6, <2>5, <2>6
<1> QED
  BY <1>11, <1>12, <1>13, <1>14, <1>15 DEF Fork

LEMMA MigrateWhole ==
    ASSUME ListsInv, SurvivesInv, KeptInv, FitsInv, FilesTyped, WholeInv, NEW p \in Procs,
           Migrate(p)
    PROVE  WholeInv'
<1> USE DEF OnlyProc, migrationVars
<1> DEFINE r == proc[p]
           copy == proc[p].copy
           at == proc[p].at
           todo == proc[p].todo
<1>0. CASE MigrateInstall(p)
  <2>1. /\ r.phase = "migrateInstall" /\ Installs(copy) /\ Ends(p)
        /\ UNCHANGED <<request, response, fork, cut, raced, kept>>
    BY <1>0 DEF MigrateInstall, history
  <2>2. Written(r) = copy /\ "migrateInstall" \in GapPhases
    BY <2>1 DEF Written, GapPhases
  <2> QED
    BY <2>1, <2>2, InstallWhole
<1> SUFFICES ASSUME ~MigrateInstall(p) PROVE WholeInv'
  BY <1>0
<1>1. /\ r.phase \in MigratePhases \ {"migrateInstall"} /\ UNCHANGED <<raced, cut, fork, kept>>
      /\ \A q \in Procs \ {p} : proc'[q] = proc[q]
      /\ r # Idle /\ ~Unlinking(r) /\ r.phase \notin GapPhases
  <2>1. r.phase \in MigratePhases \ {"migrateInstall"}
    BY DEF Migrate, MigrateRead, MigrateHash, MigrateHashed, EnsureRequest,
       EnsureResponse, PreviewEnds, MigrateBackup, MigrateRetire, MigratePhases
  <2>2. r # Idle /\ ~Unlinking(r) /\ r.phase \notin GapPhases
    BY <2>1 DEF MigratePhases, Idle, Unlinking, GapPhases
  <2> QED
    BY <2>1, <2>2 DEF Migrate, MigrateRead, MigrateHash, MigrateHashed, EnsureRequest,
       EnsureResponse, PreviewEnds, MigrateBackup, MigrateRetire, Works, Goes, Ends, ListsInv,
       history
<1>2. ASSUME ~cut, ~raced
      PROVE  /\ \A q \in Procs \ {p} : proc[q] = Idle
             /\ Legacy /\ CopyFits(r) /\ NoOthersIn(manifest) /\ MigrationGoesWell(r)
             /\ ForkIsWhole
  <2>1. \A q \in Procs \ {p} : proc[q] = Idle
    BY <1>1, <1>2 DEF SurvivesInv
  <2>2. version = 0 /\ there /\ CopyFits(r)
    BY <1>1, <1>2 DEF SurvivesInv, FitsInv
  <2> QED
    BY <1>1, <1>2, <2>1, <2>2, WholeBefore DEF GoesWell, Legacy
<1>3. CASE MigrateRetire(p)
  <2>1. /\ r.phase = "migrated" /\ Goes(p, "migrateInstall") /\ Retires
        /\ UNCHANGED <<request, response, fork, cut, raced, kept>>
    BY <1>3 DEF MigrateRetire, history
  <2>2. r.phase \in HashedPhases /\ "migrateInstall" \in GapPhases
    BY <2>1 DEF HashedPhases, GapPhases
  <2>3. Written(proc'[p]) = copy
    BY <2>1, GoesTo DEF Written
  <2>4. ASSUME ~cut, ~raced PROVE NoOthersIn(copy) /\ CompleteIn(copy)
    <3>1. NoOthersIn(manifest) /\ CopyFits(r) /\ MigrationGoesWell(r)
      BY <1>2, <2>4
    <3>2. Listed(copy) = Listed(manifest)
      BY <2>2, <3>1 DEF CopyFits, Listed
    <3>3. Left(todo) = {}
      BY <2>1, <3>1, NothingLeft DEF MigrationGoesWell
    <3> QED
      BY <2>2, <3>1, <3>2, <3>3 DEF NoOthersIn, CompleteIn, Complete, KeyIs, MigrationGoesWell
  <2> QED
    BY <1>1, <2>1, <2>2, <2>3, <2>4, RetireWhole
<1> SUFFICES ASSUME ~MigrateRetire(p) PROVE WholeInv'
  BY <1>3
<1>4. UNCHANGED <<manifest, there, version>>
  BY DEF Migrate, MigrateRead, MigrateHash, MigrateHashed, EnsureRequest, EnsureResponse,
         PreviewEnds, MigrateBackup, source
<1> SUFFICES ASSUME ~cut', ~raced'
             PROVE  NoOthersIn(manifest)' /\ ForkIsWhole' /\ GoesWell(proc[p])'
  <2>1. ~cut' /\ ~raced' => Legacy'
    BY <1>1, <1>2, <1>4 DEF Legacy
  <2> QED
    BY <1>1, <2>1, WholeAgain
<1>5. /\ Legacy /\ CopyFits(r) /\ NoOthersIn(manifest) /\ MigrationGoesWell(r) /\ ForkIsWhole
      /\ ~cut /\ ~raced
  BY <1>1, <1>2
<1>6. ForkIsWhole'
  BY <1>1, <1>5 DEF ForkIsWhole, MissingBlobs
<1>7. ASSUME proc'[p].phase \in HashedPhases \cup {"rehash"}
      PROVE  WritesWell(proc[p])' /\ AppendGoesWell(proc[p])' /\ TweakGoesWell(proc[p])'
             /\ ForkGoesWell(proc[p])'
  BY <1>7 DEF WritesWell, AppendGoesWell, TweakGoesWell, ForkGoesWell, GapPhases, TweakPhases,
     ForkPhases, HashedPhases
<1>8. Listing(copy, appended) /\ DOMAIN copy \subseteq Nat
      /\ \A i \in DOMAIN copy : copy[i].id \in Ids
  <2>1. Listing(copy, appended)
    BY DEF ListsInv, IsEdit
  <2> HIDE DEF copy
  <2> QED
    BY <2>1, ListedTx DEF Listing
<1>9. ASSUME r.phase \in HashedPhases \cup {"rehash"} PROVE Listed(copy) = Listed(manifest)
  BY <1>5, <1>9 DEF CopyFits, Listed
<1>10. ASSUME UNCHANGED <<request, response>> PROVE NoOthersIn(manifest)'
  BY <1>1, <1>4, <1>5, <1>10 DEF NoOthersIn, Listed
<1>20. ASSUME Ends(p) PROVE GoesWell(proc[p])'
  <2>1. proc'[p] = Idle
    BY <1>20, EndsIdle
  <2> QED
    BY <2>1 DEF GoesWell, WritesWell, AppendGoesWell, TweakGoesWell, ForkGoesWell,
       MigrationGoesWell, Idle, TweakPhases, ForkPhases, HashedPhases, GapPhases
<1>11. CASE MigrateRead(p) /\ there
  <2> PICK ids : ids = [i \in DOMAIN manifest |-> manifest[i].id]
    OBVIOUS
  <2>1. /\ Works(p, "rehash", manifest, 1, NoBody, ids)
        /\ UNCHANGED <<request, response>>
    BY <1>11 DEF MigrateRead
  <2>2. /\ proc'[p].phase = "rehash" /\ proc'[p].copy = manifest /\ proc'[p].at = 1
        /\ proc'[p].todo = ids
    BY <2>1, WorksAt
  <2>3. Left(ids) = Listed(manifest)
    BY DEF Left, Listed
  <2>4. \A i \in DOMAIN manifest : i \in Nat /\ ~(i < 1) /\ manifest[i].id \in Left(ids)
    <3>1. \A i \in DOMAIN manifest : i \in Nat /\ ~(i < 1)
      BY DEF ListsInv, Listing
    <3> QED
      BY <2>3, <3>1 DEF Listed
  <2>5. MigrationGoesWell(proc[p])'
    BY <2>2, <2>3, <2>4 DEF MigrationGoesWell, HashedPhases
  <2> QED
    BY <1>6, <1>7, <1>10, <2>1, <2>2, <2>5 DEF GoesWell
<1>12. CASE MigrateHash(p)
  <2> DEFINE tx == copy[at]
             h == Rehashed(tx, request[tx.id])
             new == [copy EXCEPT ![at] = TxOf(tx.id, h)]
  <2>1. /\ UNCHANGED <<request, response>> /\ r.phase = "rehash"
        /\ at \in DOMAIN copy
    BY <1>12 DEF MigrateHash
  <2>2. CASE Ends(p)
    BY <1>6, <1>10, <1>20, <2>1, <2>2
  <2>3. CASE Works(p, "rehash", new, at + 1, NoBody, todo)
    <3>1. /\ at \in Nat \ {0}
          /\ \A i \in DOMAIN copy :
                /\ i < at => request[copy[i].id] \in {Gone, copy[i].hash}
                /\ copy[i].id \in Left(todo)
          /\ Left(todo) \subseteq Listed(copy)
      BY <1>5, <2>1 DEF MigrationGoesWell
    <3>2. TxOf(tx.id, h).id = tx.id /\ TxOf(tx.id, h).hash = h
      BY DEF TxOf
    <3>3. request[tx.id] \in {Gone, h}
      BY DEF Rehashed
    <3> HIDE DEF h
    <3>4. /\ DOMAIN new = DOMAIN copy /\ new[at].hash = h
          /\ \A i \in DOMAIN copy : new[i].id = copy[i].id /\ (i # at => new[i] = copy[i])
      BY <2>1, <3>2
    <3>5. /\ proc'[p].phase = "rehash" /\ proc'[p].copy = new /\ proc'[p].at = at + 1
          /\ proc'[p].todo = todo
      <4> HIDE DEF new
      <4> QED
        BY <2>3, WorksAt
    <3> HIDE DEF new, copy, at, todo
    <3>6. ASSUME NEW i \in DOMAIN copy, i < at + 1 PROVE request[new[i].id] \in {Gone, new[i].hash}
      <4>1. CASE i = at
        BY <3>3, <3>4, <4>1
      <4>2. CASE i # at
        BY <1>8, <3>1, <3>4, <3>6, <4>2
      <4> QED
        BY <4>1, <4>2
    <3>7. Listed(new) = Listed(copy) /\ at + 1 \in Nat \ {0}
      BY <3>1, <3>4 DEF Listed
    <3>8. MigrationGoesWell(proc[p])'
      BY <2>1, <3>1, <3>4, <3>5, <3>6, <3>7 DEF MigrationGoesWell, HashedPhases
    <3> QED
      BY <1>6, <1>7, <1>10, <2>1, <3>5, <3>8 DEF GoesWell
  <2> QED
    BY <1>12, <2>2, <2>3 DEF MigrateHash
<1>13. CASE MigrateHashed(p)
  <2>1. /\ UNCHANGED <<request, response>>
        /\ r.phase = "rehash" /\ at \notin DOMAIN copy /\ proc'[p].phase = "blobRequest"
        /\ proc'[p].copy = copy /\ proc'[p].todo = todo
    BY <1>13, GoesTo DEF MigrateHashed
  <2>2. \A i \in DOMAIN copy : i < at
    <3>1. DOMAIN copy = 1 .. Len(copy) /\ Len(copy) \in Nat
      BY <1>8 DEF Listing
    <3>2. at \in Nat \ {0} /\ at \notin 1 .. Len(copy)
      BY <1>5, <2>1, <3>1 DEF MigrationGoesWell
    <3> QED
      BY <3>1, <3>2
  <2>3. /\ \A i \in DOMAIN copy :
              request[copy[i].id] \in {Gone, copy[i].hash} /\ copy[i].id \in Left(todo)
        /\ Left(todo) \subseteq Listed(copy)
    BY <1>5, <2>1, <2>2 DEF MigrationGoesWell
  <2>4. MigrationGoesWell(proc[p])'
    BY <2>1, <2>3 DEF MigrationGoesWell, HashedPhases
  <2> QED
    BY <1>6, <1>7, <1>10, <2>1, <2>4 DEF GoesWell, HashedPhases
<1>14. ASSUME r.phase \in HashedPhases
       PROVE  /\ Left(todo) \subseteq Listed(copy) /\ Listed(copy) = Listed(manifest)
              /\ \A i \in DOMAIN copy :
                    /\ request[copy[i].id] \in {Gone, copy[i].hash, Blank}
                    /\ \/ copy[i].id \in Left(todo)
                       \/ request[copy[i].id] # Gone /\ copy[i].id \in response
  BY <1>5, <1>9, <1>14 DEF MigrationGoesWell
<1>15. CASE EnsureRequest(p)
  <2> DEFINE id == Head(todo)
  <2>1. /\ UNCHANGED response /\ todo # << >> /\ todo \in Seq(Ids)
        /\ request' = [request EXCEPT ![id] = IF @ = Gone THEN Blank ELSE @]
        /\ r.phase = "blobRequest" /\ proc'[p].phase = "blobResponse"
        /\ proc'[p].copy = copy /\ proc'[p].todo = todo
    BY <1>15, GoesTo DEF EnsureRequest, FilesTyped
  <2>2. id \in Ids /\ id \in Left(todo)
    BY <2>1, LeftTail
  <2>3. Blank # Gone
    BY MigrationAssumption
  <2>4. r.phase \in HashedPhases
    BY <2>1 DEF HashedPhases
  <2> HIDE DEF r, copy, todo, id
  <2>5. /\ request'[id] # Gone
        /\ \A x \in Ids : /\ x # id => request'[x] = request[x]
                          /\ request'[x] = request[x] \/ request'[x] = Blank
                          /\ request[x] # Gone => request'[x] # Gone
    BY <2>1, <2>2, <2>3 DEF ListsInv
  <2>6. NoOthersIn(manifest)'
    <3>1. kept' = kept /\ Listed(manifest)' = Listed(manifest) /\ id \in Listed(manifest)
      BY <1>1, <1>4, <1>14, <2>2, <2>4 DEF Listed
    <3> QED
      BY <1>5, <2>1, <2>5, <3>1 DEF NoOthersIn
  <2>7. \A i \in DOMAIN copy :
            /\ request'[copy[i].id] \in {Gone, copy[i].hash, Blank}
            /\ \/ copy[i].id \in Left(todo)
               \/ request'[copy[i].id] # Gone /\ copy[i].id \in response
    BY <1>8, <1>14, <2>4, <2>5
  <2>8. MigrationGoesWell(proc[p])'
    BY <1>14, <2>1, <2>4, <2>5, <2>7 DEF MigrationGoesWell, HashedPhases, id
  <2> QED
    BY <1>6, <1>7, <2>1, <2>6, <2>8 DEF GoesWell, HashedPhases
<1>16. CASE EnsureResponse(p)
  <2> DEFINE id == Head(todo)
  <2>1. /\ UNCHANGED request /\ todo # << >> /\ todo \in Seq(Ids)
        /\ response' = response \cup {id} /\ r.phase = "blobResponse"
        /\ proc' = [proc EXCEPT ![p].phase = "blobRequest", ![p].todo = Tail(@)]
    BY <1>16 DEF EnsureResponse, FilesTyped, SecondPhases
  <2>2. proc'[p].phase = "blobRequest" /\ proc'[p].copy = copy /\ proc'[p].todo = Tail(todo)
    BY <2>1, DoesOne
  <2>3. /\ id \in Ids /\ id \in Left(todo) /\ Left(Tail(todo)) \subseteq Left(todo)
        /\ \A x \in Left(todo) : x = id \/ x \in Left(Tail(todo))
    BY <2>1, LeftTail
  <2>4. r.phase \in HashedPhases /\ request[id] # Gone
    BY <1>5, <2>1 DEF HashedPhases, MigrationGoesWell
  <2> HIDE DEF r, copy, todo, id
  <2>5. NoOthersIn(manifest)'
    BY <1>1, <1>4, <1>5, <1>14, <2>1, <2>3, <2>4 DEF NoOthersIn, Listed
  <2>6. ASSUME NEW i \in DOMAIN copy
        PROVE  \/ copy[i].id \in Left(Tail(todo))
               \/ request[copy[i].id] # Gone /\ copy[i].id \in response'
    <3>1. CASE copy[i].id = id
      BY <2>1, <2>4, <3>1
    <3>2. CASE copy[i].id # id
      BY <1>14, <2>1, <2>3, <2>4, <3>2
    <3> QED
      BY <3>1, <3>2
  <2>7. MigrationGoesWell(proc[p])'
    BY <1>14, <2>1, <2>2, <2>3, <2>4, <2>6 DEF MigrationGoesWell, HashedPhases
  <2> QED
    BY <1>6, <1>7, <2>1, <2>2, <2>5, <2>7 DEF GoesWell, HashedPhases
<1>17. CASE PreviewEnds(p) \/ ((MigrateRead(p) \/ MigrateBackup(p)) /\ ~there)
  <2>1. UNCHANGED <<request, response>> /\ Ends(p)
    BY <1>17 DEF PreviewEnds, MigrateRead, MigrateBackup
  <2> QED
    BY <1>6, <1>10, <1>20, <2>1
<1>18. CASE MigrateBackup(p) /\ there
  <2>1. /\ UNCHANGED <<request, response>> /\ r.phase = "blobRequest"
        /\ todo = << >> /\ proc'[p].phase = "migrated" /\ proc'[p].copy = copy
        /\ proc'[p].todo = todo
    BY <1>18, GoesTo DEF MigrateBackup
  <2>2. r.phase \in HashedPhases
    BY <2>1 DEF HashedPhases
  <2>3. MigrationGoesWell(proc[p])'
    BY <1>14, <2>1, <2>2 DEF MigrationGoesWell, HashedPhases
  <2> QED
    BY <1>6, <1>7, <1>10, <2>1, <2>3 DEF GoesWell, HashedPhases
<1> QED
  BY <1>11, <1>12, <1>13, <1>15, <1>16, <1>17, <1>18 DEF Migrate

\* An append that raises writes files that nobody lists.
LEMMA RaiseWhole ==
    ASSUME ListsInv, SurvivesInv, KeptInv, WholeInv, NEW p \in Procs, NEW body \in Bodies,
           AppendRaises(p, body)
    PROVE  WholeInv'
<1> DEFINE new == appended + 1
<1>1. /\ request' = [request EXCEPT ![new] = body] /\ response' = response \cup {new}
      /\ Legacy /\ new \in Ids
      /\ UNCHANGED <<manifest, there, fork, proc, cut, raced, kept, version>>
  BY EditsAssumption DEF AppendRaises, ListsInv, Ids, source, history, migrationVars
<1> SUFFICES ASSUME ~cut, ~raced PROVE WholeInv'
  BY <1>1 DEF WholeInv
<1>2. /\ request'[new] # Gone
      /\ \A x \in Ids : x # new => request'[x] = request[x]
  BY <1>1, EditsAssumption DEF ListsInv
<1>3. new \notin kept
  BY DEF KeptInv, ListsInv
<1>4. \A q \in Procs : proc[q].phase \notin GapPhases \cup EditPhases
  BY <1>1 DEF SurvivesInv, KeptInv, Legacy
<1>5. NoOthersIn(manifest)'
  BY <1>1, <1>2, <1>3, <1>4 DEF NoOthersIn, WholeInv, Listed
<1>6. ForkIsWhole'
  BY <1>1 DEF ForkIsWhole, MissingBlobs, WholeInv
<1>7. ASSUME NEW q \in Procs PROVE GoesWell(proc[q])'
  <2> PICK r : r = proc[q]
    OBVIOUS
  <2>1. r.phase \notin GapPhases \cup EditPhases /\ MigrationGoesWell(r) /\ proc'[q] = r
    BY <1>1, <1>4 DEF WholeInv, GoesWell
  <2>2. Listing(r.copy, appended) /\ appended \in Nat
    BY DEF ListsInv, IsEdit
  <2>3. \A i \in DOMAIN r.copy : request'[r.copy[i].id] = request[r.copy[i].id]
    <3>1. \A i \in DOMAIN r.copy :
              r.copy[i].id \in Ids /\ r.copy[i].id \in Nat /\ r.copy[i].id <= appended
      BY <2>2, ListedTx
    <3>2. \A i \in DOMAIN r.copy : r.copy[i].id # new
      BY <2>2, <3>1
    <3> QED
      BY <1>2, <3>1, <3>2
  <2>4. request[Head(r.todo)] # Gone => request'[Head(r.todo)] # Gone
    BY <1>1, <1>2 DEF ListsInv
  <2> HIDE DEF new
  <2>5. MigrationGoesWell(proc[q])'
    BY <1>1, <2>1, <2>3, <2>4 DEF MigrationGoesWell
  <2>6. /\ WritesWell(proc[q])' /\ AppendGoesWell(proc[q])' /\ TweakGoesWell(proc[q])'
        /\ ForkGoesWell(proc[q])'
    BY <2>1 DEF WritesWell, AppendGoesWell, TweakGoesWell, ForkGoesWell, EditPhases,
       ForkPhases, AppendPhases, TweakPhases
  <2> QED
    BY <2>5, <2>6 DEF GoesWell
<1>8. Legacy'
  BY <1>1 DEF Legacy
<1> QED
  BY <1>5, <1>6, <1>7, <1>8 DEF WholeInv

LEMMA NextWhole ==
    ASSUME ListsInv, SurvivesInv, KeptInv, FitsInv, FilesTyped, WholeInv,
           [NextMigration]_allVars
    PROVE  WholeInv'
<1>1. ASSUME NEW p \in Procs, EditCalls(p) PROVE WholeInv'
  <2>1. CASE Kill(p, Rewriting(p) \cup Creating(p))
    BY <2>1 DEF Kill, WholeInv
  <2> QED
    BY <1>1, <2>1, AppendWhole, RecordWhole, TweakLoadWhole, ForkLoadWhole, TweakWhole, ForkWhole
       DEF EditCalls, Begins
<1>2. ASSUME NEW p \in Procs, NEW preview \in BOOLEAN, MigratePlan(p, preview) PROVE WholeInv'
  <2>1. /\ proc[p] = Idle /\ NotesRace(p) /\ Goes(p, "planned") /\ Legacy
        /\ UNCHANGED <<manifest, there, request, response, fork, cut, version, kept>>
    BY <1>2 DEF MigratePlan, source
  <2>2. proc'[p].phase = "planned" /\ \A q \in Procs \ {p} : proc'[q] = proc[q]
    BY <2>1, GoesTo
  <2>3. ASSUME ~cut', ~raced' PROVE NoOthersIn(manifest)' /\ ForkIsWhole'
    <3>1. ~cut /\ ~raced /\ \A q \in Procs : proc[q] = Idle
      BY <2>1, <2>3, AloneNow
    <3>2. NoOthersIn(manifest) /\ ForkIsWhole
      BY <3>1, WholeAtRest
    <3> QED
      BY <2>1, <3>1, <3>2 DEF NoOthersIn, Listed, ForkIsWhole, MissingBlobs
  <2>4. GoesWell(proc[p])'
    BY <2>2 DEF GoesWell, WritesWell, AppendGoesWell, TweakGoesWell, ForkGoesWell,
       MigrationGoesWell, TweakPhases, ForkPhases, HashedPhases, GapPhases
  <2>5. Legacy'
    BY <2>1 DEF Legacy
  <2> QED
    BY <2>1, <2>2, <2>3, <2>4, <2>5, WholeAgain
<1>3. CASE UNCHANGED allVars
  <2>1. UNCHANGED <<manifest, there, request, response, fork, proc, cut, raced, version, kept>>
    BY <1>3 DEF allVars, vars, source, history, migrationVars
  <2>2. \A r : GoesWell(r)' <=> GoesWell(r)
    BY <2>1 DEF GoesWell, WritesWell, NoOthersIn, CompleteIn, AppendGoesWell, TweakGoesWell,
       ForkGoesWell, MigrationGoesWell, Complete
  <2> QED
    BY <2>1, <2>2 DEF WholeInv, NoOthersIn, CompleteIn, Complete, ForkIsWhole, MissingBlobs,
       Legacy, Unlinking
<1> QED
  BY <1>1, <1>2, <1>3, MigrateWhole, RaiseWhole DEF NextMigration

LEMMA WholeAlways == SpecMigration => []WholeInv
<1>1. SpecMigration => []FilesTyped
  BY InitFiles, NextFiles, ListsInvariant, PTL DEF SpecMigration
<1> QED
  BY <1>1, InitWhole, NextWhole, ListsInvariant, SurvivesAlways, KeptAlways, FitsAlways, PTL
     DEF SpecMigration

\* tweak_transaction, append_transaction and migrate_cassette: as long as they
\* neither overlap nor are cut off, a cassette at rest has the files of what
\* it lists and, but for appends that raised, no others, under the keys of
\* their requests.
THEOREM EditedCassetteIsWhole == SpecMigration => []EditedIsWhole
<1>1. ASSUME WholeInv, Undisturbed, ~Legacy
      PROVE  /\ MissingBlobs(manifest, request, response) = {}
             /\ NoOthersIn(manifest)
             /\ \A i \in DOMAIN manifest : KeyIs(manifest[i].hash, request[manifest[i].id])
  <2>1. ~cut /\ ~raced /\ \A q \in Procs : proc[q] = Idle
    BY <1>1 DEF Undisturbed, AtRest
  <2>2. NoOthersIn(manifest) /\ CompleteIn(manifest)
    BY <1>1, <2>1, WholeAtRest
  <2> QED
    BY <2>2 DEF CompleteIn, Complete, MissingBlobs
<1>2. WholeInv => EditedIsWhole
  BY <1>1 DEF EditedIsWhole, NoOthersIn
<1> QED
  BY <1>2, WholeAlways, PTL

\* fork_cassette: a finished fork has the files of all it lists, under their
\* keys, whatever is done to the source afterwards, if no edit overlapped or
\* was cut off.
THEOREM FinishedForkIsWhole == SpecMigration => []ForkIsWhole
<1>1. WholeInv => ForkIsWhole
  BY DEF WholeInv, ForkIsWhole
<1> QED
  BY <1>1, WholeAlways, PTL

=============================================================================
