------------------------ MODULE CassetteStore_proof -------------------------
(***************************************************************************)
(* Proofs about CassetteStore, for any sets of writers, readers,           *)
(* transactions and headers and any number of calls cut off.               *)
(***************************************************************************)
EXTENDS CassetteStore, TLAPS

USE DEF Fresh, LockFree, Unlocked, FirstStep, Stored, WithBackup, OnDisk

LEMMA EmptyManifestType == EmptyManifest \in Manifest
  BY DEF EmptyManifest, Manifest

LEMMA TxType == \A c \in Calls : Tx(c) \subseteq TxIds
  BY DEF Calls, AppendCalls, StackCalls, HookCalls, Tx

LEMMA EmptyManifestIds == Ids(EmptyManifest) = {}
  BY DEF EmptyManifest, Ids

LEMMA IdsType == \A m \in Manifest : Ids(m) \subseteq TxIds
  BY DEF Manifest, Ids

LEMMA EditedType ==
  ASSUME NEW m \in Manifest, NEW c \in Calls
  PROVE  Edited(m, c) \in Manifest
<1>1. CASE c \in AppendCalls
  <2>1. Append(m.txs, c.tx) \in Seq(TxIds)
    BY <1>1 DEF AppendCalls, Manifest
  <2> QED BY <1>1, <2>1 DEF AppendCalls, Manifest, Edited
<1>2. CASE c \in StackCalls
  BY <1>2 DEF StackCalls, Manifest, Edited
<1>3. CASE c \in HookCalls
  <2>1. PICK S \in SUBSET Hooks : c.digests \in [S -> Digests]
    BY <1>3 DEF HookCalls
  <2>2. [h \in Hooks |-> IF h \in DOMAIN c.digests THEN c.digests[h] ELSE m.hooks[h]]
            \in [Hooks -> Digests \cup {NoDigest}]
    BY <2>1 DEF Manifest
  <2>3. Edited(m, c) = [m EXCEPT !.hooks =
           [h \in Hooks |-> IF h \in DOMAIN c.digests THEN c.digests[h] ELSE m.hooks[h]]]
    BY <1>3 DEF HookCalls, Edited
  <2> QED BY <2>2, <2>3 DEF Manifest
<1> QED BY <1>1, <1>2, <1>3 DEF Calls

LEMMA EditedIds ==
  ASSUME NEW m \in Manifest, NEW c \in Calls
  PROVE  Ids(Edited(m, c)) = Ids(m) \cup Tx(c)
<1>1. CASE c \in AppendCalls
  <2>1. Edited(m, c).txs = Append(m.txs, c.tx) /\ Tx(c) = {c.tx}
    BY <1>1 DEF AppendCalls, Manifest, Edited, Tx
  <2>2. m.txs \in Seq(TxIds) /\ c.tx \in TxIds
    BY <1>1 DEF AppendCalls, Manifest
  <2>3. DOMAIN m.txs = 1 .. Len(m.txs) /\ Len(m.txs) \in Nat
    BY <2>2
  <2>4. /\ DOMAIN Append(m.txs, c.tx) = 1 .. Len(m.txs) + 1
        /\ \A i \in 1 .. Len(m.txs) : Append(m.txs, c.tx)[i] = m.txs[i]
        /\ Append(m.txs, c.tx)[Len(m.txs) + 1] = c.tx
    BY <2>2
  <2> QED BY <2>1, <2>3, <2>4 DEF Ids
<1>2. CASE c \in StackCalls \cup HookCalls
  <2>1. Edited(m, c).txs = m.txs /\ Tx(c) = {}
    BY <1>2 DEF StackCalls, HookCalls, Manifest, Edited, Tx
  <2> QED BY <2>1 DEF Ids
<1> QED BY <1>1, <1>2 DEF Calls

-----------------------------------------------------------------------------
(* Types *)

LEMMA TypeInit == Init => TypeOK /\ CallInv
<1> SUFFICES ASSUME Init PROVE TypeOK /\ CallInv
  OBVIOUS
<1>1. loaded \in [Procs -> Manifest]
  BY EmptyManifestType DEF Init
<1>2. aborts \in 0 .. MaxAborts
  BY StoreAssumption DEF Init
<1>3. TypeOK
  BY <1>1, <1>2 DEF Init, TypeOK, Critical, Blobs
<1>4. CallInv
  BY StoreAssumption DEF Init, CallInv, Critical
<1> QED BY <1>3, <1>4

LEMMA TypeStep == TypeOK /\ CallInv /\ [Next]_vars => TypeOK' /\ CallInv'
<1> SUFFICES ASSUME TypeOK, CallInv, [Next]_vars
             PROVE  TypeOK' /\ CallInv'
  OBVIOUS
<1> USE DEF Critical
<1>1. ASSUME NEW p \in Procs, NEW c \in Calls, Begin(p, c)
      PROVE  TypeOK' /\ CallInv'
  <2>1. Tx(c) \subseteq TxIds
    BY TxType
  <2>2. TypeOK'
    BY <1>1, <2>1 DEF TypeOK, Begin, files
  <2>3. CallInv'
    BY <1>1 DEF TypeOK, CallInv, Begin
  <2> QED BY <2>2, <2>3
<1>2. ASSUME NEW p \in Procs, Acquire(p)
      PROVE  TypeOK' /\ CallInv'
  BY <1>2 DEF TypeOK, CallInv, Acquire, files, history
<1>3. ASSUME NEW p \in Procs, WriteRequest(p)
      PROVE  TypeOK' /\ CallInv'
  BY <1>3 DEF TypeOK, CallInv, WriteRequest, history, Blobs
<1>4. ASSUME NEW p \in Procs, WriteResponse(p)
      PROVE  TypeOK' /\ CallInv'
  BY <1>4 DEF TypeOK, CallInv, WriteResponse, history, Blobs
<1>5. ASSUME NEW p \in Procs, LoadLocked(p)
      PROVE  TypeOK' /\ CallInv'
  BY <1>5, EmptyManifestType DEF TypeOK, CallInv, LoadLocked, files, history
<1>6. ASSUME NEW p \in Procs, Retire(p)
      PROVE  TypeOK' /\ CallInv'
  BY <1>6 DEF TypeOK, CallInv, Retire, history
<1>7. ASSUME NEW p \in Procs, Install(p)
      PROVE  TypeOK' /\ CallInv'
  <2>1. Edited(loaded[p], call[p]) \in Manifest
    BY <1>7, EditedType DEF TypeOK, CallInv, Install
  <2> QED BY <1>7, <2>1 DEF TypeOK, CallInv, Install, history
<1>8. ASSUME NEW p \in Procs, Release(p)
      PROVE  TypeOK' /\ CallInv'
  <2>1. Tx(call[p]) \subseteq TxIds
    BY <1>8, TxType DEF CallInv, Release
  <2> QED BY <1>8, <2>1, EmptyManifestType, StoreAssumption
          DEF TypeOK, CallInv, Release, files
<1>9. ASSUME NEW p \in Procs, Abort(p)
      PROVE  TypeOK' /\ CallInv'
  <2>1. requests' \in [TxIds -> Blobs] /\ responses' \in [TxIds -> Blobs]
    BY <1>9 DEF TypeOK, Abort
  <2>2. aborts' \in 0 .. MaxAborts
    BY <1>9, StoreAssumption DEF TypeOK, Abort
  <2>3. severed' \in BOOLEAN
    BY <1>9 DEF TypeOK, Abort
  <2> QED BY <1>9, <2>1, <2>2, <2>3, EmptyManifestType, StoreAssumption
          DEF TypeOK, CallInv, Abort
<1>10. ASSUME NEW p \in Procs, CheckExists(p)
       PROVE  TypeOK' /\ CallInv'
  BY <1>10, EmptyManifestType DEF TypeOK, CallInv, CheckExists, files, history
<1>11. ASSUME NEW p \in Procs, ReadFile(p)
       PROVE  TypeOK' /\ CallInv'
  BY <1>11 DEF TypeOK, CallInv, ReadFile, files, history
<1>12. CASE UNCHANGED vars
  BY <1>12 DEF TypeOK, CallInv, vars
<1> QED
  BY <1>1, <1>2, <1>3, <1>4, <1>5, <1>6, <1>7, <1>8, <1>9, <1>10, <1>11, <1>12
     DEF Next, Advance, Procs

\* Every variable of the store stays in its type, whatever the bounds.
THEOREM TypeCorrect == Spec => []TypeOK
<1>1. TypeOK /\ CallInv => TypeOK
  OBVIOUS
<1> QED BY <1>1, TypeInit, TypeStep, PTL DEF Spec

-----------------------------------------------------------------------------
(* What the steps do to the manifests on disk *)

\* Moving cassette.json to a backup keeps every listed id.
LEMMA RetireArchived ==
  ASSUME NEW p \in Procs, Retire(p), TypeOK
  PROVE  Archived' = Archived
<1>1. CASE manifest = Absent
  BY <1>1 DEF Retire, Archived
<1>2. CASE manifest # Absent
  <2>1. backups' \cup ({manifest'} \ {Absent}) = backups \cup ({manifest} \ {Absent})
    BY <1>2 DEF Retire
  <2> QED BY <2>1 DEF Archived
<1> QED BY <1>1, <1>2

\* Installing a manifest adds the appended id and nothing else.
LEMMA InstallArchived ==
  ASSUME NEW p \in Procs, Install(p), TypeOK, CallInv, LoadedInv
  PROVE  /\ Edited(loaded[p], call[p]) \in Manifest
         /\ Ids(manifest') = Ids(loaded[p]) \cup Tx(call[p])
         /\ Ids(loaded[p]) \subseteq Archived
         /\ Archived' = Archived \cup Tx(call[p])
<1> DEFINE m == Edited(loaded[p], call[p])
<1>1. loaded[p] \in Manifest /\ call[p] \in Calls /\ pc[p] = "install"
  BY DEF TypeOK, CallInv, Install, Critical
<1>2. m \in Manifest /\ Ids(m) = Ids(loaded[p]) \cup Tx(call[p])
  BY <1>1, EditedType, EditedIds
<1>3. manifest = Absent /\ loaded[p] \in backups \cup {EmptyManifest}
  BY <1>1 DEF LoadedInv
<1>4. Ids(loaded[p]) \subseteq Archived
  BY <1>3, EmptyManifestIds DEF Archived
<1>5. m # Absent
  BY <1>2, StoreAssumption
<1>6. backups \cup ({manifest} \ {Absent}) = backups
  BY <1>3
<1>7. backups' \cup ({manifest'} \ {Absent}) = backups \cup {m}
  BY <1>5 DEF Install
<1>8. Archived' = Archived \cup Ids(m)
  BY <1>6, <1>7 DEF Archived
<1>9. manifest' = m
  BY DEF Install
<1> QED BY <1>2, <1>4, <1>8, <1>9

\* Between the renames the manifest the store stands for is the one loaded,
\* and it does not change when cassette.json goes away.
LEMMA RetireCommitted ==
  ASSUME NEW p \in Procs, Retire(p), TypeOK, LockInv, LoadedInv
  PROVE  Committed' = Committed
<1>1. lock = p /\ lock' = p /\ pc'[p] = "install" /\ p # NoProc
  BY StoreAssumption DEF Retire, LockInv, Critical, TypeOK
<1>2. manifest' = Absent /\ loaded' = loaded
  BY DEF Retire
<1>3. loaded[p] = IF manifest = Absent THEN EmptyManifest ELSE manifest
  BY DEF Retire, LoadedInv
<1>4. pc[lock] = "retire"
  BY <1>1 DEF Retire
<1> QED BY <1>1, <1>2, <1>3, <1>4 DEF Committed

\* The other steps leave both as they were; a call cut off between the
\* renames is the exception.
LEMMA OthersCommitted ==
  ASSUME TypeOK, LockInv, CallInv, LoadedInv,
         NEW p \in Procs,
         \/ \E c \in Calls : Begin(p, c)
         \/ Acquire(p) \/ WriteRequest(p) \/ WriteResponse(p) \/ LoadLocked(p)
         \/ Release(p) \/ CheckExists(p) \/ ReadFile(p)
         \/ Abort(p) /\ pc[p] # "install"
  PROVE  /\ manifest' = manifest /\ backups' = backups
         /\ Archived' = Archived
         /\ Committed' = Committed
<1>1. manifest' = manifest /\ backups' = backups
  BY DEF Begin, Acquire, WriteRequest, WriteResponse, LoadLocked, Release,
         CheckExists, ReadFile, Abort, files
<1>2. Archived' = Archived
  BY <1>1 DEF Archived
<1>3. ASSUME manifest # Absent PROVE Committed' = Committed
  BY <1>1, <1>3 DEF Committed
<1>4. ASSUME manifest = Absent PROVE Committed' = Committed
  <2>1. ~Release(p)
    BY <1>4 DEF LoadedInv, Release
  <2>2. pc[p] # "install" /\ pc'[p] # "install"
    BY <2>1 DEF Begin, Acquire, WriteRequest, WriteResponse, LoadLocked,
           CheckExists, ReadFile, Abort, TypeOK
  <2>3. \A q \in Procs \ {p} : pc'[q] = pc[q] /\ loaded'[q] = loaded[q]
    BY <2>1 DEF Begin, Acquire, WriteRequest, WriteResponse, LoadLocked,
           CheckExists, ReadFile, Abort, TypeOK
  <2>4. \/ lock' = lock
        \/ lock = NoProc /\ lock' = p
        \/ lock = p /\ lock' = NoProc
    BY <2>1 DEF Begin, Acquire, WriteRequest, WriteResponse, LoadLocked,
           CheckExists, ReadFile, Abort, TypeOK
  <2>5. lock \in Procs \cup {NoProc} /\ NoProc \notin Procs
    BY StoreAssumption DEF TypeOK
  <2>6. CASE lock = p \/ lock' = p \/ lock = NoProc
    <3>1. Committed = EmptyManifest
      BY <1>4, <2>2, <2>4, <2>5, <2>6 DEF Committed
    <3>2. Committed' = EmptyManifest
      BY <1>1, <1>4, <2>2, <2>4, <2>5, <2>6 DEF Committed
    <3> QED BY <3>1, <3>2
  <2>7. CASE lock \in Procs \ {p} /\ lock' = lock
    BY <1>1, <1>4, <2>3, <2>7 DEF Committed
  <2> QED BY <2>4, <2>5, <2>6, <2>7
<1> QED BY <1>1, <1>2, <1>3, <1>4

-----------------------------------------------------------------------------
(* The conjuncts of the inductive invariant, one lemma each *)

LEMMA LockStep ==
  ASSUME TypeOK, LockInv, [Next]_vars
  PROVE  LockInv'
<1> USE StoreAssumption DEF Critical, TypeOK, LockInv
<1>1. ASSUME NEW p \in Procs, NEW c \in Calls, Begin(p, c) PROVE LockInv'
  BY <1>1 DEF Begin
<1>2. ASSUME NEW p \in Procs, Acquire(p) PROVE LockInv'
  BY <1>2 DEF Acquire
<1>3. ASSUME NEW p \in Procs,
             WriteRequest(p) \/ WriteResponse(p) \/ LoadLocked(p)
      PROVE  LockInv'
  BY <1>3 DEF WriteRequest, WriteResponse, LoadLocked
<1>4. ASSUME NEW p \in Procs, Retire(p) \/ Install(p) PROVE LockInv'
  BY <1>4 DEF Retire, Install
<1>5. ASSUME NEW p \in Procs, Release(p) PROVE LockInv'
  BY <1>5 DEF Release
<1>6. ASSUME NEW p \in Procs, Abort(p) PROVE LockInv'
  BY <1>6 DEF Abort
<1>7. ASSUME NEW p \in Procs, CheckExists(p) \/ ReadFile(p) PROVE LockInv'
  BY <1>7 DEF CheckExists, ReadFile
<1>8. CASE UNCHANGED vars
  BY <1>8 DEF vars
<1> QED
  BY <1>1, <1>2, <1>3, <1>4, <1>5, <1>6, <1>7, <1>8 DEF Next, Advance, Procs

LEMMA LoadedStep ==
  ASSUME TypeOK, LockInv, CallInv, LoadedInv, [Next]_vars
  PROVE  LoadedInv'
<1> USE DEF Critical, TypeOK, LoadedInv
<1>1. ASSUME NEW p \in Procs, NEW c \in Calls, Begin(p, c) PROVE LoadedInv'
  BY <1>1 DEF Begin, files
<1>2. ASSUME NEW p \in Procs, Acquire(p) PROVE LoadedInv'
  BY <1>2 DEF Acquire, files
<1>3. ASSUME NEW p \in Procs, WriteRequest(p) \/ WriteResponse(p)
      PROVE  LoadedInv'
  BY <1>3 DEF WriteRequest, WriteResponse
<1>4. ASSUME NEW p \in Procs, LoadLocked(p) PROVE LoadedInv'
  BY <1>4 DEF LoadLocked, files
<1>5. ASSUME NEW p \in Procs, Retire(p) PROVE LoadedInv'
  <2>1. \A q \in Procs \ {p} : pc[q] \notin Critical
    BY <1>5 DEF LockInv, Retire
  <2>2. loaded[p] \in backups' \cup {EmptyManifest}
    BY <1>5 DEF Retire
  <2> QED BY <1>5, <2>1, <2>2 DEF Retire
<1>6. ASSUME NEW p \in Procs, Install(p) PROVE LoadedInv'
  <2>1. \A q \in Procs \ {p} : pc[q] \notin Critical
    BY <1>6 DEF LockInv, Install
  <2>2. manifest' # Absent /\ Tx(call[p]) \subseteq Ids(manifest')
    BY <1>6, InstallArchived, StoreAssumption DEF Install
  <2> QED BY <1>6, <2>1, <2>2 DEF Install
<1>7. ASSUME NEW p \in Procs, Release(p) \/ Abort(p) PROVE LoadedInv'
  BY <1>7 DEF Release, Abort, files
<1>8. ASSUME NEW p \in Procs, CheckExists(p) \/ ReadFile(p) PROVE LoadedInv'
  BY <1>8 DEF CheckExists, ReadFile, files
<1>9. CASE UNCHANGED vars
  BY <1>9 DEF vars
<1> QED
  BY <1>1, <1>2, <1>3, <1>4, <1>5, <1>6, <1>7, <1>8, <1>9
     DEF Next, Advance, Procs

LEMMA FreshStep ==
  ASSUME TypeOK, LockInv, CallInv, LoadedInv, FreshInv, [Next]_vars
  PROVE  FreshInv'
<1> USE DEF Critical, TypeOK, CallInv, FreshInv, Unlisted
<1>1. ASSUME NEW p \in Procs, NEW c \in Calls, Begin(p, c) PROVE FreshInv'
  <2>1. Archived' = Archived
    BY <1>1, OthersCommitted
  <2> QED BY <1>1, <2>1 DEF Begin
<1>2. ASSUME NEW p \in Procs,
             \/ Acquire(p) \/ WriteRequest(p) \/ WriteResponse(p) \/ LoadLocked(p)
             \/ CheckExists(p) \/ ReadFile(p)
      PROVE  FreshInv'
  <2>1. Archived' = Archived
    BY <1>2, OthersCommitted
  <2>2. issued' = issued /\ call' = call
    BY <1>2 DEF Acquire, WriteRequest, WriteResponse, LoadLocked,
                CheckExists, ReadFile, history
  <2>3. \A q \in Procs : Unlisted(q)' => Unlisted(q)
    BY <1>2 DEF Acquire, WriteRequest, WriteResponse, LoadLocked,
                CheckExists, ReadFile
  <2> QED BY <2>1, <2>2, <2>3
<1>3. ASSUME NEW p \in Procs, Retire(p) PROVE FreshInv'
  <2>1. Archived' = Archived
    BY <1>3, RetireArchived
  <2> QED BY <1>3, <2>1 DEF Retire, history
<1>4. ASSUME NEW p \in Procs, Install(p) PROVE FreshInv'
  <2>1. Archived' = Archived \cup Tx(call[p])
    BY <1>4, InstallArchived
  <2>2. issued' = issued /\ call' = call
    BY <1>4 DEF Install, history
  <2>3. \A q \in Procs : Unlisted(q)' => Unlisted(q) /\ q # p
    BY <1>4 DEF Install
  <2>4. call[p] \in Calls
    BY <1>4 DEF Install
  <2> QED BY <2>1, <2>2, <2>3, <2>4
<1>5. ASSUME NEW p \in Procs, Release(p) \/ Abort(p) PROVE FreshInv'
  <2>1. manifest' = manifest /\ backups' = backups
    BY <1>5 DEF Release, Abort, files
  <2>2. Archived' = Archived
    BY <2>1 DEF Archived
  <2> QED BY <1>5, <2>2, StoreAssumption DEF Release, Abort
<1>6. CASE UNCHANGED vars
  <2>1. Archived' = Archived
    BY <1>6 DEF vars, Archived
  <2> QED BY <1>6, <2>1 DEF vars
<1> QED
  BY <1>1, <1>2, <1>3, <1>4, <1>5, <1>6 DEF Next, Advance, Procs

LEMMA BlobStep ==
  ASSUME TypeOK, LockInv, CallInv, FreshInv, BlobInv, [Next]_vars
  PROVE  BlobInv'
<1> USE DEF Critical, TypeOK, CallInv, BlobInv
<1>1. ASSUME NEW p \in Procs, NEW c \in Calls, Begin(p, c) PROVE BlobInv'
  BY <1>1 DEF Begin, files
<1>2. ASSUME NEW p \in Procs, Acquire(p) PROVE BlobInv'
  <2>1. call[p] \in AppendCalls => pc'[p] = "request"
    BY <1>2 DEF Acquire, AppendCalls
  <2> QED BY <1>2, <2>1 DEF Acquire, files
<1>3. ASSUME NEW p \in Procs, WriteRequest(p) PROVE BlobInv'
  <2>1. call[p] \in Calls
    BY <1>3 DEF WriteRequest
  <2>2. Tx(call[p]) \subseteq TxIds /\ Tx(call[p]) = {call[p].tx}
    BY <1>3, <2>1, TxType DEF WriteRequest, Tx
  <2> QED BY <1>3, <2>2 DEF WriteRequest, Blobs
<1>4. ASSUME NEW p \in Procs, WriteResponse(p) PROVE BlobInv'
  <2>1. call[p] \in Calls
    BY <1>4 DEF WriteResponse
  <2>2. Tx(call[p]) \subseteq TxIds /\ Tx(call[p]) = {call[p].tx}
    BY <1>4, <2>1, TxType DEF WriteResponse, Tx
  <2> QED BY <1>4, <2>2 DEF WriteResponse, Blobs
<1>5. ASSUME NEW p \in Procs, LoadLocked(p) \/ Retire(p) \/ Install(p)
      PROVE  BlobInv'
  BY <1>5 DEF LoadLocked, Retire, Install, files
<1>6. ASSUME NEW p \in Procs, Release(p) PROVE BlobInv'
  BY <1>6, StoreAssumption DEF Release, files, Calls
<1>7. ASSUME NEW p \in Procs, Abort(p) PROVE BlobInv'
  <2>1. SUFFICES ASSUME NEW q \in Procs, (call[q] \in AppendCalls)'
                 PROVE  /\ (pc[q] \in Critical \ {"request"}
                              => requests[call[q].tx] = "whole")'
                        /\ (pc[q] \in Critical \ {"request", "response"}
                              => responses[call[q].tx] = "whole")'
    OBVIOUS
  <2>2. q # p /\ call'[q] = call[q] /\ pc'[q] = pc[q]
    BY <1>7, <2>1, StoreAssumption DEF Abort, Calls
  <2>3. /\ call[q] \in AppendCalls /\ Tx(call[q]) = {call[q].tx}
        /\ call[q].tx \in TxIds
    BY <2>1, <2>2 DEF AppendCalls, Tx
  <2>4. pc[p] \in {"request", "response"} =>
           call[p] \in Calls /\ Tx(call[p]) = {call[p].tx}
    BY <1>7 DEF Abort, Tx
  <2>5. pc[p] \in {"request", "response"} => call[p].tx # call[q].tx
    BY <2>2, <2>3, <2>4 DEF FreshInv, Calls
  <2>6. requests'[call[q].tx] = requests[call[q].tx]
    BY <1>7, <2>3, <2>5 DEF Abort
  <2>7. responses'[call[q].tx] = responses[call[q].tx]
    BY <1>7, <2>3, <2>5 DEF Abort
  <2> QED BY <2>2, <2>3, <2>6, <2>7
<1>8. ASSUME NEW p \in Procs, CheckExists(p) \/ ReadFile(p) PROVE BlobInv'
  BY <1>8 DEF CheckExists, ReadFile, files
<1>9. CASE UNCHANGED vars
  BY <1>9 DEF vars
<1> QED
  BY <1>1, <1>2, <1>3, <1>4, <1>5, <1>6, <1>7, <1>8, <1>9
     DEF Next, Advance, Procs

\* The edit of a call lists no id twice when the id it adds is new.
LEMMA EditedNoDuplicates ==
  ASSUME NEW m \in Manifest, NEW c \in Calls,
         \A i, j \in DOMAIN m.txs : m.txs[i] = m.txs[j] => i = j,
         Tx(c) \cap Ids(m) = {}
  PROVE  LET e == Edited(m, c)
         IN  \A i, j \in DOMAIN e.txs : e.txs[i] = e.txs[j] => i = j
<1>1. CASE c \in AppendCalls
  <2>1. Edited(m, c).txs = Append(m.txs, c.tx) /\ Tx(c) = {c.tx}
    BY <1>1 DEF AppendCalls, Manifest, Edited, Tx
  <2>2. m.txs \in Seq(TxIds) /\ c.tx \in TxIds
    BY <1>1 DEF AppendCalls, Manifest
  <2>3. DOMAIN m.txs = 1 .. Len(m.txs) /\ Len(m.txs) \in Nat
    BY <2>2
  <2>4. /\ DOMAIN Append(m.txs, c.tx) = 1 .. Len(m.txs) + 1
        /\ \A i \in 1 .. Len(m.txs) : Append(m.txs, c.tx)[i] = m.txs[i]
        /\ Append(m.txs, c.tx)[Len(m.txs) + 1] = c.tx
    BY <2>2
  <2>5. \A i \in 1 .. Len(m.txs) : m.txs[i] # c.tx
    BY <2>1, <2>3 DEF Ids
  <2> QED BY <2>1, <2>3, <2>4, <2>5
<1>2. CASE c \in StackCalls \cup HookCalls
  <2>1. Edited(m, c).txs = m.txs
    BY <1>2 DEF StackCalls, HookCalls, Manifest, Edited
  <2> QED BY <2>1
<1> QED BY <1>1, <1>2 DEF Calls

LEMMA NoDuplicatesStep ==
  ASSUME TypeOK, LockInv, CallInv, LoadedInv, FreshInv, NoDuplicates, [Next]_vars
  PROVE  NoDuplicates'
<1>1. ASSUME NEW p \in Procs, Install(p) PROVE NoDuplicates'
  <2>1. /\ loaded[p] \in Manifest
        /\ call[p] \in Calls
        /\ manifest = Absent
        /\ loaded[p] \in backups \cup {EmptyManifest}
        /\ Unlisted(p)
    BY <1>1 DEF Install, TypeOK, CallInv, LoadedInv, Critical, Unlisted
  <2>2. Tx(call[p]) \cap Ids(loaded[p]) = {}
    BY <1>1, <2>1, InstallArchived DEF FreshInv
  <2>3. \A i, j \in DOMAIN loaded[p].txs :
           loaded[p].txs[i] = loaded[p].txs[j] => i = j
    BY <2>1 DEF NoDuplicates, EmptyManifest
  <2>4. \A i, j \in DOMAIN manifest'.txs :
           manifest'.txs[i] = manifest'.txs[j] => i = j
    BY <1>1, <2>1, <2>2, <2>3, EditedNoDuplicates DEF Install
  <2> QED BY <1>1, <2>4 DEF Install, NoDuplicates
<1>2. ASSUME NEW p \in Procs, Retire(p) PROVE NoDuplicates'
  BY <1>2 DEF Retire, NoDuplicates
<1>3. CASE UNCHANGED <<manifest, backups>>
  BY <1>3 DEF NoDuplicates
<1> QED
  BY <1>1, <1>2, <1>3
     DEF Next, Advance, Procs, Begin, Acquire, WriteRequest, WriteResponse,
         LoadLocked, Release, Abort, CheckExists, ReadFile, files, vars

LEMMA ListedBlobsStep ==
  ASSUME TypeOK, LockInv, CallInv, LoadedInv, FreshInv, BlobInv,
         ListedBlobsWhole, [Next]_vars
  PROVE  ListedBlobsWhole'
<1> USE DEF Critical, TypeOK, ListedBlobsWhole
<1>1. ASSUME NEW p \in Procs, Install(p) PROVE ListedBlobsWhole'
  <2>1. Archived' = Archived \cup Tx(call[p])
    BY <1>1, InstallArchived
  <2>2. call[p] \in Calls /\ pc[p] = "install"
    BY <1>1 DEF Install, CallInv
  <2>3. \A t \in Tx(call[p]) : call[p] \in AppendCalls /\ t = call[p].tx
    BY <2>2 DEF Tx, Calls, AppendCalls, StackCalls, HookCalls
  <2>4. \A t \in Tx(call[p]) : requests[t] = "whole" /\ responses[t] = "whole"
    BY <2>2, <2>3 DEF BlobInv
  <2> QED BY <1>1, <2>1, <2>4 DEF Install
<1>2. ASSUME NEW p \in Procs, Retire(p) PROVE ListedBlobsWhole'
  BY <1>2, RetireArchived DEF Retire
<1>3. ASSUME NEW p \in Procs, WriteRequest(p) \/ WriteResponse(p)
      PROVE  ListedBlobsWhole'
  <2>1. Archived' = Archived
    BY <1>3, OthersCommitted
  <2>2. Archived \subseteq TxIds
    BY DEF FreshInv
  <2> QED BY <1>3, <2>1, <2>2 DEF WriteRequest, WriteResponse
<1>4. ASSUME NEW p \in Procs, Abort(p) PROVE ListedBlobsWhole'
  <2>1. Archived' = Archived
    BY <1>4 DEF Abort, Archived
  <2>2. Archived \subseteq TxIds
    BY DEF FreshInv
  <2>3. pc[p] \in {"request", "response"} => call[p].tx \notin Archived
    BY <1>4 DEF FreshInv, Unlisted, CallInv, Tx
  <2> QED BY <1>4, <2>1, <2>2, <2>3 DEF Abort
<1>5. ASSUME UNCHANGED files PROVE ListedBlobsWhole'
  <2>1. Archived' = Archived
    BY <1>5 DEF files, Archived
  <2> QED BY <1>5, <2>1 DEF files
<1> QED
  BY <1>1, <1>2, <1>3, <1>4, <1>5
     DEF Next, Advance, Procs, Begin, Acquire, LoadLocked, Release,
         CheckExists, ReadFile, files, vars

\* Nothing returned is lost from the manifest before a call is cut off between
\* the renames, nor ever from the disk.
LEMMA HistoryStep ==
  ASSUME TypeOK, LockInv, CallInv, LoadedInv,
         NoLostTransaction, NothingVanishes, [Next]_vars
  PROVE  NoLostTransaction' /\ NothingVanishes'
<1> USE DEF NoLostTransaction, NothingVanishes
<1>1. ASSUME NEW p \in Procs,
             \/ \E c \in Calls : Begin(p, c)
             \/ Acquire(p) \/ WriteRequest(p) \/ WriteResponse(p) \/ LoadLocked(p)
             \/ CheckExists(p) \/ ReadFile(p)
      PROVE  NoLostTransaction' /\ NothingVanishes'
  <2>1. Archived' = Archived /\ Committed' = Committed
    BY <1>1, OthersCommitted
  <2>2. returned' = returned /\ severed' = severed
    BY <1>1 DEF Begin, Acquire, WriteRequest, WriteResponse, LoadLocked,
                CheckExists, ReadFile, history
  <2> QED BY <2>1, <2>2 DEF Ids
<1>2. ASSUME NEW p \in Procs, Retire(p)
      PROVE  NoLostTransaction' /\ NothingVanishes'
  <2>1. Archived' = Archived /\ Committed' = Committed
    BY <1>2, RetireArchived, RetireCommitted
  <2> QED BY <1>2, <2>1 DEF Retire, history, Ids
<1>3. ASSUME NEW p \in Procs, Install(p)
      PROVE  NoLostTransaction' /\ NothingVanishes'
  <2>1. /\ manifest' \in Manifest
        /\ Ids(manifest') = Ids(loaded[p]) \cup Tx(call[p])
        /\ Archived' = Archived \cup Tx(call[p])
    BY <1>3, InstallArchived DEF Install
  <2>2. Committed = loaded[p]
    BY <1>3, StoreAssumption
       DEF Install, Committed, LockInv, LoadedInv, Critical
  <2>3. Committed' = manifest'
    BY <2>1, StoreAssumption DEF Committed
  <2>4. Ids(Committed)' = Ids(manifest')
    BY <2>3 DEF Ids
  <2> QED BY <1>3, <2>1, <2>2, <2>4 DEF Install, history
<1>4. ASSUME NEW p \in Procs, Release(p)
      PROVE  NoLostTransaction' /\ NothingVanishes'
  <2>1. Archived' = Archived /\ Committed' = Committed
    BY <1>4, OthersCommitted
  <2>2. manifest # Absent /\ Tx(call[p]) \subseteq Ids(manifest)
    BY <1>4 DEF Release, LoadedInv
  <2>3. Committed = manifest /\ Ids(manifest) \subseteq Archived
    BY <2>2 DEF Committed, Archived
  <2> QED BY <1>4, <2>1, <2>2, <2>3 DEF Release, Ids
<1>5. ASSUME NEW p \in Procs, Abort(p)
      PROVE  NoLostTransaction' /\ NothingVanishes'
  <2>1. Archived' = Archived
    BY <1>5 DEF Abort, Archived
  <2>2. CASE pc[p] # "install"
    <3>1. Committed' = Committed
      BY <1>5, <2>2, OthersCommitted
    <3> QED BY <1>5, <2>1, <2>2, <3>1 DEF Abort, Ids
  <2>3. CASE pc[p] = "install" /\ loaded[p] # EmptyManifest
    BY <1>5, <2>1, <2>3 DEF Abort
  <2>4. CASE pc[p] = "install" /\ loaded[p] = EmptyManifest
    <3>1. Committed = EmptyManifest
      BY <2>4, StoreAssumption DEF Committed, LockInv, LoadedInv, Critical
    <3>2. ~severed' => returned' = {}
      BY <1>5, <3>1, EmptyManifestIds DEF Abort
    <3> QED BY <1>5, <2>1, <3>2 DEF Abort
  <2> QED BY <2>2, <2>3, <2>4
<1>6. CASE UNCHANGED vars
  <2>1. Archived' = Archived /\ Committed' = Committed
    BY <1>6 DEF vars, Archived, Committed
  <2> QED BY <1>6, <2>1 DEF vars, Ids
<1> QED
  BY <1>1, <1>2, <1>3, <1>4, <1>5, <1>6 DEF Next, Advance, Procs

-----------------------------------------------------------------------------
(* The theorems *)

LEMMA InitInv == Init => IInv
<1> SUFFICES ASSUME Init PROVE IInv
  OBVIOUS
<1>1. TypeOK /\ CallInv
  BY TypeInit
<1>2. backups \cup ({manifest} \ {Absent}) = {}
  BY DEF Init
<1>3. Archived = {}
  BY <1>2 DEF Archived
<1>4. LockInv
  BY StoreAssumption DEF Init, LockInv, Critical
<1>5. LoadedInv
  BY DEF Init, LoadedInv
<1>6. FreshInv
  BY <1>3, StoreAssumption DEF Init, FreshInv, Unlisted, Critical
<1>7. BlobInv
  BY StoreAssumption DEF Init, BlobInv, Critical
<1>8. NoDuplicates /\ ListedBlobsWhole
  BY <1>2, <1>3 DEF NoDuplicates, ListedBlobsWhole
<1>9. NoLostTransaction /\ NothingVanishes
  BY DEF Init, NoLostTransaction, NothingVanishes
<1> QED BY <1>1, <1>4, <1>5, <1>6, <1>7, <1>8, <1>9 DEF IInv

\* The inductive invariant holds in every reachable state.
THEOREM StoreInvariant == Spec => []IInv
<1>1. IInv /\ [Next]_vars => IInv'
  BY TypeStep, LockStep, LoadedStep, FreshStep, BlobStep, NoDuplicatesStep,
     ListedBlobsStep, HistoryStep DEF IInv
<1> QED BY <1>1, InitInv, PTL DEF Spec

\* A writer between its load and its second rename replaces exactly what it
\* loaded, for any number of writers: the lock covers the whole
\* read-modify-write of append_transaction and of the header calls.
THEOREM WritesAreNeverStale == Spec => []NoStaleWrite
<1>1. IInv => NoStaleWrite
  BY StoreAssumption
     DEF IInv, NoStaleWrite, LockInv, LoadedInv, Committed, Critical, TypeOK
<1> QED BY <1>1, StoreInvariant, PTL

\* Every transaction whose append returned is in the manifest until a call is
\* cut off between the two renames.
THEOREM TransactionsAreKept == Spec => []NoLostTransaction
<1>1. IInv => NoLostTransaction
  BY DEF IInv
<1> QED BY <1>1, StoreInvariant, PTL

\* However many calls are cut off and wherever, a returned transaction is
\* still listed in cassette.json or in a backup.
THEOREM TransactionsStayOnDisk == Spec => []NothingVanishes
<1>1. IInv => NothingVanishes
  BY DEF IInv
<1> QED BY <1>1, StoreInvariant, PTL

\* No manifest on disk ever lists a transaction whose request or response
\* file is missing or torn.
THEOREM BlobsComeFirst == Spec => []ListedBlobsWhole
<1>1. IInv => ListedBlobsWhole
  BY DEF IInv
<1> QED BY <1>1, StoreInvariant, PTL

\* A read without the lock that finds a manifest finds every transaction
\* returned before it.
THEOREM ReadsSeeReturned == Spec => ReadsAreCurrent
<1> DEFINE Current(p) == /\ view'[p] # view[p]
                         /\ view'[p] \notin {EmptyManifest, Unreadable}
                         /\ ~severed
                         => returned \subseteq Ids(view'[p])
<1>1. ASSUME IInv, [Next]_vars, NEW p \in Procs PROVE Current(p)
  <2> SUFFICES ASSUME view'[p] # view[p],
                      view'[p] \notin {EmptyManifest, Unreadable},
                      ~severed
               PROVE  returned \subseteq Ids(view'[p])
    OBVIOUS
  <2>0. view \in [Procs -> Manifest \cup {NoView, Unreadable}]
    BY <1>1 DEF IInv, TypeOK
  <2>1. CASE ReadFile(p)
    <3>1. manifest # Absent /\ view'[p] = manifest
      BY <2>0, <2>1 DEF ReadFile
    <3>2. Committed = manifest
      BY <3>1 DEF Committed
    <3>3. returned \subseteq Ids(Committed)
      BY <1>1 DEF IInv, NoLostTransaction
    <3> QED BY <3>1, <3>2, <3>3
  <2>2. CASE CheckExists(p)
    BY <2>0, <2>2 DEF CheckExists
  <2>3. CASE ~ReadFile(p) /\ ~CheckExists(p)
    <3>1. view'[p] = view[p]
      BY <1>1, <2>3
         DEF Next, Advance, Begin, Acquire, WriteRequest, WriteResponse,
             LoadLocked, Retire, Install, Release, Abort, CheckExists, ReadFile,
             vars, IInv, TypeOK
    <3> QED BY <3>1
  <2> QED BY <2>1, <2>2, <2>3
<1>2. IInv /\ [Next]_vars => [\A p \in Procs : Current(p)]_vars
  BY <1>1
<1> QED BY <1>2, StoreInvariant, PTL DEF Spec, ReadsAreCurrent

-----------------------------------------------------------------------------
(* The store implements the abstract log *)

\* The data of the log is the data of the store.
LEMMA SameData ==
  /\ Log!EmptyManifest = EmptyManifest
  /\ Log!Calls = Calls
  /\ \A c : Log!Tx(c) = Tx(c)
  /\ \A m, c : Log!Edited(m, c) = Edited(m, c)
  BY DEF EmptyManifest, Log!EmptyManifest, Tx, Log!Tx, Edited, Log!Edited,
         Calls, AppendCalls, StackCalls, HookCalls,
         Log!Calls, Log!AppendCalls, Log!StackCalls, Log!HookCalls

LEMMA RefinesInit == Init => Log!LogInit
<1> SUFFICES ASSUME Init PROVE Log!LogInit
  OBVIOUS
<1>1. Committed = EmptyManifest
  BY DEF Init, Committed
<1>2. Phase = [p \in Procs |-> "idle"]
  BY DEF Init, Phase, PhaseOf
<1> QED BY <1>1, <1>2, SameData DEF Init, Log!LogInit

\* When no cassette.json is there to be read, a call is between its renames
\* or the abstract manifest is empty.
LEMMA AbsentMeans ==
  ASSUME TypeOK, manifest = Absent
  PROVE  (\E q \in Procs : Phase[q] = "called") \/ Committed = EmptyManifest
<1>1. CASE lock # NoProc /\ pc[lock] = "install"
  <2>1. lock \in Procs /\ PhaseOf(lock) = "called"
    BY <1>1 DEF TypeOK, PhaseOf
  <2> QED BY <2>1 DEF Phase
<1>2. CASE ~(lock # NoProc /\ pc[lock] = "install")
  BY <1>2 DEF Committed
<1> QED BY <1>1, <1>2

\* Every step of the store is a step of the log or leaves the log as it is.
LEMMA RefinesStep ==
  ASSUME TypeOK, LockInv, CallInv, LoadedInv, NoStaleWrite, [Next]_vars
  PROVE  [Log!LogNext]_(Log!logVars)
<1> USE DEF TypeOK
<1>1. ASSUME NEW p \in Procs, NEW c \in Calls, Begin(p, c)
      PROVE  Log!Invoke(p, c)
  <2>1. Committed' = Committed
    BY <1>1, OthersCommitted
  <2>2. Phase[p] = "idle" /\ Phase' = [Phase EXCEPT ![p] = "called"]
    BY <1>1 DEF Begin, Phase, PhaseOf
  <2> QED BY <1>1, <2>1, <2>2, SameData DEF Begin, Log!Invoke
<1>2. ASSUME NEW p \in Procs,
             \/ Acquire(p) \/ WriteRequest(p) \/ WriteResponse(p)
             \/ LoadLocked(p)
      PROVE  UNCHANGED Log!logVars
  <2>1. Committed' = Committed
    BY <1>2, OthersCommitted
  <2>2. Phase' = Phase
    BY <1>2 DEF Acquire, WriteRequest, WriteResponse, LoadLocked, Phase, PhaseOf
  <2> QED BY <1>2, <2>1, <2>2
          DEF Acquire, WriteRequest, WriteResponse, LoadLocked, history, Log!logVars
<1>3. ASSUME NEW p \in Procs, Retire(p)
      PROVE  UNCHANGED Log!logVars
  <2>1. Committed' = Committed
    BY <1>3, RetireCommitted
  <2>2. Phase' = Phase
    BY <1>3 DEF Retire, Phase, PhaseOf
  <2> QED BY <1>3, <2>1, <2>2 DEF Retire, history, Log!logVars
<1>4. ASSUME NEW p \in Procs, Install(p)
      PROVE  Log!Apply(p)
  <2>1. Edited(loaded[p], call[p]) \in Manifest
    BY <1>4, InstallArchived
  <2>2. loaded[p] = Committed
    BY <1>4 DEF Install, NoStaleWrite
  <2>3. Committed' = Edited(Committed, call[p])
    BY <1>4, <2>1, <2>2, StoreAssumption DEF Install, Committed
  <2>4. Phase[p] = "called" /\ Phase' = [Phase EXCEPT ![p] = "applied"]
    BY <1>4 DEF Install, Phase, PhaseOf
  <2> QED BY <1>4, <2>3, <2>4, SameData DEF Install, history, Log!Apply
<1>5. ASSUME NEW p \in Procs, Release(p)
      PROVE  Log!Return(p)
  <2>1. Committed' = Committed
    BY <1>5, OthersCommitted
  <2>2. Phase[p] = "applied" /\ Phase' = [Phase EXCEPT ![p] = "idle"]
    BY <1>5 DEF Release, Phase, PhaseOf
  <2> QED BY <1>5, <2>1, <2>2 DEF Release, Log!Return
<1>6. ASSUME NEW p \in Procs, Abort(p)
      PROVE  Log!CutOff(p)
  <2>1. Phase[p] # "idle" /\ Phase' = [Phase EXCEPT ![p] = "idle"]
    BY <1>6 DEF Abort, Phase, PhaseOf, Critical
  <2>2. Committed' = Committed \/ (Phase[p] = "called" /\ Committed' = EmptyManifest)
    <3>1. CASE pc[p] # "install"
      BY <1>6, <3>1, OthersCommitted
    <3>2. CASE pc[p] = "install"
      <4>1. lock = p /\ lock' = NoProc /\ manifest' = Absent
        BY <1>6, <3>2 DEF Abort, LockInv, LoadedInv, Critical
      <4>2. Committed' = EmptyManifest
        BY <4>1 DEF Committed
      <4> QED BY <3>2, <4>2 DEF Phase, PhaseOf
    <3> QED BY <3>1, <3>2
  <2> QED BY <1>6, <2>1, <2>2, SameData DEF Abort, Log!CutOff
<1>7. ASSUME NEW p \in Procs, CheckExists(p) \/ ReadFile(p)
      PROVE  Log!Read(p) \/ UNCHANGED Log!logVars
  <2>1. Committed' = Committed
    BY <1>7, OthersCommitted
  <2>2. Phase[p] = "idle" /\ Phase' = Phase
    BY <1>7 DEF CheckExists, ReadFile, Phase, PhaseOf
  <2>3. call' = call /\ issued' = issued
    BY <1>7 DEF CheckExists, ReadFile, history
  <2>4. CASE view' = view
    BY <2>1, <2>2, <2>3, <2>4 DEF Log!logVars
  <2>5. CASE manifest # Absent /\ view' = [view EXCEPT ![p] = Committed]
    BY <2>1, <2>2, <2>3, <2>5 DEF Log!Read
  <2>6. CASE manifest = Absent /\ \E v \in {EmptyManifest, Unreadable} :
                                     view' = [view EXCEPT ![p] = v]
    BY <2>1, <2>2, <2>3, <2>6, AbsentMeans, SameData DEF Log!Read
  <2> QED BY <1>7, <2>4, <2>5, <2>6 DEF CheckExists, ReadFile, Committed
<1>8. CASE UNCHANGED vars
  <2>1. Committed' = Committed /\ Phase' = Phase
    BY <1>8 DEF vars, Committed, Phase, PhaseOf
  <2> QED BY <1>8, <2>1 DEF vars, Log!logVars
<1> QED
  BY <1>1, <1>2, <1>3, <1>4, <1>5, <1>6, <1>7, <1>8, SameData
     DEF Next, Advance, Procs, Log!LogNext

\* The store, with its renames, torn files and lock, implements the log of
\* CassetteLog for every number of processes and of calls cut off.
THEOREM StoreImplementsLog == Spec => ImplementsLog
<1>1. IInv /\ [Next]_vars => [Log!LogNext]_(Log!logVars)
  <2>1. IInv => NoStaleWrite
    BY StoreAssumption
       DEF IInv, NoStaleWrite, LockInv, LoadedInv, Committed, Critical, TypeOK
  <2> QED BY <2>1, RefinesStep DEF IInv
<1> QED
  BY <1>1, RefinesInit, StoreInvariant, PTL DEF Spec, ImplementsLog, Log!LogSpec

=============================================================================
