--------------------------- MODULE CassetteStore ----------------------------
(***************************************************************************)
(* The on-disk cassette of store/cassette.py, at the grain of its file     *)
(* operations.  Any number of threads and processes run append_transaction,*)
(* set_test_stack and set_hook_digests under the flock of                  *)
(* locks/cassette.lock, while others run load_manifest, which takes no     *)
(* lock.  The manifest is replaced with two renames: cassette.json to a    *)
(* backup, then the temporary file to cassette.json.  A caller may be      *)
(* killed, or a file operation may raise, at any step.                     *)
(***************************************************************************)
EXTENDS Cassette

CONSTANTS
    Writers,        \* threads and processes that call the writing operations
    Readers,        \* those that call load_manifest without the lock
    NoProc,         \* nobody holds the flock
    NoCall,         \* a process with no call in progress
    Absent,         \* there is no cassette.json
    NoView,         \* a process that has not read yet
    Unreadable,     \* load_manifest raised FileNotFoundError
    MaxAborts       \* bound: how many calls may be cut off

Procs == Writers \cup Readers

ASSUME StoreAssumption ==
    /\ NoProc \notin Procs
    /\ NoCall \notin Calls
    /\ Absent \notin Manifest
    /\ NoView \notin Manifest \cup {Unreadable}
    /\ Unreadable \notin Manifest
    /\ MaxAborts \in Nat

VARIABLES
    manifest,       \* cassette.json: a manifest or Absent
    backups,        \* the contents of the cassette.json.bak.* files
    requests,       \* requests/<id>.json: "none", "torn" or "whole"
    responses,      \* responses/<id>.json: the same
    lock,           \* the holder of the exclusive flock
    pc,             \* where each process is in its call
    call,           \* the arguments of the call in progress
    loaded,         \* the manifest the process loaded, before its edit
    view,           \* what the last load_manifest without the lock gave
    issued,         \* ids uuid4 has handed out
    returned,       \* history: ids append_transaction has returned
    severed,        \* history: a call was cut off between the two renames
    aborts          \* how many calls were cut off

vars == <<manifest, backups, requests, responses, lock, pc, call, loaded,
          view, issued, returned, severed, aborts>>

files   == <<manifest, backups, requests, responses>>
history == <<issued, returned, severed, aborts>>

Blobs == {"none", "torn", "whole"}

\* The steps a process takes while it holds the flock.
Critical == {"request", "response", "load", "retire", "install", "release"}

Init ==
    /\ manifest = Absent
    /\ backups = {}
    /\ requests = [t \in TxIds |-> "none"]
    /\ responses = [t \in TxIds |-> "none"]
    /\ lock = NoProc
    /\ pc = [p \in Procs |-> "idle"]
    /\ call = [p \in Procs |-> NoCall]
    /\ loaded = [p \in Procs |-> EmptyManifest]
    /\ view = [p \in Procs |-> NoView]
    /\ issued = {}
    /\ returned = {}
    /\ severed = FALSE
    /\ aborts = 0

-----------------------------------------------------------------------------
(* What the steps are made of; each mutant is the definition after it gone
   wrong, for the runs that show a property depends on it. *)

\* uuid4 gives an append an id no other call has.
Fresh(c) == Tx(c) \cap issued = {}

\* (mutant) A shared lock.
AlwaysFree == TRUE

\* flock(LOCK_EX) succeeds when nobody holds the lock.
LockFree == lock = NoProc

\* (mutant) The handle is never unlocked.
NeverUnlocked(p) == lock

\* LOCK_UN, or the end of the process, frees the lock p holds.
Unlocked(p) == IF lock = p THEN NoProc ELSE lock

\* (mutant) The request file is skipped.
FirstStepResponse(c) == IF c.op = "append" THEN "response" ELSE "load"

\* An append writes its blobs before it loads the manifest.
FirstStep(c) == IF c.op = "append" THEN "request" ELSE "load"

\* (mutant) Every edit starts afresh.
StoredFresh == EmptyManifest

\* What load_manifest makes of the disk: a missing file is an empty manifest.
Stored == IF manifest = Absent THEN EmptyManifest ELSE manifest

\* (mutant) One name for all backups.
LastBackup == {manifest} \ {Absent}

\* Each backup has a name of its own; without cassette.json there is none.
WithBackup == backups \cup ({manifest} \ {Absent})

-----------------------------------------------------------------------------
(* The calls that write *)

\* A call begins: an append draws its id before it asks for the lock.
Begin(p, c) ==
    /\ pc[p] = "idle"
    /\ Fresh(c)
    /\ issued' = issued \cup Tx(c)
    /\ call' = [call EXCEPT ![p] = c]
    /\ pc' = [pc EXCEPT ![p] = "lock"]
    /\ UNCHANGED <<files, lock, loaded, view, returned, severed, aborts>>

\* flock(LOCK_EX)
Acquire(p) ==
    /\ pc[p] = "lock"
    /\ LockFree
    /\ lock' = p
    /\ pc' = [pc EXCEPT ![p] = FirstStep(call[p])]
    /\ UNCHANGED <<files, call, loaded, view, history>>

WriteRequest(p) ==
    /\ pc[p] = "request"
    /\ requests' = [requests EXCEPT ![call[p].tx] = "whole"]
    /\ pc' = [pc EXCEPT ![p] = "response"]
    /\ UNCHANGED <<manifest, backups, responses, lock, call, loaded, view, history>>

WriteResponse(p) ==
    /\ pc[p] = "response"
    /\ responses' = [responses EXCEPT ![call[p].tx] = "whole"]
    /\ pc' = [pc EXCEPT ![p] = "load"]
    /\ UNCHANGED <<manifest, backups, requests, lock, call, loaded, view, history>>

\* load_manifest under the lock: nobody renames meanwhile.
LoadLocked(p) ==
    /\ pc[p] = "load"
    /\ loaded' = [loaded EXCEPT ![p] = Stored]
    /\ pc' = [pc EXCEPT ![p] = "retire"]
    /\ UNCHANGED <<files, lock, call, view, history>>

\* Write and fsync the private temporary file, then move cassette.json, if
\* there is one, to a backup of its own.
Retire(p) ==
    /\ pc[p] = "retire"
    /\ backups' = WithBackup
    /\ manifest' = Absent
    /\ pc' = [pc EXCEPT ![p] = "install"]
    /\ UNCHANGED <<requests, responses, lock, call, loaded, view, history>>

\* Move the temporary file to cassette.json and fsync the directory.
Install(p) ==
    /\ pc[p] = "install"
    /\ manifest' = Edited(loaded[p], call[p])
    /\ pc' = [pc EXCEPT ![p] = "release"]
    /\ UNCHANGED <<backups, requests, responses, lock, call, loaded, view, history>>

\* Unlock and return to the caller.
Release(p) ==
    /\ pc[p] = "release"
    /\ lock' = Unlocked(p)
    /\ pc' = [pc EXCEPT ![p] = "idle"]
    /\ call' = [call EXCEPT ![p] = NoCall]
    /\ loaded' = [loaded EXCEPT ![p] = EmptyManifest]
    /\ returned' = returned \cup Tx(call[p])
    /\ UNCHANGED <<files, view, issued, severed, aborts>>

\* The process is killed, or a file operation raises and __exit__ unlocks.
\* Either way the flock is free, the call never returns its id, and the file
\* being written is left in any state.
Abort(p) ==
    /\ aborts < MaxAborts
    /\ pc[p] \in {"lock"} \cup Critical
    /\ aborts' = aborts + 1
    /\ lock' = Unlocked(p)
    /\ pc' = [pc EXCEPT ![p] = "idle"]
    /\ call' = [call EXCEPT ![p] = NoCall]
    /\ loaded' = [loaded EXCEPT ![p] = EmptyManifest]
    /\ severed' = (severed \/ (pc[p] = "install" /\ loaded[p] # EmptyManifest))
    /\ IF pc[p] = "request"
       THEN \E b \in Blobs : requests' = [requests EXCEPT ![call[p].tx] = b]
       ELSE UNCHANGED requests
    /\ IF pc[p] = "response"
       THEN \E b \in Blobs : responses' = [responses EXCEPT ![call[p].tx] = b]
       ELSE UNCHANGED responses
    /\ UNCHANGED <<manifest, backups, view, issued, returned>>

-----------------------------------------------------------------------------
(* load_manifest without the lock *)

\* is_file(): a missing file reads as an empty manifest.
CheckExists(p) ==
    /\ pc[p] = "idle"
    /\ IF manifest = Absent
       THEN /\ view' = [view EXCEPT ![p] = Stored]
            /\ UNCHANGED pc
       ELSE /\ pc' = [pc EXCEPT ![p] = "reading"]
            /\ UNCHANGED view
    /\ UNCHANGED <<files, lock, call, loaded, history>>

\* read_text(): the file may have been renamed away since the check.
ReadFile(p) ==
    /\ pc[p] = "reading"
    /\ view' = [view EXCEPT ![p] =
                   IF manifest = Absent THEN Unreadable ELSE manifest]
    /\ pc' = [pc EXCEPT ![p] = "idle"]
    /\ UNCHANGED <<files, lock, call, loaded, history>>

-----------------------------------------------------------------------------

\* What a process does on its own once a call has begun.
Advance(p) ==
    \/ Acquire(p)
    \/ WriteRequest(p)
    \/ WriteResponse(p)
    \/ LoadLocked(p)
    \/ Retire(p)
    \/ Install(p)
    \/ Release(p)
    \/ ReadFile(p)

Next ==
    \/ \E p \in Writers, c \in Calls : Begin(p, c)
    \/ \E p \in Readers : CheckExists(p)
    \/ \E p \in Procs : Advance(p) \/ Abort(p)

Spec == Init /\ [][Next]_vars

\* The operating system runs every process; it promises no order among the
\* waiters of a flock, so fairness is weak.
FairSpec == Spec /\ \A p \in Procs : WF_vars(Advance(p))

-----------------------------------------------------------------------------
(* Properties *)

TypeOK ==
    /\ manifest \in Manifest \cup {Absent}
    /\ backups \subseteq Manifest
    /\ requests \in [TxIds -> Blobs]
    /\ responses \in [TxIds -> Blobs]
    /\ lock \in Procs \cup {NoProc}
    /\ pc \in [Procs -> {"idle", "lock", "reading"} \cup Critical]
    /\ call \in [Procs -> Calls \cup {NoCall}]
    /\ loaded \in [Procs -> Manifest]
    /\ view \in [Procs -> Manifest \cup {NoView, Unreadable}]
    /\ issued \subseteq TxIds
    /\ returned \subseteq TxIds
    /\ severed \in BOOLEAN
    /\ aborts \in 0 .. MaxAborts

\* The manifest the store stands for.  Between the two renames it is the one
\* the writer loaded, of which the file system only has the backup.
Committed ==
    IF manifest # Absent THEN manifest
    ELSE IF lock # NoProc /\ pc[lock] = "install" THEN loaded[lock]
    ELSE EmptyManifest

\* The manifests on disk and the ids they list.
OnDisk == backups \cup ({manifest} \ {Absent})
Archived == UNION {Ids(m) : m \in OnDisk}

\* A writer between its load and its second rename still replaces exactly
\* the manifest it loaded: no other call's edit can slip in between
\* (the read-modify-write of append_transaction, set_test_stack and
\* set_hook_digests, all under one lock).
NoStaleWrite ==
    \A p \in Procs : pc[p] \in {"retire", "install"} => loaded[p] = Committed

\* A transaction whose append returned stays in the manifest for as long as
\* no call is cut off between the two renames of _write_manifest_unlocked.
NoLostTransaction == ~severed => returned \subseteq Ids(Committed)

\* Even when calls are cut off anywhere, a returned transaction is still
\* listed in cassette.json or in some backup beside it.
NothingVanishes == returned \subseteq Archived

\* Whatever manifest is on disk, current or backup, every transaction it
\* lists has both of its files, complete: the blobs are written first, and a
\* call cut off while it writes them has not listed them.
ListedBlobsWhole ==
    \A t \in Archived : requests[t] = "whole" /\ responses[t] = "whole"

\* No manifest lists a transaction twice, however calls interleave or stop.
NoDuplicates ==
    \A m \in OnDisk :
        \A i, j \in DOMAIN m.txs : m.txs[i] = m.txs[j] => i = j

\* A read without the lock that finds a manifest finds every transaction that
\* had been returned when it read the file.
ReadsAreCurrent ==
    [][\A p \in Procs :
          /\ view'[p] # view[p]
          /\ view'[p] \notin {EmptyManifest, Unreadable}
          /\ ~severed
          => returned \subseteq Ids(view'[p])]_vars

\* What "atomic manifest writes" promises a caller: a transaction whose append
\* returned is in the manifest from then on, whatever is cut off later.
\* The code does not keep it: a call cut off between the two renames leaves
\* no cassette.json, and the next call starts from an empty manifest.
ReturnedStays == returned \subseteq Ids(Committed)

\* The inductive invariant behind the safety properties above.

\* Whoever is inside a call holds the lock, and nobody else does.
LockInv == \A p \in Procs : pc[p] \in Critical <=> lock = p

\* The call in progress, by the step its process is at.
CallInv == \A p \in Procs :
    /\ pc[p] \in {"lock"} \cup Critical <=> call[p] \in Calls
    /\ pc[p] \in {"request", "response"} => call[p].op = "append"

\* What a writer loaded is what it replaces: cassette.json until it retires
\* it, the newest backup after that.
LoadedInv == \A p \in Procs :
    /\ pc[p] = "retire" =>
          loaded[p] = Stored
    /\ pc[p] = "install" => /\ manifest = Absent
                            /\ loaded[p] \in backups \cup {EmptyManifest}
    /\ pc[p] = "release" => /\ manifest # Absent
                            /\ Tx(call[p]) \subseteq Ids(manifest)

\* The calls whose transaction is not in any manifest yet.
Unlisted(p) == pc[p] \in ({"lock"} \cup Critical) \ {"release"}

\* Ids are drawn once: a call's id is in no manifest before it installs it,
\* and in no other call.
FreshInv ==
    /\ Archived \subseteq issued
    /\ \A p \in Procs : call[p] \in Calls => Tx(call[p]) \subseteq issued
    /\ \A p \in Procs : Unlisted(p) => Tx(call[p]) \cap Archived = {}
    /\ \A p, q \in Procs :
          p # q /\ call[p] \in Calls /\ call[q] \in Calls
          => Tx(call[p]) \cap Tx(call[q]) = {}

\* The files of the transaction being appended.
BlobInv == \A p \in Procs :
    call[p] \in AppendCalls =>
        /\ pc[p] \in Critical \ {"request"} => requests[call[p].tx] = "whole"
        /\ pc[p] \in Critical \ {"request", "response"} =>
              responses[call[p].tx] = "whole"

IInv ==
    /\ TypeOK
    /\ LockInv
    /\ CallInv
    /\ LoadedInv
    /\ FreshInv
    /\ BlobInv
    /\ NoDuplicates
    /\ ListedBlobsWhole
    /\ NoLostTransaction
    /\ NothingVanishes

\* The store implements the abstract log.
PhaseOf(p) == CASE pc[p] \in {"idle", "reading"} -> "idle"
                [] pc[p] = "release" -> "applied"
                [] OTHER -> "called"

Phase == [p \in Procs |-> PhaseOf(p)]

Log == INSTANCE CassetteLog WITH
          committed <- Committed,
          phase <- Phase

ImplementsLog == Log!LogSpec

\* Every call that is not cut off gets the lock and returns, provided only
\* finitely many calls are made.
CallsEnd == \A p \in Procs : pc[p] = "lock" ~> pc[p] = "idle"

=============================================================================
