----------------------------- MODULE Migration ------------------------------
(***************************************************************************)
(* `llmreplay migrate`, migrate/engine.py: a cassette that was imported    *)
(* with schema version 0 is brought to version 1, beside the edits and     *)
(* appends of CassetteEdits.  Every other call raises on a manifest of     *)
(* version 0; an append does so after it has written its blobs.            *)
(*                                                                         *)
(* A migration loads the manifest twice with no lock, recomputes the hash  *)
(* of each transaction from its request file, creates the blob files that  *)
(* are missing, copies the manifest to a backup and writes it with the two *)
(* renames of every write.  With --dry-run it stops before the backup.     *)
(***************************************************************************)
EXTENDS CassetteEdits

CONSTANTS
    Imports,        \* transactions of version 0, [hash, request, response]
    MaxImports,     \* bound: how many transactions were imported
    Unhashed,       \* no static_hash, or one that is not 64 characters long
    Blank,          \* the body of a file that the migration created, {}
    NoBackup        \* cassette.json.bak.pre-migrate-v0 is not there

ASSUME MigrationAssumption ==
    /\ \A tx \in Imports :
          /\ tx.hash \in Bodies \cup {Unhashed}
          /\ tx.request \in Bodies \cup {Gone}
          /\ tx.response \in BOOLEAN
    /\ {Unhashed, Blank} \cap (Bodies \cup {Gone, TornText, NoBody}) = {}
    /\ MaxImports \in 0 .. MaxTxs

VARIABLES
    version,        \* schema_version of the last manifest that was there
    backup,         \* the backup: a manifest, or NoBackup
    dry,            \* processes that migrate with --dry-run
    imported,       \* history: the transactions as they were imported
    previewed       \* history: a dry run created a blob file

migrationVars == <<version, backup, dry, imported, previewed>>
allVars == <<vars, migrationVars>>

\* The manifest as it was imported.
Original == [i \in DOMAIN imported |-> TxOf(i, imported[i].hash)]

\* A cassette with imported transactions, or a new one.
InitMigration ==
    \E n \in 0 .. MaxImports : \E old \in [1 .. n -> Imports] :
        /\ InitWith([i \in 1 .. n |-> TxOf(i, old[i].hash)],
                    [id \in Ids |-> IF id <= n THEN old[id].request ELSE Gone],
                    {id \in 1 .. n : old[id].response})
        /\ version = IF n = 0 THEN 1 ELSE 0
        /\ backup = NoBackup
        /\ dry = {}
        /\ imported = old
        /\ previewed = FALSE

-----------------------------------------------------------------------------

\* Of version 0; without a file a load gives an empty manifest of version 1.
Legacy == there /\ version = 0

\* An append on version 0 raises when its blobs are written, under the lock.
AppendRaises(p, body) ==
    LET id == appended + 1 IN
    /\ Legacy
    /\ proc[p] = Idle
    /\ Unlocked
    /\ appended < MaxTxs
    /\ appended' = id
    /\ request' = [request EXCEPT ![id] = body]
    /\ response' = response \cup {id}
    /\ UNCHANGED <<source, fork, proc, history, edits, kills, migrationVars>>

\* plan_migrate reads the version; a cassette of version 1 is left alone, and
\* one that has no file raises.
MigratePlan(p, preview) ==
    /\ proc[p] = Idle
    /\ edits < MaxEdits
    /\ edits' = edits + 1
    /\ Legacy
    /\ Goes(p, "planned")
    /\ dry' = IF preview THEN dry \cup {p} ELSE dry \ {p}
    /\ NotesRace(p)
    /\ UNCHANGED <<source, request, response, fork, appended, kept, dropped, cut, severed,
                   kills, version, backup, imported, previewed>>

OnlyProc == UNCHANGED <<source, request, response, fork, appended, history, edits, kills,
                        migrationVars>>

\* migrate_cassette reads the manifest again, and raises without a file.
MigrateRead(p) ==
    /\ proc[p].phase = "planned"
    /\ IF there
       THEN Works(p, "rehash", manifest, 1, NoBody, [i \in DOMAIN manifest |-> manifest[i].id])
       ELSE Ends(p)
    /\ OnlyProc

\* (mutant) A hash that is there is trusted.
RehashedWhenInvalid(tx, body) == IF tx.hash # Unhashed THEN tx.hash ELSE body

\* static_hash becomes the key of the request file; without the file it stays.
Rehashed(tx, body) == IF body = Gone THEN tx.hash ELSE body

\* The hash of the next transaction.  A torn request raises, and so does a
\* missing one of a transaction that has no valid hash.
MigrateHash(p) ==
    LET at == proc[p].at
        tx == proc[p].copy[at]
    IN  /\ proc[p].phase = "rehash"
        /\ at \in DOMAIN proc[p].copy
        /\ IF request[tx.id] = TornText \/ Rehashed(tx, request[tx.id]) = Unhashed
           THEN Ends(p)
           ELSE Works(p, "rehash",
                      [proc[p].copy EXCEPT ![at] = TxOf(tx.id, Rehashed(tx, request[tx.id]))],
                      at + 1, NoBody, proc[p].todo)
        /\ OnlyProc

MigrateHashed(p) ==
    /\ proc[p].phase = "rehash"
    /\ proc[p].at \notin DOMAIN proc[p].copy
    /\ Goes(p, "blobRequest")
    /\ OnlyProc

\* ensure_transaction_blobs creates the files that are missing, one by one,
\* whether or not this is a dry run.
EnsureRequest(p) ==
    LET id == Head(proc[p].todo) IN
    /\ proc[p].phase = "blobRequest"
    /\ proc[p].todo # << >>
    /\ request' = [request EXCEPT ![id] = IF @ = Gone THEN Blank ELSE @]
    /\ previewed' = (previewed \/ (p \in dry /\ request[id] = Gone))
    /\ Goes(p, "blobResponse")
    /\ UNCHANGED <<source, response, fork, appended, history, edits, kills, version, backup, dry, imported>>

EnsureResponse(p) ==
    /\ proc[p].phase = "blobResponse"
    /\ response' = response \cup {Head(proc[p].todo)}
    /\ proc' = [proc EXCEPT ![p].phase = "blobRequest", ![p].todo = Tail(@)]
    /\ UNCHANGED <<source, request, fork, appended, history, edits, kills, migrationVars>>

\* A dry run ends here.
PreviewEnds(p) ==
    /\ proc[p].phase = "blobRequest"
    /\ proc[p].todo = << >>
    /\ p \in dry
    /\ Ends(p)
    /\ OnlyProc

\* (mutant) The backup is taken of what is to be written.
BackedMigrated(p) == proc[p].copy

\* What the backup is taken of: the manifest file.
Backed(p) == manifest

\* The copy raises without a file.
MigrateBackup(p) ==
    /\ proc[p].phase = "blobRequest"
    /\ proc[p].todo = << >>
    /\ p \notin dry
    /\ IF there THEN backup' = Backed(p) /\ Goes(p, "migrated")
                ELSE UNCHANGED backup /\ Ends(p)
    /\ UNCHANGED <<source, request, response, fork, appended, history, edits, kills,
                   version, dry, imported, previewed>>

\* The manifest is written, under the lock.
MigrateRetire(p) ==
    /\ proc[p].phase = "migrated"
    /\ Unlocked
    /\ Retires
    /\ Goes(p, "migrateInstall")
    /\ UNCHANGED <<request, response, fork, appended, history, edits, kills, migrationVars>>

MigrateInstall(p) ==
    /\ proc[p].phase = "migrateInstall"
    /\ Installs(proc[p].copy)
    /\ version' = 1
    /\ Ends(p)
    /\ UNCHANGED <<request, response, fork, appended, history, edits, kills,
                   backup, dry, imported, previewed>>

\* The file a migration is inside of creating.
Creating(p) ==
    IF proc[p].phase = "blobRequest" /\ proc[p].todo # << >>
    THEN {id \in {Head(proc[p].todo)} : request[id] = Gone} ELSE {}

Migrate(p) ==
    \/ MigrateRead(p)
    \/ MigrateHash(p)
    \/ MigrateHashed(p)
    \/ EnsureRequest(p)
    \/ EnsureResponse(p)
    \/ PreviewEnds(p)
    \/ MigrateBackup(p)
    \/ MigrateRetire(p)
    \/ MigrateInstall(p)

\* The calls of CassetteEdits: what loads the manifest needs version 1.  An
\* append makes a manifest of version 1.
EditCalls(p) ==
    /\ \/ ~Legacy /\ Begins(p) /\ UNCHANGED version
       \/ Record(p) /\ version' = IF there' THEN 1 ELSE version
       \/ Tweak(p) /\ UNCHANGED version
       \/ Fork(p) /\ UNCHANGED version
       \/ Kill(p, Rewriting(p) \cup Creating(p)) /\ UNCHANGED version
    /\ UNCHANGED <<backup, dry, imported, previewed>>

NextMigration ==
    \E p \in Procs :
        \/ EditCalls(p)
        \/ \E body \in Bodies : AppendRaises(p, body)
        \/ \E preview \in BOOLEAN : MigratePlan(p, preview)
        \/ Migrate(p)

SpecMigration == InitMigration /\ [][NextMigration]_allVars

-----------------------------------------------------------------------------
(* Properties *)

Undisturbed == AtRest /\ ~cut /\ ~raced
KeyIs(hash, body) == body \in {hash, Blank}

\* The files that validate looks for and does not find.
MissingBlobs(log, requests, responses) ==
    {tx \in {log[i] : i \in DOMAIN log} :
        requests[tx.id] = Gone \/ tx.id \notin responses}

\* As long as calls neither overlap nor are cut off, whenever none is under
\* way: a cassette of version 1 has the blobs of what it lists and, but for
\* appends that raised, no others, and the hash of a transaction is the key of
\* its request file unless the migration made up that file; however often it
\* was migrated and tweaked.
EditedIsWhole ==
    Undisturbed /\ ~Legacy =>
        /\ MissingBlobs(manifest, request, response) = {}
        /\ {id \in Ids : request[id] # Gone} \cup response
              \subseteq Listed(manifest) \cup (Ids \ kept)
        /\ \A i \in DOMAIN manifest : KeyIs(manifest[i].hash, request[manifest[i].id])

\* A finished fork has the files of all it lists, under their keys, whatever
\* was done to the source since: if no call overlapped or was cut off.
ForkIsWhole ==
    fork.done /\ ~cut /\ ~raced =>
        /\ MissingBlobs(fork.manifest, fork.request, fork.response) = {}
        /\ \A i \in DOMAIN fork.manifest :
              KeyIs(fork.manifest[i].hash, fork.request[fork.manifest[i].id])

\* However appends, edits and migrations race, and wherever they are cut off
\* but between the two renames of a write, a transaction that was imported, or
\* whose append returned while no tweak or migration had the manifest in hand,
\* stays listed in the cassette.json that is there until a tweak that saw it
\* drops it; and the file is there once it was, unless somebody is between the
\* renames.  (The documented writer lock promises it of every append: tweaks
\* and migrations load without it.)
AppendsStayListed ==
    ~severed /\ (\A p \in Procs : proc[p].phase \notin Holding \ {"append"}) =>
        /\ kept \subseteq Listed(manifest) \cup dropped
        /\ kept # {} => there

\* However edits, appends and migrations race, and wherever they are cut off,
\* a manifest lists transactions in the order they were recorded, each once.
OrderKept ==
    \A log \in {manifest, fork.manifest} :
        \A i, j \in DOMAIN log : i < j => log[i].id < log[j].id

\* The step that makes a cassette one of version 1 keeps its transactions, in
\* order, each with the key of the request it was imported with, or with the
\* imported hash when there was no request: unless a dry run created blobs
\* before, a migration was cut off, or another call overlapped.
MigrationKeepsKeys ==
    [][version = 0 /\ version' = 1 /\ ~previewed /\ ~cut /\ ~raced =>
        manifest' = [i \in DOMAIN imported |->
            TxOf(i, IF imported[i].request = Gone THEN imported[i].hash
                    ELSE imported[i].request)]]_allVars

\* What was imported is never lost: it is the manifest, and once that is
\* migrated, or is away between the renames of a migration or for good after a
\* migration that was cut off there, it is the backup; unless two migrations
\* overlapped.
OriginalSurvives ==
    /\ Legacy => manifest = Original
    /\ ~Legacy /\ imported # << >> /\ ~raced => backup = Original

=============================================================================
