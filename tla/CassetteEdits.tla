--------------------------- MODULE CassetteEdits ----------------------------
(***************************************************************************)
(* Edits of a finished cassette, lineage/tweak.py and lineage/fork.py,     *)
(* beside the proxies that append to it.  An append holds the lock from    *)
(* its blobs to its write.  A tweak or a fork loads the manifest with no   *)
(* lock, works on the blob files one by one, and takes the lock to write a *)
(* manifest at the end.  Whoever writes renames the old cassette.json away *)
(* before the new one takes its place: in between there is none, a load    *)
(* gives an empty manifest, and a process that is killed leaves it so.     *)
(*                                                                         *)
(* A request body is what match_key tells apart, so its key is the body.   *)
(***************************************************************************)
EXTENDS Naturals, Sequences, FiniteSets

CONSTANTS
    Procs,          \* processes: proxies and command lines
    Bodies,         \* request bodies
    Gone,           \* a blob file that is not there
    TornText,       \* a request file cut off in write_text
    NoBody,         \* the body of a process that is not tweaking
    MaxTxs,         \* bound: how many transactions are appended
    MaxEdits,       \* bound: how many tweaks and forks are started
    MaxKills        \* bound: how many of them are cut off

ASSUME EditsAssumption ==
    /\ {Gone, TornText, NoBody} \cap Bodies = {}
    /\ MaxTxs \in Nat /\ MaxEdits \in Nat /\ MaxKills \in Nat

VARIABLES
    manifest,       \* transactions of the source, [id, hash]; none without a file
    there,          \* whether there is a cassette.json
    request,        \* the request file of each id: a body, Gone or TornText
    response,       \* ids whose response file is there
    fork,           \* the destination: made, manifest, request, response
    proc,           \* of each process: what it is doing
    appended,       \* how many ids were drawn, those of the first manifest included
    kept,           \* history: ids whose append returned while no edit held a manifest
    dropped,        \* history: ids a tweak meant to drop
    cut,            \* history: a call was cut off half way
    severed,        \* history: a call was cut off between its two renames
    raced,          \* history: a call began while another was under way
    edits, kills    \* how many edits were started and cut off

history == <<kept, dropped, cut, severed, raced>>
source == <<manifest, there>>
vars == <<source, request, response, fork, proc, appended, history, edits, kills>>

Ids == 1 .. MaxTxs
TxOf(id, hash) == [id |-> id, hash |-> hash]
Listed(log) == {log[i].id : i \in DOMAIN log}

Idle == [phase |-> "idle", copy |-> << >>, at |-> 0, body |-> NoBody, todo |-> << >>]
NoFork == [made |-> FALSE, done |-> FALSE, manifest |-> << >>,
           request |-> [id \in Ids |-> Gone], response |-> {}]

-----------------------------------------------------------------------------
(* tweak_transaction *)

\* (mutants) The tweaked transaction keeps its hash; it is added after the
\* one it replaces.
KeptWithOldHash(copy, at, body) == SubSeq(copy, 1, at)
KeptTwice(copy, at, body) == Append(SubSeq(copy, 1, at), TxOf(copy[at].id, body))

\* What a tweak keeps: the prefix, and the tweaked transaction under its new
\* hash.
Kept(copy, at, body) ==
    Append(SubSeq(copy, 1, at - 1), TxOf(copy[at].id, body))

\* The ids a tweak drops, in order.
Suffix(copy, at) == [i \in 1 .. Len(copy) - at |-> copy[at + i].id]

-----------------------------------------------------------------------------

\* A cassette at rest that holds a manifest and its blobs.
InitWith(log, requests, responses) ==
    /\ manifest = log
    /\ there = (log # << >>)
    /\ request = requests
    /\ response = responses
    /\ fork = NoFork
    /\ proc = [p \in Procs |-> Idle]
    /\ appended = Len(log)
    /\ kept = DOMAIN log
    /\ dropped = {}
    /\ cut = FALSE
    /\ severed = FALSE
    /\ raced = FALSE
    /\ edits = 0
    /\ kills = 0

Init == InitWith(<< >>, [id \in Ids |-> Gone], {})

NotesRace(p) == raced' = (raced \/ \E q \in Procs \ {p} : proc[q] # Idle)
Goes(p, phase) == proc' = [proc EXCEPT ![p].phase = phase]
Ends(p) == proc' = [proc EXCEPT ![p] = Idle]
Works(p, phase, copy, at, body, todo) ==
    proc' = [proc EXCEPT ![p] = [phase |-> phase, copy |-> copy, at |-> at,
                                 body |-> body, todo |-> todo]]

\* (mutant) The lock is not taken.
NoLock == TRUE

\* Who holds the lock, and who holds a manifest that will be written back.
Holding == {"append", "appendInstall", "tweakInstall", "migrateInstall"}
Unlocked == \A p \in Procs : proc[p].phase \notin Holding
Editing(p) ==
    proc[p].phase \in {"rewrite", "unlinkRequest", "unlinkResponse", "tweakInstall",
                      "rehash", "blobRequest", "blobResponse", "migrated", "migrateInstall"}

\* The first rename of a write: the old cassette.json becomes a backup.
Retires == manifest' = << >> /\ there' = FALSE

\* The second one: the new manifest is there.
Installs(log) == manifest' = log /\ there' = TRUE

\* append_transaction of a recording process takes the lock, writes its blobs
\* and loads the manifest.
AppendTx(p, body) ==
    LET id == appended + 1 IN
    /\ proc[p] = Idle
    /\ Unlocked
    /\ appended < MaxTxs
    /\ appended' = id
    /\ request' = [request EXCEPT ![id] = body]
    /\ response' = response \cup {id}
    /\ Works(p, "append", Append(manifest, TxOf(id, body)), id, body, << >>)
    /\ NotesRace(p)
    /\ UNCHANGED <<source, fork, kept, dropped, cut, severed, edits, kills>>

AppendRetire(p) ==
    /\ proc[p].phase = "append"
    /\ Retires
    /\ Goes(p, "appendInstall")
    /\ UNCHANGED <<request, response, fork, appended, history, edits, kills>>

AppendInstall(p) ==
    /\ proc[p].phase = "appendInstall"
    /\ Installs(proc[p].copy)
    /\ kept' = IF \E q \in Procs : Editing(q) THEN kept ELSE kept \cup {proc[p].at}
    /\ Ends(p)
    /\ UNCHANGED <<request, response, fork, appended, dropped, cut, severed, raced,
                   edits, kills>>

\* A tweak loads the manifest and the request it patches, with no lock.  It
\* raises, and changes nothing, when the request file is gone or torn.
TweakLoad(p, at, body) ==
    /\ proc[p] = Idle
    /\ edits < MaxEdits
    /\ edits' = edits + 1
    /\ at \in DOMAIN manifest
    /\ request[manifest[at].id] \notin {Gone, TornText}
    /\ Works(p, "rewrite", manifest, at, body, Suffix(manifest, at))
    /\ NotesRace(p)
    /\ UNCHANGED <<source, request, response, fork, appended, kept, dropped, cut, severed, kills>>

\* The request is patched in place.
TweakRewrite(p) ==
    /\ proc[p].phase = "rewrite"
    /\ request' = [request EXCEPT ![proc[p].copy[proc[p].at].id] = proc[p].body]
    /\ Goes(p, "unlinkRequest")
    /\ UNCHANGED <<source, response, fork, appended, history, edits, kills>>

\* The files of the dropped transactions are removed one by one.
TweakUnlinkRequest(p) ==
    /\ proc[p].phase = "unlinkRequest"
    /\ proc[p].todo # << >>
    /\ request' = [request EXCEPT ![Head(proc[p].todo)] = Gone]
    /\ Goes(p, "unlinkResponse")
    /\ UNCHANGED <<source, response, fork, appended, history, edits, kills>>

TweakUnlinkResponse(p) ==
    /\ proc[p].phase = "unlinkResponse"
    /\ response' = response \ {Head(proc[p].todo)}
    /\ proc' = [proc EXCEPT ![p].phase = "unlinkRequest", ![p].todo = Tail(@)]
    /\ UNCHANGED <<source, request, fork, appended, history, edits, kills>>

\* The manifest that was loaded is written back without the suffix.
TweakRetire(p) ==
    /\ proc[p].phase = "unlinkRequest"
    /\ proc[p].todo = << >>
    /\ Unlocked
    /\ Retires
    /\ Goes(p, "tweakInstall")
    /\ UNCHANGED <<request, response, fork, appended, history, edits, kills>>

TweakInstall(p) ==
    /\ proc[p].phase = "tweakInstall"
    /\ Installs(Kept(proc[p].copy, proc[p].at, proc[p].body))
    /\ dropped' = dropped \cup Listed(SubSeq(proc[p].copy, proc[p].at + 1, Len(proc[p].copy)))
    /\ Ends(p)
    /\ UNCHANGED <<request, response, fork, appended, kept, cut, severed, raced, edits, kills>>

\* A fork loads the manifest and finds its destination empty.
ForkLoad(p, seq) ==
    /\ proc[p] = Idle
    /\ edits < MaxEdits
    /\ edits' = edits + 1
    /\ seq \in 0 .. Len(manifest)
    /\ ~fork.made
    /\ Works(p, "forkMake", SubSeq(manifest, 1, seq), seq, NoBody,
             [i \in 1 .. seq |-> manifest[i].id])
    /\ NotesRace(p)
    /\ UNCHANGED <<source, request, response, fork, appended, kept, dropped, cut, severed, kills>>

\* The directories of the destination are made.
ForkMake(p) ==
    /\ proc[p].phase = "forkMake"
    /\ fork' = [fork EXCEPT !.made = TRUE]
    /\ Goes(p, "forkCopy")
    /\ UNCHANGED <<source, request, response, appended, history, edits, kills>>

\* (mutant) The last transaction of the prefix is left out.
CopiedButLast(todo) == Len(todo) > 1

\* Blobs are left to copy.
ToCopy(todo) == todo # << >>

\* The two blobs of a transaction are copied one after the other; one that
\* is not there is skipped.
ForkCopyRequest(p) ==
    LET id == Head(proc[p].todo) IN
    /\ proc[p].phase = "forkCopy"
    /\ ToCopy(proc[p].todo)
    /\ fork' = [fork EXCEPT !.request[id] = IF request[id] = Gone THEN @ ELSE request[id]]
    /\ Goes(p, "forkResponse")
    /\ UNCHANGED <<source, request, response, appended, history, edits, kills>>

ForkCopyResponse(p) ==
    /\ proc[p].phase = "forkResponse"
    /\ fork' = [fork EXCEPT !.response = @ \cup ({Head(proc[p].todo)} \cap response)]
    /\ proc' = [proc EXCEPT ![p].phase = "forkCopy", ![p].todo = Tail(@)]
    /\ UNCHANGED <<source, request, response, appended, history, edits, kills>>

\* The manifest of the fork is written, in place of that of another fork that
\* found the destination empty as well.
ForkRetire(p) ==
    /\ proc[p].phase = "forkCopy"
    /\ ~ToCopy(proc[p].todo)
    /\ \A q \in Procs : proc[q].phase # "forkInstall"
    /\ fork' = [fork EXCEPT !.manifest = << >>, !.done = FALSE]
    /\ Goes(p, "forkInstall")
    /\ UNCHANGED <<source, request, response, appended, history, edits, kills>>

ForkInstall(p) ==
    /\ proc[p].phase = "forkInstall"
    /\ fork' = [fork EXCEPT !.manifest = proc[p].copy, !.done = TRUE]
    /\ Ends(p)
    /\ UNCHANGED <<source, request, response, appended, history, edits, kills>>

\* The request file a tweak is inside of writing.
Rewriting(p) ==
    IF proc[p].phase = "rewrite" THEN {proc[p].copy[proc[p].at].id} ELSE {}

\* A call is cut off, and its lock is free.  A request file it was writing may
\* be torn, because write_text truncates it first; between its two renames it
\* leaves no cassette.json.
Kill(p, writing) ==
    /\ proc[p] # Idle
    /\ kills < MaxKills
    /\ kills' = kills + 1
    /\ cut' = TRUE
    /\ severed' = (severed \/ proc[p].phase \in Holding \ {"append"})
    /\ Ends(p)
    /\ \/ UNCHANGED request
       \/ \E id \in writing : request' = [request EXCEPT ![id] = TornText]
    /\ UNCHANGED <<source, response, fork, appended, kept, dropped, raced, edits>>

Record(p) == AppendRetire(p) \/ AppendInstall(p)

Tweak(p) ==
    \/ TweakRewrite(p)
    \/ TweakUnlinkRequest(p)
    \/ TweakUnlinkResponse(p)
    \/ TweakRetire(p)
    \/ TweakInstall(p)

Fork(p) ==
    \/ ForkMake(p)
    \/ ForkCopyRequest(p)
    \/ ForkCopyResponse(p)
    \/ ForkRetire(p)
    \/ ForkInstall(p)

\* What loads the manifest first.
Begins(p) ==
    \/ \E body \in Bodies : AppendTx(p, body)
    \/ \E at \in Ids, body \in Bodies : TweakLoad(p, at, body)
    \/ \E seq \in 0 .. MaxTxs : ForkLoad(p, seq)

Next ==
    \E p \in Procs :
        Begins(p) \/ Record(p) \/ Tweak(p) \/ Fork(p) \/ Kill(p, Rewriting(p))

Spec == Init /\ [][Next]_vars

\* No call is under way.
AtRest == \A p \in Procs : proc[p] = Idle

=============================================================================
