# A TLA+ development of llmreplay

llmreplay records the model calls of an agent through a local HTTP proxy and
plays them back later, offline and in order.  This directory holds TLA+ modules
of the parts of it whose correctness depends on interleaving, order, failure or
the boundaries of its pure functions, TLC configurations that check them on
small instances, and theorems about them that TLAPS checks for every value of
the constants.  Source paths below are relative to `src/llmreplay/` of the
repository unless they say otherwise.

1. [The system](#1-the-system)
2. [Modules and the code](#2-modules-and-the-code)
3. [Runs](#3-runs)
4. [Proofs](#4-proofs)
5. [Where the code and its documentation disagree](#5-where-the-code-and-its-documentation-disagree)
6. [What is not modelled](#6-what-is-not-modelled)
7. [Plan](#7-plan)

`PROJECT.json` is the machine-readable companion: the components, the runs, a
mutant for every property, the lines of code each definition stands for, the
hazards at their lines, and the theorems.

## 1. The system

Everything meets on disk.  A *cassette* is a directory: `cassette.json` (the
manifest: ordered transactions, hook digests, test-stack fingerprint,
extensions), `requests/` and `responses/` (one JSON blob per transaction),
`hooks/` and `locks/`.  No component keeps a long-lived connection to another;
they share cassettes, one keys file and one `llmreplay.yaml`, and they run in
different processes: the proxy, the commands of the CLI, the hooks an agent
starts for each tool call.

| component | state | operations | meets | what is hard |
|---|---|---|---|---|
| cassette store (`store/cassette.py`) | manifest, blobs, flock, backups | `append_transaction`, `set_test_stack`, `set_hook_digests`, `write_manifest`, `load_manifest` | everyone | read-modify-write of one file by many processes; lock-free readers; two renames; kills and failing file operations |
| proxy (`proxy/app.py`) | configuration, HMAC key, index of a replaying process | start-up checks, `/v1/models`, record, replay, mark-live, `rebuild_index`, `index_put` | store, match, scrub, keys gate, upstream | handlers interleave at awaits; index is a snapshot; keys depend on settings of the process; upstream hangs |
| match pipeline (`core/match.py`, `core/volatility.py`, `proxy/normalize.py`) | none | normalise, drop, sort, canonicalise, hash | proxy, tweak, migration, why | parallel tool traffic in any order, in three wire formats; what is noise and what is not, at every depth |
| scrubbing (`scrub/`) | none, but a key | redact, detect residuals | proxy, match | secrets by name, by place and by value; placeholders depend on the key |
| run lifecycle, demo (`cli/run_cmd.py`, `cli/demo_cmd.py`) | a server thread and a child process | start, wait for health, run, stop | proxy | port chosen before it is bound; deadlines; a five-second join that may fail; retry |
| free keys and gate (`teststack/keys.py`, `proxy/free_auth.py`) | one JSON file of quotas | `create`, `get`, `consume`, the gate | proxy, `llmreplay keys` | no lock; truncate then write; kills |
| fork, tweak (`lineage/`) | a cassette, and its copy | `fork_cassette`, `tweak_transaction` | store | lock-free load, files changed one by one, a manifest written last |
| migration (`migrate/`) | a cassette of version 0, a backup | upgrade, dry run | store, tweak | two lock-free loads; blobs made before the dry run ends; a backup before the write |
| nested sessions (`session/nested.py`) | session record in a manifest's extensions | `write_nested_meta`, `link_child_cassette`, `verify_children` | store | a digest of a file that others rewrite; order of links |
| hooks (`hooks/`) | two scripts, digests in the manifest, `decisions.jsonl` | install, verify, record, replay | store, the agent | a process per tool call; partial lines; reinstallation in another mode |
| snapshots (`snapshot/`) | an archive and its description | create, restore | the workspace | hash and archive taken at different times; extraction before the check; snapshots inside what they are taken of |
| profiles, `llmreplay.yaml`, mark (`config/`, `diagnose/mark.py`) | one YAML file | resolve, mark-ignore, mark-live | proxy | unlocked read-modify-write |
| diagnosis (`diagnose/`) | none | why, validate, doctor, bundle | store, match | keys computed away from the proxy |
| sticky write-back, templates; CLI; transports and pytest plugin; adapters and SSE; test stack; parity | little or none | fill fields, argument parsing, the proxy application in-process, formatting, probes, fixtures | store, proxy | — |

What makes each modelled part correct:

- **store** – no transaction that was returned is lost, whoever else writes; a
  listed transaction has both files whole; a reader is not shown an older
  manifest; the lock is always given back.
- **proxy** – replay never opens a connection unless a model is marked live; a
  body served from the cassette was recorded for that request; a replay process
  answers from one state of the cassette; what was answered while recording is
  on disk under the key of its own request; ci writes no residual secret; every
  request ends.
- **match and scrub** – two requests have one key exactly when they mean the
  same; no secret is stored; the other commands that compute keys agree with
  the proxy as far as their inputs let them.
- **run and demo** – a child meets its own proxy; a demo replays what it
  recorded; every run comes to an end.
- **free keys** – quotas and admissions balance; a client is never refused early.
- **fork, tweak, migration** – files, hashes and manifest agree; order is kept;
  a migration keeps the keys, and what was imported.
- **nested sessions** – a digest names its parent, and there is one to verify.
- **hooks** – a recorded decision is forced, replays agree and fail closed,
  hooks that verify are all of one mode.
- **snapshots, marks** – a restore that returns is exact, an undisturbed
  snapshot can be restored, a mark stays.

## 2. Modules and the code

    Cassette           manifests and what a call does to one   (data only)
      CassetteLog      the abstract promise: a log with atomic appends
      CassetteStore    the files, the flock, the renames       implements CassetteLog
        CassetteStore_proof
    ToolOrder          how parallel tool blocks are sorted     (operators only)
    Matching           the match pipeline, by ToolOrder        (operators only)
      Scrubbing        normalisation, scrubber, who computes a key (operators only)
        Conversations  two runs of an agent through both
    ReplaySession      the abstract promise: replies from the log a session was opened on
    Proxy              processes on one cassette, taken as a CassetteLog;
                       implements ReplaySession
      Proxy_proof      (also what ToolOrder computes)
      RunLifecycle     the run and demo commands over Proxy
        RunLifecycle_proof   (extends Proxy_proof)
    CassetteEdits      tweak and fork beside appends, rename by rename
      Migration        imported cassettes and migrate beside both
        Migration_proof
    NestedSessions     links beside appends, rename by rename
      NestedSessions_proof
    Hooks              scripts, digests and decisions.jsonl
      Hooks_proof
    FreeKeys           the keys file and the gate
      FreeKeys_proof
    Workspace          a directory, its snapshots, its llmreplay.yaml
      Workspace_proof

`MC*` modules define the symmetry sets and the larger constants of the runs.
Operators that sit next to a definition and are marked *(mutant)* in
their comment are plausible bugs; nothing in a specification uses them, and
`PROJECT.json` lists which property each of them breaks.

Variables under the heading *history* (`issued`, `returned`, `severed`,
`raced`, `cut`, `emitted`, `quiet`, `taken`, ...) record what happened.  They
are not state of the program, and no guard reads them except to draw a fresh id
(`issued`, `minted`).

### Cassette, CassetteLog, CassetteStore

A transaction is its id: the code draws a UUID, so `Begin` draws one that was
not drawn before.  A manifest is its list of ids, the fingerprint
of the test stack and the hook digests; `Edited(m, c)` is what each of the three
locked calls makes of one.

| action | code |
|---|---|
| `Begin`, `Acquire` | entering `_locked`: open the lock file, `flock(LOCK_EX)` |
| `LoadLocked` | `load_manifest` at the start of a locked call |
| `WriteRequest`, `WriteResponse` | the two blob writes of `append_transaction`; nobody opens a blob before a manifest lists it, so a write is one step unless it is cut off |
| `Retire`, `Install` | the two renames of `_write_manifest_unlocked`: `cassette.json` → backup, temporary file → `cassette.json` |
| `Release` | leaving `_locked` |
| `Abort` | a kill, or a file operation that raises, at any step; the operating system or the `finally` gives the lock back |
| `CheckExists`, `ReadFile` | the two file accesses of a lock-free `load_manifest` |

The temporary file has a name of its own (process id and UUID) and nothing reads
it, so it is not a variable; `Retire` includes writing and syncing it.
`write_manifest`, the locked write without a load, is what a tweak, a fork, a link
and a migration end with; the modules of those repeat its two renames.

`CassetteLog` is what the rest of the system may rely on: a call takes effect in
one step (`Apply`) between its invocation and its return; a lock-free read
returns the log, or nothing when it overlaps a call; a call that is cut off
either took effect, or did not, or left an *empty* log.  The last two clauses
are as weak as the code makes them (section 5), and a module that uses the
cassette as a log has to allow for them: an append in one step is justified by
`ImplementsLog` only together with reads that find nothing beside it and a log that
is empty after a cut.  `Proxy` does that (`Readable`, `Stop`).  The modules whose
properties are about that moment, `CassetteEdits`, `Migration` and
`NestedSessions`, have the two renames instead.

### ToolOrder, Matching, Scrubbing, Conversations

A JSON value is a string, a list, an object, null, or the placeholder that a
scrubbed string became; numbers and booleans behave as strings do here.  A string
that is the JSON text of an object is a `Text`: patterns find secrets anywhere in
it, and no other walk enters it.  The arguments of a tool call are an object to
Anthropic (`ToolUse`) and a text in the two OpenAI formats (`ToolCall`,
`FunctionCall`), so what is ignored at every depth in the one is not in the others.
`Matching` is `core/match.py` and `core/volatility.py` operator by operator:
`StripIgnored`, `StripThinking`, the sorting of tool blocks, tool messages, tool
calls and function outputs (`SortTools` and the four it calls), `JCS` and
`MatchKey`.  The sorts themselves are in `ToolOrder`, which has no recursion and can
be proved about: `StableSort` is `list.sort` with the key of each place (an item
goes to the place after all those that go before it), `SortLast` is what
`sort_tool_blocks` does with the calls or the results of a message, `SortRuns` what
`sort_openai_tool_message_runs` and `sort_responses_function_outputs` do with each
contiguous run.  `Matching` gives them the texts.  Names and strings are compared by their place in `Alphabet`, the
order of code points; SHA-256 and the escaping of JCS are taken to be injective,
so a key is the canonical text.  `Scrubbing` is `proxy/normalize.py` and
`scrub/engine.py` on strings that a pattern matches as a whole or not at all,
and the four places that compute a key: `ProxyKey`, `TweakKey`, `MigrationKey`
and `WhyKey`, which differ in what they scrub and in whose ignore list they read.
`IgnoreCandidates` and `Suggested` are the fields `why` lists (those that differ, or
else the first five) and the three of them in the command it prints.

`Conversations` drives them.  It is an agent, run twice: the recorded run and
a live one grow by a message, a tool call or a tool result (`Say`, `CallTool`,
`ToolReturns`); the calls of a turn are parallel, and so are the results.  Each
state holds the request of each run in the wire format of its API (Anthropic,
chat completions, responses).  Beside the wire the module keeps what a run *did*,
as turns with sets in them; `Meaning` is computed from that and knows nothing of
the pipeline, which makes it the reference definition the keys are compared to.

### Proxy

A request is what matching tells apart: the text of its static fields, a noise
field an ignore list may name, and the secret it carries.  `MatchKey` is the
record of those three as this process sees them: the secret as a placeholder
under its HMAC key, the noise unless it is ignored.  (That the real pipeline
gives keys of this kind is what `KeysFollowMeaning` of `Conversations` is
about.)  The key is random in a process that has no `LLMREPLAY_HMAC_KEY`.

A reply is its status, its value, whether its JSON is an object, and whether the
exchange holds no secret, one the scrubbers find or one they leave.  What is stored of
it (`Stored`: wrapped unless it is an object, and scrubbed) is not what the
recording client is given (`Given`: the reply as it came).

`Start` has the refusals of `create_app` and the server command (`Legal`) and,
for a replaying process, builds the index.  A free recorder begins to stamp its
test stack, a locked rewrite of the manifest: until `Stamped` it serves nothing, a
process that starts beside it may read an empty manifest, and one that is killed in
it may leave none.  `Refuse`, `ServeModels`, `ServeReplay`, `Forward` are the
branches of the handlers up to the first await; `UpstreamReplies` and
`UpstreamFails` resume a handler after it; `Commit` is the append and `index_put`,
whose first call reads the cassette and, beside another write, may find nothing or
raise after the transaction was written; `Collect` is the end of an answered
request; `Stop` ends a process at any time, in which case an
append in progress may have happened, may not, or may have emptied the
manifest.  Within one process the handlers run on one event loop, so while one
of them appends (a blocking call) the others wait: `Blocked`.

A client that disconnects does not cancel its handler (the handlers are plain
coroutines, not streams), so there is no action for it.

`ReplaySession` is what a user of replay may rely on, without index, handlers,
settings or HMAC keys.  A session is opened on the log as it is then (or on
nothing, while an append is under way); a client asks for a key and is told, once,
the body of the last entry that has it, or that there is none, or is refused; a
session that closes takes its clients' exchanges along.  `Proxy` implements it
(`ImplementsSession`): an open session is a running process in replay mode, opened
on what `rebuild_index` read, and an exchange is a request to it that is neither for
a live model nor for the list of models.  Everything else, the recording processes
above all, may do nothing but change the log.

### RunLifecycle

A member of `Proxies` is here the application of one `run_with_proxy` call;
every step of it is a step of `Proxy` or leaves `Proxy`'s variables alone, but
for one: `run_demo` removes the cassette it finds (`LaunchDemo`).

| action | code |
|---|---|
| `LaunchRun`, `LaunchDemo` | the two commands; a run takes a port from the command line, a demo takes any |
| `Begin` | `run_with_proxy` up to the start of the thread: `create_app` is `Start` |
| `PortKnown` | `_resolve_bound_port` |
| `SeesThread`, `GetsHealth` | the two halves of a round of `_wait_for_healthz`: is the thread alive, does anybody answer on the port |
| `GivesUp` | either deadline |
| `Interrupt`, `ChildExits` | the ways out of the `try` block; its `finally` sets `should_exit`, which is `ShouldExit` |
| `Join` | `thread.join(timeout=5)`, over or not, and what the demo does next: replay, record once more, or end |
| `Reap`, `Ends` | the process ends, and its daemon threads with it, wherever they are |
| `Bind`, `StopsListening`, `ThreadEnds` | uvicorn: the port is bound or taken; the listener closes; handlers are waited for |
| `ChildAsks`, `ChildHears` | the child's request goes to *whoever listens on the port it was told* |

Three places are deliberately loose: `Join` may find a thread that still runs,
whose handler may then append while the next run of the same demo is under way;
`Dropped` lets an answer get lost with its child; and an upstream that never
replies keeps a thread in `closing` for good.

### FreeKeys

`Gate`, `Get`, `Consume` and `Create`, `LoadForCreate` follow
`enforce_free_key` and `FreeKeyStore`; every save is `Open` (truncate) then
`Write`, and the call comes back in a step of its own (`Return`): a process killed
between the two has spent a unit for nothing (`wasted`).
Two overlapping writes are modelled at the granularity that matters: a
shorter text written over a longer one leaves its tail (`Overwritten`), which is
`Torn`.  Tokens print with one length and `Quota` is at most 9, so a text's
length is its number of keys.  A load of a torn or truncated file raises
(`JSONDecodeError`), which the gate does not catch.

### CassetteEdits, Migration

Every write is in its two renames: `...Retire` takes `cassette.json` away, and
`...Install` puts the new one in its place.  In between, and for good when the
writer is killed there (`severed`), a load gives an empty manifest.  `AppendTx`
takes the lock, writes the blobs and loads; `AppendRetire` and `AppendInstall`
follow under the same lock.  A tweak is `TweakLoad`, without the lock,
`TweakRewrite` (the request file), `TweakUnlinkRequest` and `TweakUnlinkResponse`
for each transaction of the suffix, and its write; a fork is `ForkLoad`,
`ForkMake`, `ForkCopyRequest` and `ForkCopyResponse` per transaction, between which
a tweak may unlink, and its write.  `Kept` and `Suffix` are the list arithmetic of
`tweak.py`.

`Migration` starts from a new cassette or from one of version 0 that was
imported with up to `MaxImports` transactions: with or without a valid hash, a
request file, a response file.  `MigratePlan` and `MigrateRead` are the two
lock-free loads, `MigrateHash` recomputes the hash of one transaction from its
request file, `EnsureRequest` and `EnsureResponse` create a missing blob, the dry
run ends at `PreviewEnds`, and `MigrateBackup`, `MigrateRetire` and `MigrateInstall` are
the copy to the backup and the write.  Every other call raises on version 0; an append
does so after it has written its blobs (`AppendRaises`).

### NestedSessions

`LinkBegin` … `InstallParent` are the loads of `link_child_cassette`, the digest and
the two writes, each in its two renames, beside appends in theirs.  A digest is the
file it was taken of.  A write holds the lock of its cassette (`draft` is the text that
waits for its second rename); no load does.  A load that finds no file gives an
empty manifest with an id drawn anew, or raises when the file goes as it is
opened, and a digest of a file that is not there always raises (`Raises`).  A link
or an append killed between its renames leaves a cassette without a file (`cut`).

### Hooks

`Install` … `SetHookDigests` is the installation, one script at a time;
`Record` then `RecordDecision` then `PrintDecision` is a recording hook, in the
order of the code (the line is written before the decision is printed);
`Replay`, `AskById`, `AskByTool` is a replaying hook, which reads the file once
by id and, failing that, once more by event and tool.
`Edit` is somebody editing a script.  `Kill` may leave part of a line, after
which the next line follows without a line break.

### Workspace

Directories of files, among them `llmreplay.yaml` and, in `SnapDir`, the archive
and the description of each snapshot.  `AgentEdits` writes and removes files.
`MarkLoad`, `MarkTruncate`, `MarkWrite` are mark-ignore and mark-live.
`CreateBegin`, `ReadNext`, `CreateArchive`, `ReadNext` again, `CreateWrite`,
`CreateDescribe` are `create_snapshot`, which reads every tracked file twice: once
for the hash and once for the archive.  `RestoreBegin` … `RestoreVerify` are
`restore_snapshot`: the checks, the archive read, one file at a time extracted,
one at a time read for the hash, the comparison.  A hash is the function from the
tracked names to their contents.  The constants `Home` (the workspace) and
`SnapDir` (`--dest`) may be one directory, as they are by default, or two.

## 3. Runs

Distinct states and times are for two workers.

| run | what is varied | states, time | shows |
|---|---|---|---|
| `store_core` | 2 writers, 1 reader, 2 transactions, 1 fingerprint, 1 hook digest, 1 cut-off call | 520 k, 55 s | `NoLostTransaction`, `NothingVanishes`, `ListedBlobsWhole`, the inductive `IInv`, `ReadsAreCurrent`, refinement `ImplementsLog` |
| `store_live` | 3 writers and 3 appends, 1 reader, 1 cut-off call, fairness | 21 k, 8 s | `CallsEnd` |
| `requests_matched` | 25 setups: 3 wire formats, headers, secrets, up to four differing fields, ignore lists with and without capitals, scrub lists; up to 4 blocks a run | 62 k, 105 s | `KeysFollowMeaning`, `NoSecretIsStored`, `OfflineKeysAgree`, `SuggestionSuffices` |
| `proxy_settings` | 2 processes, 2 requests in flight, 9 configurations, 4 requests, 4 replies, 2 starts, 2 sends, on an empty cassette or one recorded exchange | 1.7 M, 105 s | `Hermetic`, `NoWrongHit`, `AnswersFromStart`, `SameSettingsHit`, `StrictStoresNoSecret`, `AnsweredIsRecorded` |
| `runs_together` | 2 command lines, 3 proxies, 2 requests in flight, 3 starts, 3 sends, 4 ports, fairness | 250 k, 190 s | `ChildMeetsOwnProxy`, `DemoReplays`, `RequestsEnd`, `RunEnds`, refinement `ImplementsSession` |
| `keys_together` | 2 processes, 2 keys, quota 2, 4 requests, 1 kill | KKK | `NeverShortchanged`, `Accounted`, `TornForGood` |
| `edits_together` | 2 processes, up to 2 imported and 3 transactions in all, 3 edits, 1 kill | 4.2 M, 150 s | `EditedIsWhole`, `ForkIsWhole`, `AppendsStayListed`, `OrderKept`, `OriginalSurvives`, `MigrationKeepsKeys` |
| `nested_together` | 2 processes, 3 cassettes, 2 appends, 2 links, 1 kill | NNN | `DigestsNameParent`, `VerifyNotVacuous` |
| `hooks_together` | 2 processes, 3 kinds of call, 2 recordings, 2 replays, 2 installations, 1 edit, 1 kill | 2.2 M, 45 s | `EmittedIsForced`, `ReplaysAgree`, `AllowIsBacked`, `InstallHolds` |
| `workspace_together` | 2 processes, 3 directories, 2 files, 2 marks, 3 calls, 2 edits, 1 kill, snapshots in a directory of their own | 644 k, 40 s | `MarksKept`, `RestoreIsExact`, `RestoreWorks` |
| `store_cut_off` | one cut-off call | violation | `ReturnedStays` |
| `snapshot_default` | snapshots inside the workspace, no edit and no kill | violation | `ForcedRestoreWorks` |

### Bounds, and why they are enough

- *Store.*  A stale write takes two writers, and a lost transaction one append
  inside another's load and write; with two writers, a reader and two ids all
  pairs of steps of two calls meet, and the cut-off call hits each of
  them.  A second id is what `NoLostTransaction` and the empty
  manifest after a cut-off call need.  The theorems of section 4 lift
  the safety part to any number.  `store_live` has appends only: a run with
  infinitely many calls need not serve a given waiter (see fairness), and ids
  bound the number of appends.
- *Requests.*  The order of parallel blocks shows with two calls or two results;
  four blocks are a turn of two calls and a turn of two results, and the setups of
  three blocks add a plain message.  The recorded
  run comes in the order of the ids and the live one in every order, so each
  permutation is compared with the sorted one.  The large setups carry
  noise at every depth (header, body, tool argument, null, thinking
  block; of the calls of a turn the first may be noisy); the small ones differ from
  each other in one header, one field or one
  secret, with default, ignoring and path-scrubbing settings; in four of them the
  ignore list has capitals, where a field and a header are looked up differently.
  Two differ in four fields of the body, and with the conversation in five: more
  than the three `why` names at once.  A path of
  `ScrubsTeam` goes through a list index that may not be there.
- *Proxy.*  Two starts are a recording and its replay, one after the other or
  beside each other, or two recorders; two requests in flight are two handlers of
  one process or of two; the exchange that may have been recorded before (by a ci
  recorder, `InitRecorded`) is what a replay can answer from while another process
  appends, and what a second response under its key competes with.  The replies
  differ, and one of them is no object and has a secret, so a response under another
  request's key, a lost one, or one that is not wrapped and scrubbed shows.  The
  configurations are those of `MCProxy`: recording with the development and ci
  profiles, with and without the HMAC key, an ignore list and free mode; replaying
  likewise, live with and without `--allow-live` and an upstream.  A third start
  adds a process whose steps are again those of the two; the theorems are for any
  number.  The action constraint `FirstNames` only says which of the idle processes
  and free slots is used next.  `runs_together` drops settings and replies, and
  adds commands, threads and ports.
- *Runs.*  Three starts are a demo's failed recording, its second recording and
  its replay, or one of these beside a run of another process; `MaxEffort` (4)
  bounds the launches and starts together.  Ports are the default one, which
  both runs may want, and three the system picks from.
- *Keys.*  Two processes are enough for a lost update and a torn file, quota 2
  separates "last unit" from "none left", two tokens give texts of
  two lengths.
- *Edits.*  Three transactions give a suffix of two, hence a kill between its
  files; three edits are a dry run, a migration and a tweak, or a tweak, a fork
  and a tweak.  The imported transactions are of three kinds: with an outdated
  hash and no response, with no request, with neither hash nor request.  One kill
  meets every step of every call, the moments between two renames included.
- *Nested.*  Three levels are what the depth-first contract is about; two links
  are one after the other or beside each other, two appends meet the renames of
  both writes of a link.
- *Hooks.*  Two events are all there are; two installations give both modes in
  either order; two recorded lines allow the same id twice and a partial line
  followed by a whole one.
- *Workspace.*  Three calls are two snapshots with one id and a restore, or a
  snapshot, a mark and a restore that brings back an older `llmreplay.yaml`; two
  edits change a file between hash and archive, and remove it or another.

Invariants hold under the symmetry of processes, ids, bodies and tokens;
symmetry is not used in runs with liveness properties.  Deadlock is not an
error in runs that end when their bounds are used up (`CHECK_DEADLOCK FALSE`):
there the system may really stop.  The three runs of the store check it
(a lock-free read is always possible for an idle reader).

Properties that need a qualification name it: `~raced` or `alone` (no two calls
of this kind overlapped), `~cut` or `kills = 0` (none was cut off), `~severed`
(no call was cut off between the two renames; in `runs_together` also: no demo
removed a cassette that was in use).  Those runs do let calls overlap and be
cut off; what is claimed *whatever happens* is stated without the qualification:
`NothingVanishes`, `ListedBlobsWhole`, `NeverShortchanged`, `TornForGood`,
`OrderKept`, `ReplaysAgree`, `AllowIsBacked`, `AnswersFromStart`, `NoWrongHit`,
`Hermetic`, `StrictStoresNoSecret`, `ChildMeetsOwnProxy`.  Two properties claim
nothing of the moment between two renames, and of what a writer leaves that dies in
it, because the code promises nothing there: `AppendsStayListed` and
`VerifyNotVacuous`.

### Fairness

- `CassetteStore!FairSpec`: weak fairness of `Advance(p)` for each process: the
  operating system runs every process that can run.  Nothing is assumed about
  the order in which waiters of a `flock` get it, hence no strong fairness on
  `Acquire`; `CallsEnd` holds because only finitely many calls are made.
- `RequestsEnd` states its own assumption: weak fairness of `Progress(s)` for each
  request, that is, its handler is scheduled, and the HTTP client's timeout raises
  in the end (`UpstreamFails`).  Nothing makes the upstream
  reply, a client send or collect, or a handler refuse.
- `RunLifecycle!FairLifecycle`: weak fairness of `Advance(m)` and of `GivesUp(m)`
  for the main thread of each command: it is scheduled, and its deadlines
  pass.  Nothing is assumed of the server thread, its handlers, the child or the
  upstream: `RunEnds` is about a main thread that must not depend on them.

## 4. Proofs

Eight modules hold proofs, checked by TLAPS with Z3, Zenon and the temporal
prover.  Nothing is assumed but the named assumptions of the modules on their
constants (`NullsAreFresh`, `StoreAssumption`, `ProxyAssumption`,
`HandlerAssumption`, `LifecycleAssumption`, `FreeKeysAssumption`, `EditsAssumption`,
`MigrationAssumption`, `NestedAssumption`, `HooksAssumption`,
`WorkspaceAssumption`): values that mean "nobody" or "nothing" are not members of
the sets they stand beside, and bounds are numbers.  TLC evaluates them in the
runs of those modules.  Every proof has the same shape: an inductive invariant,
one lemma per action or group of actions, and the property as a consequence; but
for those about the sorts, which are facts about operators, for any lists and any
texts.  One theorem, `DemosReplay`, has a hypothesis of its own, which says what the
constants of a demo are.

### The store (`CassetteStore_proof`)

`StoreInvariant` is `Spec => []IInv`.  The properties are not inductive by
themselves: that a write is not stale says nothing about why.  `IInv` adds

- `LockInv` – a process is between acquiring and releasing exactly when it
  holds the lock, so there is one at most;
- `CallInv` – a process inside a call has a call;
- `LoadedInv` – what the lock holder loaded is what `cassette.json` holds, until
  it is retired, and is among the backups (or was empty) after that;
- `FreshInv` – the ids of calls under way are drawn once and are in no manifest
  on disk before they are installed;
- `BlobInv` – which of its two files the lock holder has written, by its place.

From the invariant follow `TypeCorrect`, `WritesAreNeverStale`,
`TransactionsAreKept` (a returned transaction is listed, until a call is cut off
between the two renames), `TransactionsStayOnDisk` (and is in a manifest or a
backup even then), `BlobsComeFirst` and `ReadsSeeReturned` (a lock-free read that
finds a manifest finds every transaction returned before).

`StoreImplementsLog` is the refinement.  The abstract log is
`Committed`: the manifest on disk, and between the two renames the manifest the
lock holder loaded.  The abstract phase of a process is `Phase`.  `Install`
maps to `Apply`, `Release` to `Return`, `Abort` to `CutOff` or a stutter, and
every other step of a writer to a stutter.  Because `ReadFile` may find no
file, a lock-free read maps to a `Read` that found nothing, which the log allows
only while a call is under way; the lemma `AbsentMeans` shows one is, or that
nothing was ever committed.

### The proxy (`Proxy_proof`) and its commands (`RunLifecycle_proof`)

`ProxyInvariant` is `Spec => []IInv`, for any number of processes, requests in
flight and configurations.  Beside types it says what start-up established
(`StartedWell`: legal settings; the shared key is key 0; the index of a replay is
that of the cassette it was given), that logs hold what was appended (`Lists`),
and of each handler what its place implies (`HandledWell`) and where its answer
came from (`AnsweredWell`).  `LastWinsHit` is the fact about `rebuild_index` on
which the answers rest: the index has a key exactly when the log has, and then
the body of the last transaction with it; that a last one exists is a
well-founded descent.  `ReplayIsHermetic`, `HitsAreRight`, `ReplaysAreStable`,
`RecordingsAreFound`, `SecretsStayOut` and `AnswersAreKept` follow.  The arguments
worth reading are those of `HitsAreRight` (every transaction carries the key of
its *own* request under its own settings, so equal keys mean equal text and equal
secret, or equal placeholders under one key) and of `StopStep` (what a process
that is cut off inside an append, or inside the stamp of its test stack, may
leave).  `AnswersAreKept` compares what the client was given with what is
stored for it: the value is the same, the one is neither wrapped nor scrubbed, the
other both, and it is under the key of the client's own request.

`LifecycleInvariant` adds the invariant of the commands (`JobWell`, `TriesWell`)
to the one of the proxy.  Each step of `RunLifecycle` is a step of `Proxy`, for
which the lemma `ProxyStep` is reused as it is, or the demo's fresh cassette
(`FreshCassette`).  `LifecycleReplaysStable`, `LifecycleKeepsAnswers` and
`LifecycleKeepsProxyPromises` carry the guarantees of the proxy over to processes
that share threads, ports and a cassette that a demo removes; `ChildrenMeetTheirProxy` rests on the port being
known only once the own server listens on it (demo), or being the own server's
as soon as that serves (run).

`ReplayIsASession` and `CommandsImplementSession` are the refinement
(`Spec => ImplementsSession`).  The mapping is the last section of `Proxy`: `OpenedOn`
(each `Replayers` process and its `source`), `Exchanges` (each slot of `Asking`, with
its key and what was found), `Appending`.  `Start` in replay mode maps to `Open`,
`Stop` of a replay to `Close`, `Send` to `Ask`, `Refuse` and `ServeReplay` to `Reply`,
`Collect` to `Leave`; the steps of handlers that are not `Asking` change no exchange
(`UnseenStep`) and map to `Recording`.  Three facts carry it: the index answers as
`Found` does on the log it was built of (`FoundIs`), no handler of a replay appends,
so that `Close` leaves the log alone, and no handler belongs to a process that is
down, so that `Open` leaves the exchanges alone.  The refinement says more than
`AnswersFromStart`: *which* step may change what a session was opened on, the key
of a request or its answer, that a reply is given once and stands until it is
collected, and that no step of one process is a step of another's session.  Under
the commands there is one more step: a demo that removes the cassette under open
sessions is a `Recording` too (`ProxyStepOrRemoval`).

`DemosReplay` is about a demo that runs alone.  Its hypothesis `AgentAsks(r)` is what
`cli/demo_cmd.py` fixes: the agent sends one request, both configurations are of
the local profile with the HMAC key that `ensure_local_hmac` sets and without
`mark-live`, and they ignore the same field.  `DemoInv` counts: `Pending` is the
number of appends that may still come, of handlers of *any* recording proxy of the
demo, those that did not stop within five seconds included, and of the request
that is yet to be made; with the transactions there are, it never exceeds the number
of recordings (`RecordsWell`).  A step that appends, asks or loses a handler keeps or
lowers the sum, and only a second recording raises the bound.  After a first
recording that succeeded nothing is pending, so the cassette the replay was
opened on has its one transaction (`ReplaysWell`).

### The order of parallel tool blocks (the last sections of `Proxy_proof`)

That a key does not depend on the order in which parallel calls and results came
rests on the sorts of `core/match.py`, and the run compares two or three blocks.
The theorems are for lists of any length and any texts.

- `SortIsStable` – the sort gives a permutation of the list, in the order of the
  keys, equal keys as they came.
- `ArrivalOrderIsLost` – of two lists in which the same items came in different
  orders the sort makes one, provided that items with the same key are the same.
  The proviso is the code's: two results with one id keep the order of arrival.
- `SortingKeepsBlocks` – the converse: lists that are one when sorted, by whatever
  keys, have the same items, each as often.  Sorting does not make one conversation
  of two that differ in more than order.
- `RunsAreSorted`, `ArrivalOrderInRunsIsLost` – the same for runs: nothing leaves
  its run, nothing outside a run moves, and a permutation within runs is lost.
- `ArrivalOrderOfCallsIsLost` – the same for the blocks of an Anthropic message, in
  whatever order the calls came among themselves *and among the other blocks*, which
  have to keep their own order.

The argument: texts are totally ordered (`TextsAreOrdered`, `PrecedesIsTransitive`,
by the first place at which two differ), so places are, ties broken by the place;
the number of places that go before one grows along that order, hence places map to
places one to one (`SortedPlacesAreAll`).  Two orders that both follow the keys agree
on the key at each place (`OneSortedOrder`): if one had a smaller key at the place
`k`, at least `k` items would have a key that small, and by the other fewer than
`k`.  For runs it is applied to the place at which the run of an item begins; and
`NumbersDoNotMatter` reduces the sort of a message to one with distinct keys.  What is
*not* proved is that `MatchKey` calls these sorts at every depth; `KeysFollowMeaning`
checks that.

### The free keys (`FreeKeys_proof`)

`KeysInvariant` adds to `NeverShortchanged` that every copy a process holds is
*honest* (`CopiesHonest`: what it says is spent was let through, or spent on a call
that was killed after its write, but for the request it is letting through itself).
The argument is monotonicity: `admitted` and `wasted` never decrease, a copy was honest when it was loaded, and it stays so however
late it is written back; a lost update can only give units back.
`ClientsAreNotShortchanged` follows.  `BooksBalance` (`Accounted`) is by `BooksInv`:
while calls do not overlap one process is in a call, the file and the copy it
holds balance, and the file it writes is empty, so that nothing is left behind
its text.  `TornStaysTorn` is an action property: once nobody is writing, every
call reads the torn text before it would write.

### Migration and edits (`Migration_proof`)

`ListsInvariant` says that the manifest, the fork's and *every copy an edit has
loaded* list what was recorded so far, in order: this is what makes `OrderKept`
inductive when stale copies are written back.  `OrderIsKept` holds whatever
overlaps and is cut off.  `ImportsSurvive` (`OriginalSurvives`) is by
`SurvivesInv`: on version 0 nothing but a migration can write, and unless two
overlap the backup is taken of the imported manifest before the version changes.

`AppendsAreKept` (`AppendsStayListed`) lets calls race, and be killed anywhere but
between two renames.  `KeptInv` says of the
manifest, and of *every copy* a tweak, a migration or an append holds, that it
lists what is to stay: an append counts as kept only when it returns while no edit
holds a copy, so a copy that is loaded later has it, and one that was loaded before
keeps it from counting.  Between the renames there is no list, so the invariant is
about the copy of the one writer that holds the lock.  `MigrationGivesKeys`
(`MigrationKeepsKeys`, an action property) is by `KeysInv`: the request files are
the imported ones until a migration that is no dry run creates blobs, and the copy
it holds has the recomputed hash up to the place it has come to.
`EditedCassetteIsWhole` and `FinishedForkIsWhole` are by `WholeInv` (with the types of
`FilesTyped`): files belong to what is listed or to an append that raised, each
edit under way has changed what its phase says (`GoesWell`, with a part for tweaks,
forks and migrations), and but for a suffix that is being unlinked every listed
transaction has its two files and, unless a migration made the file up, the key of
its request.

### Nested sessions, hooks (`NestedSessions_proof`, `Hooks_proof`)

`DigestsName` and `LinkedHaveDigests`: the first by an invariant on the one link
under way (`NamesInv`), the second, by `DigestsInv`, without any assumption on
overlap: every session that is ever written to a parent has a digest, whoever holds
it in a copy or in a draft between two renames loaded it from there, and only a link
as a child, or a writer that dies between its renames, removes it.  `ReplaysAreAlike` and `ReplaysFailClosed` rest on `decisions.jsonl` growing
at its end only, so that the first line with an id stays the first
(`AnsweredByFirst`).  `PrintedIsReplayed` (`EmittedIsForced`) needs `IdsOnce`: while no
id is used twice, a printed line is in the file, or it was glued to a torn one,
and then no replay answers any more.  `InstalledHooksVerify` (`InstallHolds`) is by
`InstallInv`: while installations do not overlap there is one at most, what it has
written is there (`HasWritten`; an edit meanwhile counts as an overlap), and the digests on record are of
one mode, which is why hooks that verify are of one mode wherever an installation
was cut off.

### The workspace (`Workspace_proof`)

`WInv` says what a call that nothing disturbed holds (`HoldsOK`), that of two calls
under way neither is alone (`AloneOK`) and that a description says what it was taken
of (`DescribedOK`).  `MarksStay` and `RestoresAreExact` follow, wherever snapshots
are kept.  `RestoreIsExact` compares with what the restore *read* (`goal`): a first
statement of it, with the last snapshot that was taken, failed in the proof, for a
restore that brings back the description of an older snapshot.

`QuietSnapshotsRestore` (`RestoreWorks`) is by `QInv`: the archive of a snapshot that
nothing disturbed holds the files its description was taken of (`ArchivesOK`), a
creation that is alone holds at each phase what the workspace holds (`TakesOK`), and
a restore that is alone has brought back what it has extracted so far and has read
back what is there (`RestoresOK`); a mismatch then means a tracked file that the
snapshot does not have.

### Model-checked only

- Liveness (`CallsEnd`, `RequestsEnd`, `RunEnds`): the prover has no support for
  fairness.
- `KeysFollowMeaning`, `NoSecretIsStored`, `OfflineKeysAgree`, `SuggestionSuffices`:
  `Matching` and `Scrubbing` walk trees with recursive operators, which the prover's
  SMT backend does not take, and what a recursion computes for every input needs an
  induction it cannot do.  The part without recursion, the sorts, is proved.

Every other property of a passing run is stated by a theorem.

## 5. Where the code and its documentation disagree

Two runs end in a counterexample, each of a sentence of the repository:

- `store_cut_off` – "atomic manifest writes" (`store/cassette.py:60`): a writer
  cut off between the two renames leaves only a backup, which nothing reads; the
  next append starts an empty manifest.  The blobs and the backup stay
  (`NothingVanishes`).  A single `os.replace` would avoid it.
- `snapshot_default` – "`manifest_hash` ... restore MUST match"
  (`docs/concepts/snapshots.md:11`): the default `--dest` is inside the default
  `--workspace` and not on the denylist, so a snapshot is part of what the next
  hash covers, and a restore in place, forced or not, always ends in a mismatch,
  after it has overwritten the files.

Other promises hold only under a condition that a property states, and others are
plain readings of the code that the models reproduce:

- *Store.*  A `load_manifest` without the lock that looks between the two renames
  sees an empty manifest or raises (`Atomically replace cassette.json`,
  `store/cassette.py:93`); `ReadsAreCurrent` is about reads that find a manifest.
- *Free keys.*  Two proxies may let more requests through than a key's quota; a
  call that reads between the truncation and the write raises.
- *Edits.*  An append between the load and the write of a tweak, a link or a
  migration is no longer listed, and a writer killed between its renames leaves
  nothing listed, be it an append, a tweak, a fork or a migration; `tweak` and `migrate` hash with the default ignore
  list whatever `llmreplay.yaml` says.
- *Migration.*  `--dry-run` ("Preview migration without writing",
  `cli/main.py:857`) creates the missing blobs; the migration that follows takes
  the empty object for the request and replaces a valid hash.  So does a second
  migration after one that was interrupted.  Two that overlap overwrite the
  backup.  The key of a request that was scrubbed for the *name* of a header or a
  field changes, because the migration scrubs the placeholder again.
- *Why* does not scrub, so it calls a request with a secret in it a miss.  The
  command it prints names three fields at most, so it may have to be asked again;
  and `mark-ignore` does not change the keys of what was recorded: when the recording
  has one of the fields, as it has when its value differs, the request still misses
  until it is recorded again.  `docs/troubleshooting.md:7` gives the command as the
  fix of a miss.  `SuggestionSuffices` states both.
- *Ignore lists.*  Names are lower-cased for the lookup and the list is not: an
  entry with capitals matches only itself, and a header never (`KeysFollowMeaning`
  with the settings `IgnoresCapitals`).  Ignored names are
  dropped at every depth, and a field that is null is as good as absent: inside the
  tool arguments of Anthropic too, which are an object, but not inside those of chat
  completions and responses, which are a text.
- *Marks.*  A mark on the ignore list changes the keys of later requests, not
  those of what was recorded; and the `llmreplay.yaml` that is marked by default is
  read by a proxy only when it is given with `--config`.
- *Nested sessions.*  With three levels, linking from the top makes the first
  digest stale, and linking from the bottom empties the middle session's list of
  children ("the digest registered on the parent is final",
  `session/nested.py:72`).  A `verify_children` between the renames of a write to
  the parent finds nothing wrong, for want of a session.
- *Hooks.*  When ids drift between runs, the first line of a tool answers all its
  calls, so a recorded denial may be replayed as an allow (`docs/SPEC.md:94`).
- *Run.*  On a fixed port, the health check of a run may be answered by another
  run's proxy, and the child then talks to that one's cassette until its own proxy
  has bound the port or failed to (`ChildMeetsOwnProxy` states what is left).
- *Demo.*  The second recording is made whenever the agent failed, also after an
  interrupt and also when the first attempt had been recorded.
- *Validate.*  Its finding of an outdated schema cannot occur: the manifest does not
  load before.

## 6. What is not modelled

- *Power loss.*  The manifest is synced before it is renamed and the blobs are
  not, so `ListedBlobsWhole` is about killed processes and failing calls, not
  about a lost page cache.
- *Regular expressions inside strings.*  A string is a secret as a whole or not at
  all; the query string, in which the scrubber has its own rule, is empty in the
  events of the proxy.  Collisions of SHA-256 are not considered.
- *Scrubbing of responses* is the scrubbing of requests once more; `Proxy` has its
  result as `secret`.
- *Profiles.*  The merge of defaults, profile and `llmreplay.yaml` has no state;
  what it gives is the constants `Configs` and `Setups`.
- *Doctor, bundle* report and change nothing; *validate* is `MissingBlobs` only.
- *Sticky write-back and templates*: one field of one file, sequentially.
- *In-process transports and the pytest plugin* build the application of `Proxy` in
  the caller's process; nothing else changes.
- *Adapters, SSE synthesis, route lists, CLI parsing, docs generation*: formatting.
- *Test stack and parity harness*: probes of other services, and fixtures.
- Inside modelled components: header forwarding and unknown paths (`Proxy`); hook
  decisions copied by a fork, the lineage graph and the dotted path of a tweak
  (`CassetteEdits`); malformed input of a hook, which is answered `deny` and touches
  nothing, the `LLMREPLAY_HOOK_MODE` override, and reasons (`Hooks`); archive
  members outside the workspace, which `restore_snapshot` refuses (`Workspace`).

## 7. Plan

Done: the modules and the proofs of sections 2 and 4.  Left:

- `CassetteStore` with unsynced blobs and power loss: a blob has a content in the
  page cache and one on disk.
