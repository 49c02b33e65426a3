------------------------------- MODULE Hooks --------------------------------
(***************************************************************************)
(* The Claude Code hooks of hooks/: "llmreplay hooks install" writes two   *)
(* scripts and records their digests in the cassette; the agent runs a     *)
(* script, in a process of its own, for each tool call, and several at     *)
(* once.  A recording hook appends its decision to hooks/decisions.jsonl   *)
(* and prints it; a replaying hook prints a decision it finds there.       *)
(*                                                                         *)
(* A script is its body, and SHA-256 is injective, so a digest is a body   *)
(* as well.  A line of decisions.jsonl is written in one piece unless the  *)
(* process is cut off; the next line then follows it without a line break. *)
(***************************************************************************)
EXTENDS Naturals, Sequences, SequencesExt

CONSTANTS
    Procs,          \* processes: hooks and "hooks install"
    HookIds,        \* ids the agent gives to hook calls
    Tools,          \* names of tools
    Requests,       \* the hook calls the agent makes
    Live,           \* the tools mark-live lists in llmreplay.yaml
    Forces,         \* the decisions LLMREPLAY_HOOK_FORCE is set to
    NoRequest,      \* a process that answers no request
    TornLine,       \* a line of decisions.jsonl that is not JSON
    MaxRecords,     \* bound: how many hooks are run to record
    MaxReplays,     \* bound: how many hooks are run to replay
    MaxInstalls,    \* bound: how many times hooks are installed
    MaxEdits,       \* bound: how many times a script is edited by hand
    MaxKills        \* bound: how many processes are cut off

Events == {"PreToolUse", "PostToolUse"}
Kinds == {"allow", "deny", "error"}
Modes == {"record", "replay"}
Bodies == Modes \cup {"none", "torn", "edited"}
Line(r, kind) == [id |-> r.id, event |-> r.event, tool |-> r.tool, decision |-> kind]
Answer(r, kind, by) ==
    [id |-> r.id, event |-> r.event, tool |-> r.tool, decision |-> kind, by |-> by]
Lines == [id : HookIds, event : Events, tool : Tools, decision : Kinds]

ASSUME HooksAssumption ==
    /\ Requests \subseteq [id : HookIds, event : Events, tool : Tools]
    /\ Live \subseteq Tools /\ Forces \subseteq Kinds
    /\ NoRequest \notin Requests /\ TornLine \notin Lines
    /\ {MaxRecords, MaxReplays, MaxInstalls, MaxEdits, MaxKills} \subseteq Nat

VARIABLES
    scripts,        \* the body of the script of each event, "none" at first
    digests,        \* the digest of each event in the cassette
    decisions,      \* the lines of decisions.jsonl
    proc,           \* of each process: what it is doing
    emitted,        \* history: the lines recording hooks have printed
    forced,         \* history: the lines replaying hooks have printed
    reused,         \* history: two recording hooks were given one id
    raced,          \* history: a script was written while hooks were installed
    records, replays, installs, edits, kills

vars == <<scripts, digests, decisions, proc, emitted, forced, reused, raced,
          records, replays, installs, edits, kills>>
bounds == <<records, replays, installs, edits, kills>>

NoDigests == [e \in Events |-> "none"]
Idle == [phase |-> "idle", mode |-> "record", request |-> NoRequest,
         decision |-> "deny", digests |-> NoDigests, todo |-> << >>]

Init ==
    /\ scripts = NoDigests
    /\ digests = NoDigests
    /\ decisions = << >>
    /\ proc = [p \in Procs |-> Idle]
    /\ emitted = {} /\ forced = {}
    /\ reused = FALSE /\ raced = FALSE
    /\ records = 0 /\ replays = 0 /\ installs = 0
    /\ edits = 0 /\ kills = 0

Installing(p) == proc[p].phase \in {"write", "digest", "header"}
Goes(p, phase) == proc' = [proc EXCEPT ![p].phase = phase]
Answers(p, request, kind, by) ==
    /\ forced' = forced \cup {Answer(request, kind, by)}
    /\ proc' = [proc EXCEPT ![p] = Idle]

-----------------------------------------------------------------------------
(* hooks install *)

Install(p, mode) ==
    /\ proc[p] = Idle
    /\ installs < MaxInstalls
    /\ installs' = installs + 1
    /\ raced' = (raced \/ \E q \in Procs : Installing(q))
    /\ proc' = [proc EXCEPT ![p] = [Idle EXCEPT !.phase = "write", !.mode = mode,
                                    !.todo = <<"PreToolUse", "PostToolUse">>]]
    /\ UNCHANGED <<scripts, digests, decisions, emitted, forced, reused,
                   records, replays, edits, kills>>

\* write_text gives the script the body of the mode, whatever it was.
Written(body, mode) == mode

WriteScript(p) ==
    /\ proc[p].phase = "write"
    /\ scripts' = [scripts EXCEPT ![Head(proc[p].todo)] = Written(@, proc[p].mode)]
    /\ Goes(p, "digest")
    /\ UNCHANGED <<digests, decisions, emitted, forced, reused, raced, bounds>>

\* digest_script reads the file back.
DigestScript(p) ==
    LET event == Head(proc[p].todo) rest == Tail(proc[p].todo) IN
    /\ proc[p].phase = "digest"
    /\ proc' = [proc EXCEPT ![p] =
                  [@ EXCEPT !.digests[event] = scripts[event],
                            !.todo = rest,
                            !.phase = IF rest = << >> THEN "header" ELSE "write"]]
    /\ UNCHANGED <<scripts, digests, decisions, emitted, forced, reused, raced, bounds>>

\* (mutant) A digest that is recorded is kept.
MergedUnder(old, new) == [e \in Events |-> IF old[e] = "none" THEN new[e] ELSE old[e]]

\* The new digests are merged over the recorded ones.
Merged(old, new) == [e \in Events |-> IF new[e] = "none" THEN old[e] ELSE new[e]]

\* set_hook_digests, under the lock of the cassette.
SetHookDigests(p) ==
    /\ proc[p].phase = "header"
    /\ digests' = Merged(digests, proc[p].digests)
    /\ proc' = [proc EXCEPT ![p] = Idle]
    /\ UNCHANGED <<scripts, decisions, emitted, forced, reused, raced, bounds>>

\* Someone edits a script.
Edit(event) ==
    /\ scripts[event] \in Modes
    /\ edits < MaxEdits
    /\ edits' = edits + 1
    /\ scripts' = [scripts EXCEPT ![event] = "edited"]
    /\ raced' = (raced \/ \E p \in Procs : Installing(p))
    /\ UNCHANGED <<digests, decisions, proc, emitted, forced, reused,
                   records, replays, installs, kills>>

\* What "hooks verify" finds in ci and strict: every digest recorded is that
\* of a script, and every script has its digest recorded.
Verifies == \A e \in Events : scripts[e] = digests[e]

-----------------------------------------------------------------------------
(* run_hook_main *)

\* A recording hook was given the id before.
IdInUse(id) ==
    \/ \E line \in Range(decisions) : line # TornLine /\ line.id = id
    \/ \E p \in Procs : proc[p].phase = "append" /\ proc[p].request.id = id

\* The agent runs the script of an event, which records or replays.
Record(p, request) ==
    /\ proc[p] = Idle
    /\ scripts[request.event] = "record"
    /\ records < MaxRecords
    /\ records' = records + 1
    /\ reused' = (reused \/ IdInUse(request.id))
    /\ \E kind \in Forces \cup {"allow"} :
          proc' = [proc EXCEPT ![p] = [Idle EXCEPT !.phase = "append",
                                  !.request = request, !.decision = kind]]
    /\ UNCHANGED <<scripts, digests, decisions, emitted, forced, raced,
                   replays, installs, edits, kills>>

\* A tool that is marked live is allowed, and no decision is looked up.
Replay(p, request) ==
    /\ proc[p] = Idle
    /\ scripts[request.event] = "replay"
    /\ replays < MaxReplays
    /\ replays' = replays + 1
    /\ \/ /\ request.tool \in Live
          /\ Answers(p, request, "allow", "live")
       \/ /\ request.tool \notin Live
          /\ proc' = [proc EXCEPT ![p] = [Idle EXCEPT !.phase = "byId",
                                          !.request = request]]
          /\ UNCHANGED forced
    /\ UNCHANGED <<scripts, digests, decisions, emitted, reused, raced,
                   records, installs, edits, kills>>

\* The file after a write that appends to it.
Appended(line) ==
    IF decisions # << >> /\ Last(decisions) = TornLine
    THEN decisions ELSE Append(decisions, line)

\* record_decision
RecordDecision(p) ==
    /\ proc[p].phase = "append"
    /\ decisions' = Appended(Line(proc[p].request, proc[p].decision))
    /\ Goes(p, "print")
    /\ UNCHANGED <<scripts, digests, emitted, forced, reused, raced, bounds>>

\* (mutant) The id is not compared.
SameIdIgnored(request) ==
    {i \in DOMAIN decisions : decisions[i].tool = request.tool}

\* The lines a request may be answered from.
SameId(request) == {i \in DOMAIN decisions : decisions[i].id = request.id}
SameTool(request) ==
    {i \in DOMAIN decisions : /\ decisions[i].event = request.event
                              /\ decisions[i].tool = request.tool}

\* (mutant) The last of them is taken.
LatestOf(indices) == decisions[CHOOSE i \in indices : \A j \in indices : j <= i]

\* The first of them is taken.
FirstOf(indices) == decisions[CHOOSE i \in indices : \A j \in indices : i <= j]

Unreadable == TornLine \in Range(decisions)

\* (mutant) What nobody recorded is allowed.
DefaultAllow == "allow"

\* fail_closed
FailClosed == "deny"

\* First load_decisions of replay_decision: the line with the id of the
\* request.  A line that is not JSON makes it raise, and nothing is printed.
AskById(p) ==
    LET request == proc[p].request
        found == SameId(request)
    IN
    /\ proc[p].phase = "byId"
    /\ \/ Unreadable /\ proc' = [proc EXCEPT ![p] = Idle] /\ UNCHANGED forced
       \/ ~Unreadable /\ found # {} /\ Answers(p, request, FirstOf(found).decision, "id")
       \/ ~Unreadable /\ found = {} /\ Goes(p, "byTool") /\ UNCHANGED forced
    /\ UNCHANGED <<scripts, digests, decisions, emitted, reused, raced, bounds>>

\* Second load_decisions: a line with the event and the tool of the request.
AskByTool(p) ==
    LET request == proc[p].request
        found == SameTool(request)
    IN
    /\ proc[p].phase = "byTool"
    /\ \/ Unreadable /\ proc' = [proc EXCEPT ![p] = Idle] /\ UNCHANGED forced
       \/ ~Unreadable /\ found # {} /\ Answers(p, request, FirstOf(found).decision, "tool")
       \/ ~Unreadable /\ found = {} /\ Answers(p, request, FailClosed, "none")
    /\ UNCHANGED <<scripts, digests, decisions, emitted, reused, raced, bounds>>

\* A recording hook prints its decision.
PrintDecision(p) ==
    /\ proc[p].phase = "print"
    /\ emitted' = emitted \cup {Line(proc[p].request, proc[p].decision)}
    /\ proc' = [proc EXCEPT ![p] = Idle]
    /\ UNCHANGED <<scripts, digests, decisions, forced, reused, raced, bounds>>

\* A process is cut off, in the middle of what it writes or between writes; a
\* replaying hook writes nothing.
Kill(p) ==
    /\ Installing(p) \/ proc[p].phase \in {"append", "print"}
    /\ kills < MaxKills
    /\ kills' = kills + 1
    /\ proc' = [proc EXCEPT ![p] = Idle]
    /\ \/ UNCHANGED <<scripts, decisions>>
       \/ /\ proc[p].phase = "write"
          /\ scripts' = [scripts EXCEPT ![Head(proc[p].todo)] = "torn"]
          /\ UNCHANGED decisions
       \/ /\ proc[p].phase = "append"
          /\ decisions' = Appended(TornLine)
          /\ UNCHANGED scripts
    /\ UNCHANGED <<digests, emitted, forced, reused, raced, records, replays,
                   installs, edits>>

Hook(p) ==
    \/ RecordDecision(p)
    \/ AskById(p)
    \/ AskByTool(p)
    \/ PrintDecision(p)

Installation(p) == WriteScript(p) \/ DigestScript(p) \/ SetHookDigests(p)

Next ==
    \/ \E event \in Events : Edit(event)
    \/ \E p \in Procs :
          \/ \E mode \in Modes : Install(p, mode)
          \/ Installation(p)
          \/ \E request \in Requests : Record(p, request) \/ Replay(p, request)
          \/ Hook(p)
          \/ Kill(p)

Spec == Init /\ [][Next]_vars

-----------------------------------------------------------------------------
(* Properties *)

\* A recorded decision is forced: what a recording hook printed for an id is
\* what every replaying hook prints for that id, however hooks interleave or
\* are cut off, when the agent gave no two recorded calls one id and the line
\* was there when the replaying hook looked for it.
EmittedIsForced ==
    ~reused =>
        \A line \in emitted, answer \in forced :
            answer.id = line.id /\ answer.by = "id"
            => answer.decision = line.decision

\* Replays agree: two answers that were found by the same id are the same,
\* whatever was recorded between them and however often the id was used.
ReplaysAgree ==
    \A a, b \in forced :
        a.id = b.id /\ a.by = "id" /\ b.by = "id" => a.decision = b.decision

SameCall(a, b) == a.event = b.event /\ a.tool = b.tool

\* A replay fails closed: it allows a tool only if the tool is marked live or
\* a recording hook had allowed that call, or that tool at that event.
AllowIsBacked ==
    \A answer \in forced :
        answer.decision = "allow" =>
            \/ answer.tool \in Live
            \/ \E i \in DOMAIN decisions :
                  /\ decisions[i] # TornLine
                  /\ decisions[i].decision = "allow"
                  /\ decisions[i].id = answer.id \/ SameCall(decisions[i], answer)

AtRest == \A p \in Procs : ~Installing(p)

\* If no installation overlaps another: installed hooks verify until somebody
\* edits one or an installation is cut off, however often they were installed
\* before and in which modes; and wherever one was cut off, hooks that verify
\* are of one mode, so that a recording hook never runs beside a replaying one
\* behind "hooks verify".
InstallHolds ==
    ~raced =>
        /\ AtRest /\ kills = 0 /\ (\A e \in Events : scripts[e] # "edited") => Verifies
        /\ Verifies => scripts["PreToolUse"] = scripts["PostToolUse"]

=============================================================================
