------------------------------ MODULE FreeKeys ------------------------------
(***************************************************************************)
(* The free keys of teststack/keys.py and the gate of proxy/free_auth.py.  *)
(* One JSON file holds every key with its remaining quota.  Processes (the *)
(* proxies of a machine and "llmreplay keys create") load it, change their *)
(* copy and write it back, with no lock and with write_text: the file is   *)
(* truncated when it is opened and the text follows in a second call.      *)
(*                                                                         *)
(* Within a process the gate runs without an await, so a process has one   *)
(* call in progress.  Keys have texts of one length and the modelled       *)
(* quotas have one digit, so the length of a text is its number of keys.   *)
(***************************************************************************)
EXTENDS Integers, FiniteSets

CONSTANTS
    Procs,          \* processes
    Tokens,         \* free keys that may be minted
    Quota,          \* quota of a new key, one digit
    NoFile,         \* there is no free-keys.json
    Torn,           \* a text that is not JSON
    NoToken,        \* the token of a process that has none
    MaxRequests,    \* bound: how many requests reach a gate
    MaxKills        \* bound: how many calls are cut off

\* Records: from tokens to what is left of their quota.
Records == UNION {[S -> 0 .. Quota] : S \in SUBSET Tokens}
NoRecords == [t \in {} |-> 0]

\* The text of a file, and its length.
Text(text, size) == [text |-> text, size |-> size]
Texts == [text : Records \cup {Torn}, size : Nat]

ASSUME FreeKeysAssumption ==
    /\ IsFiniteSet(Tokens) /\ IsFiniteSet(Procs)
    /\ Torn \notin Records /\ NoFile \notin Texts
    /\ Quota \in 1 .. 9
    /\ MaxRequests \in Nat /\ MaxKills \in Nat
    /\ NoToken \notin Tokens

VARIABLES
    file,           \* NoFile, or the text of free-keys.json and its length
    proc,           \* of each process: op, phase, token, copy of the records
    minted,         \* tokens that were drawn
    created,        \* history: tokens create has returned
    admitted,       \* history: how many requests each token let through
    wasted,         \* history: how many were spent on calls that were cut off
    raced,          \* history: a call began while another was under way
    requests,       \* how many requests reached a gate
    kills           \* how many calls were cut off

vars == <<file, proc, minted, created, admitted, wasted, raced, requests, kills>>
history == <<created, admitted, wasted>>

\* How a call may end, and the phases of a process.
Outcomes == {"created", "admitted", "remote", "unknown", "exhausted", "raised"}
Phases == {"idle", "load", "get", "consume", "open", "write", "saved"} \cup Outcomes

Idle == [op |-> "none", phase |-> "idle", token |-> NoToken, records |-> NoRecords]
Call(op, phase, t) == [op |-> op, phase |-> phase, token |-> t, records |-> NoRecords]

-----------------------------------------------------------------------------
(* _load, _save and what is done with the records in between *)

\* (mutant) A text that is not JSON counts as no keys.
AlwaysLoads == TRUE

\* _load returns; on a torn text json.loads raises.
Loads == file = NoFile \/ file.text # Torn

\* What _load returns.
Loaded == IF file = NoFile THEN NoRecords
          ELSE IF file.text = Torn THEN NoRecords ELSE file.text

\* (mutant) The new key replaces the others.
AddedAlone(records, t) == [u \in {t} |-> Quota]

\* create appends its record.
Added(records, t) ==
    [u \in DOMAIN records \cup {t} |-> IF u = t THEN Quota ELSE records[u]]

Short(records, t) == records[t] < 1
Known(records, t) == t \in DOMAIN records

\* (mutant) A request costs two units.
SpentTwice(records, t) == [records EXCEPT ![t] = IF @ > 1 THEN @ - 2 ELSE 0]

Spent(records, t) == [records EXCEPT ![t] = @ - 1]

\* The file when records are written from its start: the tail of a longer
\* text stays behind them.
Overwritten(records) ==
    IF file.size > Cardinality(DOMAIN records)
    THEN Text(Torn, file.size)
    ELSE Text(records, Cardinality(DOMAIN records))

-----------------------------------------------------------------------------

Init ==
    /\ file = NoFile
    /\ proc = [p \in Procs |-> Idle]
    /\ minted = {}
    /\ created = {}
    /\ admitted = [t \in Tokens |-> 0]
    /\ wasted = [t \in Tokens |-> 0]
    /\ raced = FALSE
    /\ requests = 0
    /\ kills = 0

Goes(p, phase) == proc' = [proc EXCEPT ![p].phase = phase]
NotesRace(p) == raced' = (raced \/ \E q \in Procs \ {p} : proc[q] # Idle)
Saves(p, records) ==
    proc' = [proc EXCEPT ![p].phase = "open", ![p].records = records]

\* create draws a token nobody has.
Create(p, t) ==
    /\ proc[p] = Idle
    /\ t \notin minted
    /\ minted' = minted \cup {t}
    /\ proc' = [proc EXCEPT ![p] = Call("create", "load", t)]
    /\ NotesRace(p)
    /\ UNCHANGED <<file, history, requests, kills>>

\* create loads the records and adds its own.
LoadForCreate(p) ==
    /\ proc[p].phase = "load"
    /\ IF Loads THEN Saves(p, Added(Loaded, proc[p].token)) ELSE Goes(p, "raised")
    /\ UNCHANGED <<file, minted, history, raced, requests, kills>>

\* enforce_free_key is called with a token; a peer that is not on the
\* loopback is refused unless --allow-remote was given.
Gate(p, t) ==
    /\ proc[p] = Idle
    /\ requests < MaxRequests
    /\ requests' = requests + 1
    /\ \E phase \in {"get", "remote"} :
          proc' = [proc EXCEPT ![p] = Call("gate", phase, t)]
    /\ NotesRace(p)
    /\ UNCHANGED <<file, minted, history, kills>>

\* get looks the token up.
Get(p) ==
    /\ proc[p].phase = "get"
    /\ Goes(p, IF ~Loads THEN "raised"
               ELSE IF Known(Loaded, proc[p].token) THEN "consume"
               ELSE "unknown")
    /\ UNCHANGED <<file, minted, history, raced, requests, kills>>

\* consume loads again.  Nobody catches the KeyError of a key that is gone.
Consume(p) ==
    LET t == proc[p].token IN
    /\ proc[p].phase = "consume"
    /\ \/ ~Loads /\ Goes(p, "raised")
       \/ Loads /\ t \notin DOMAIN Loaded /\ Goes(p, "raised")
       \/ /\ Loads /\ t \in DOMAIN Loaded
          /\ IF Short(Loaded, t) THEN Goes(p, "exhausted")
                                 ELSE Saves(p, Spent(Loaded, t))
    /\ UNCHANGED <<file, minted, history, raced, requests, kills>>

\* write_text opens the file, which truncates it.
Open(p) ==
    /\ proc[p].phase = "open"
    /\ file' = Text(Torn, 0)
    /\ Goes(p, "write")
    /\ UNCHANGED <<minted, history, raced, requests, kills>>

\* The text is written from the start of the file.
Write(p) ==
    /\ proc[p].phase = "write"
    /\ file' = Overwritten(proc[p].records)
    /\ Goes(p, "saved")
    /\ UNCHANGED <<minted, history, raced, requests, kills>>

\* create returns its record, and the gate lets its request through.
Return(p) ==
    LET t == proc[p].token IN
    /\ proc[p].phase = "saved"
    /\ \/ /\ proc[p].op = "create"
          /\ created' = created \cup {t}
          /\ Goes(p, "created")
          /\ UNCHANGED admitted
       \/ /\ proc[p].op = "gate"
          /\ admitted' = [admitted EXCEPT ![t] = @ + 1]
          /\ Goes(p, "admitted")
          /\ UNCHANGED created
    /\ UNCHANGED <<file, minted, wasted, raced, requests, kills>>

\* The caller has it.
Finish(p) ==
    /\ proc[p].phase \in Outcomes
    /\ proc' = [proc EXCEPT ![p] = Idle]
    /\ UNCHANGED <<file, minted, history, raced, requests, kills>>

\* A gate that has spent a unit and not returned.
Saved(p) == proc[p].phase = "saved" /\ proc[p].op = "gate"

\* A process is killed in a call; a unit that was spent is spent for nothing.
Kill(p) ==
    /\ proc[p].phase \in {"load", "get", "consume", "open", "write", "saved"}
    /\ kills < MaxKills
    /\ kills' = kills + 1
    /\ proc' = [proc EXCEPT ![p] = Idle]
    /\ wasted' = IF Saved(p) THEN [wasted EXCEPT ![proc[p].token] = @ + 1] ELSE wasted
    /\ UNCHANGED <<file, minted, created, admitted, raced, requests>>

Next ==
    \E p \in Procs :
        \/ \E t \in Tokens : Create(p, t) \/ Gate(p, t)
        \/ LoadForCreate(p)
        \/ Get(p)
        \/ Consume(p)
        \/ Open(p)
        \/ Write(p)
        \/ Return(p)
        \/ Finish(p)
        \/ Kill(p)

Spec == Init /\ [][Next]_vars

-----------------------------------------------------------------------------
(* Properties *)

\* Every variable has its type.
TypeOK ==
    /\ file \in Texts \cup {NoFile}
    /\ proc \in [Procs -> [op : {"none", "create", "gate"}, phase : Phases,
                           token : Tokens \cup {NoToken}, records : Records]]
    /\ created \subseteq minted /\ minted \subseteq Tokens
    /\ admitted \in [Tokens -> Nat] /\ wasted \in [Tokens -> Nat]
    /\ raced \in BOOLEAN
    /\ requests \in 0 .. MaxRequests
    /\ kills \in 0 .. MaxKills

\* The file holds keys that can be loaded.
Whole == file # NoFile /\ file.text # Torn

\* What was spent of a token: on requests that were let through, on calls that
\* were cut off, and on those about to be let through.
Charged(t) ==
    admitted[t] + wasted[t] + Cardinality({p \in Procs : Saved(p) /\ proc[p].token = t})

\* As long as calls do not overlap, no token lets more requests through than
\* its quota, and the file accounts for every unit: what is left of a key and
\* what was spent, on requests that were let through and on calls that were
\* killed after their write, make up its quota, for every key create
\* returned, whenever it can be loaded (after a process is killed between the
\* open and the write of the file it cannot).
Accounted ==
    ~raced =>
        /\ \A t \in Tokens : Charged(t) <= Quota
        /\ Whole =>
              \A t \in created :
                  t \in DOMAIN file.text /\ file.text[t] + Charged(t) = Quota

\* However the processes race, lost updates only ever favour the client: what
\* the file says is spent was really spent, so no request is refused as
\* exhausted before the whole quota was spent: on requests that were let
\* through, or are about to be, and at most one unit for each process that was
\* killed between its write and its return.
NeverShortchanged ==
    /\ Whole => \A t \in DOMAIN file.text : Quota - file.text[t] <= Charged(t)
    /\ \A p \in Procs :
          proc[p].phase = "exhausted" => Charged(proc[p].token) >= Quota

\* Nothing the program does repairs a torn file: once no process is writing,
\* every later call raises before it would save.
Broken ==
    /\ file # NoFile /\ ~Whole
    /\ \A p \in Procs : proc[p].phase \notin {"open", "write"}

TornForGood == [][Broken => Broken']_vars

=============================================================================
