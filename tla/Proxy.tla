------------------------------- MODULE Proxy --------------------------------
(***************************************************************************)
(* The record/replay proxy of proxy/app.py.  Proxy processes start on one  *)
(* shared cassette, each with its own configuration and in memory index,   *)
(* serve requests whose handlers interleave at every await, and stop or    *)
(* crash.  The cassette is used as the log of CassetteLog: an append takes *)
(* effect in one step between the moment it is called and the moment it    *)
(* returns, a read that overlaps a write of the manifest, be it an append  *)
(* or the test stack of a free recorder, may find an empty log, and a      *)
(* write that is cut off may leave one.                                    *)
(*                                                                         *)
(* A request is what matching tells apart: the text of its static fields,  *)
(* the value of a field an ignore list may name, and the secret it carries.*)
(* A reply of the upstream is its status, its value, whether its JSON is   *)
(* an object, and whether the exchange holds no secret, one the scrubbers  *)
(* find, or one they leave.                                                *)
(***************************************************************************)
EXTENDS Naturals, Sequences, TLC

CONSTANTS
    Proxies,        \* proxy processes that may run at the same time
    Slots,          \* requests in flight at the same time
    Configs,        \* configurations a proxy may be started with
    Requests,       \* [text, noise, secret]
    Replies,        \* [ok, value, object, secret]
    Models,         \* the text of GET /v1/models
    NoNoise,        \* an ignored field, left out of the projection
    NoSecret,       \* a request that carries no secret
    Down,           \* a process that is not running
    Free,           \* a slot with no request
    NotBuilt,       \* _hash_index before the first rebuild_index
    MaxStarts,      \* bound: how many times a proxy is started
    MaxSends        \* bound: how many requests are sent

Modes == {"record", "replay"}

\* mode, profile in STRICT_PROFILES, LLMREPLAY_HMAC_KEY set, tools.__llm__ live,
\* --allow-live, upstream_base set, free_mode, the yaml ignores the noisy field
ConfigType == [mode : Modes, strict : BOOLEAN, hmacEnv : BOOLEAN, live : BOOLEAN,
               allowLive : BOOLEAN, upstream : BOOLEAN, free : BOOLEAN,
               ignores : BOOLEAN]

ASSUME ProxyAssumption ==
    /\ Configs \subseteq ConfigType
    /\ \A r \in Requests : DOMAIN r = {"text", "noise", "secret"} /\ r.noise # NoNoise
    /\ \A u \in Replies : /\ DOMAIN u = {"ok", "value", "object", "secret"}
                            /\ u.secret \in {"none", "found", "left"}
    /\ MaxStarts \in Nat /\ MaxSends \in Nat

VARIABLES
    cassette,       \* the transactions of the manifest, oldest first
    config,         \* of each process: its configuration, or Down
    hmac,           \* of each process: 0 for LLMREPLAY_HMAC_KEY, else random
    stamping,       \* free recorders that are writing their test stack
    index,          \* of each process: _hash_index, from match keys to bodies
    slot,           \* of each slot: the handler, or Free
    source,         \* history: what the cassette held when a process started
    recorded,       \* history: every transaction ever appended
    severed,        \* history: a crash cut an append between the renames
    starts,         \* how many processes were started
    sends           \* how many requests were sent

vars == <<cassette, config, hmac, stamping, index, slot, source, recorded,
          severed, starts, sends>>

history == <<source, recorded, severed>>

-----------------------------------------------------------------------------
(* Pure parts *)

\* A configuration that ProxyConfig and create_app accept.
Legal(c) ==
    /\ c.mode = "record" => c.upstream \/ c.free
    /\ c.mode = "record" /\ c.strict => c.hmacEnv
    /\ c.live /\ c.strict => c.allowLive

\* Free mode records from the local router when no upstream is given.
HasUpstream(c) == c.upstream \/ (c.free /\ c.mode = "record")

\* What the scrubber leaves of a secret: an HMAC under the process's key.
Placeholder(secret, h) ==
    IF secret = NoSecret THEN <<0, NoSecret>> ELSE <<h, secret>>

\* (mutants) Every secret has the same placeholder; the ignore list of the
\* yaml is not read on replay.
KeyWithoutSecret(r, c, h) ==
    [text   |-> r.text,
     noise  |-> IF c.ignores THEN NoNoise ELSE r.noise,
     secret |-> <<0, NoSecret>>]
KeyDefaultIgnores(r, c, h) ==
    [text   |-> r.text,
     noise  |-> IF c.ignores /\ c.mode = "record" THEN NoNoise ELSE r.noise,
     secret |-> Placeholder(r.secret, h)]

\* match_key(scrub_event(event)): static fields verbatim, ignored fields left
\* out, secrets as HMAC placeholders under the process's key.
MatchKey(r, c, h) ==
    [text   |-> r.text,
     noise  |-> IF c.ignores THEN NoNoise ELSE r.noise,
     secret |-> Placeholder(r.secret, h)]

\* rebuild_index: a later transaction replaces an earlier one with its key.
LastWins(log) ==
    [k \in {log[i].key : i \in DOMAIN log} |->
        LET i == CHOOSE i \in DOMAIN log :
                    /\ log[i].key = k
                    /\ \A j \in DOMAIN log : log[j].key = k => j <= i
        IN  log[i].body]

\* Free mode stamps the manifest with its router before it records.
Stamps(c) == c.free /\ c.mode = "record"

\* What append_transaction stores of a reply: an object, or anything else
\* wrapped under "data", with the secrets that the scrubbers find replaced.
Stored(u) ==
    [value |-> u.value, wrapped |-> ~u.object,
     secret |-> IF u.secret = "found" THEN "scrubbed" ELSE u.secret]

\* What the client of a forwarded request is given: the reply as it came.
Given(u) == [value |-> u.value, wrapped |-> FALSE, secret |-> u.secret]

Answer(status, from, body) == [status |-> status, from |-> from, body |-> body]
NoBody == [value |-> "none", wrapped |-> FALSE, secret |-> "none"]
NoReply == [ok |-> FALSE, value |-> "none", object |-> TRUE, secret |-> "none"]

Handler(p, r, phase) ==
    [proxy |-> p, req |-> r, phase |-> phase, reply |-> NoReply,
     answer |-> Answer("none", "none", NoBody)]

\* The handlers there can be; a free slot holds none of them, and a process
\* that is down has no configuration.
Bodies == {Stored(u) : u \in Replies} \cup {Given(u) : u \in Replies} \cup {NoBody}
Phases == {"received", "upstream", "writing", "answered"}
Statuses == {"none", "ok", "miss", "refused", "unavailable", "secret", "error", "raised"}
Origins == {"none", "cassette", "synthetic", "upstream"}
Answers == [status : Statuses, from : Origins, body : Bodies]
HandlerType == [proxy : Proxies, req : Requests, phase : Phases,
                reply : Replies \cup {NoReply}, answer : Answers]

ASSUME HandlerAssumption == Free \notin HandlerType /\ Down \notin Configs

\* The process of a slot, its configuration and its match key.
Key(s) == MatchKey(slot[s].req, config[slot[s].proxy], hmac[slot[s].proxy])
Conf(s) == config[slot[s].proxy]

InPhase(s, phase) == slot[s] # Free /\ slot[s].phase = phase

\* append_transaction is synchronous: the event loop runs nothing else.
Blocked(p) == \E s \in Slots : InPhase(s, "writing") /\ slot[s].proxy = p

\* Some process is writing the manifest, and some other than that of a slot.
Appending == stamping # {} \/ \E s \in Slots : InPhase(s, "writing")
AppendingBeside(s) == stamping # {} \/ \E t \in Slots \ {s} : InPhase(t, "writing")

\* What a read of the cassette finds: it finds no manifest between the renames of
\* a write that is under way.
Readable(log, writing) == {log} \cup (IF writing THEN {<< >>} ELSE {})

\* A transaction is added after the others, also when its key is there.
Extended(log, tx) == Append(log, tx)

\* The transaction of a slot is appended.
Recorded(s) ==
    LET tx == [key |-> Key(s), req |-> slot[s].req, body |-> Stored(slot[s].reply),
               conf |-> Conf(s), hmac |-> hmac[slot[s].proxy]]
    IN  /\ cassette' = Extended(cassette, tx)
        /\ recorded' = recorded \cup {tx}

Respond(s, answer) ==
    slot' = [slot EXCEPT ![s].phase = "answered", ![s].answer = answer]

-----------------------------------------------------------------------------

Init ==
    /\ cassette = << >>
    /\ config = [p \in Proxies |-> Down]
    /\ hmac = [p \in Proxies |-> 0]
    /\ stamping = {}
    /\ index = [p \in Proxies |-> NotBuilt]
    /\ slot = [s \in Slots |-> Free]
    /\ source = [p \in Proxies |-> << >>]
    /\ recorded = {}
    /\ severed = FALSE
    /\ starts = 0
    /\ sends = 0

\* create_app: a replay proxy builds its index now and never again, and a free
\* recorder begins to write its test stack.  Without LLMREPLAY_HMAC_KEY the
\* process draws a key of its own.
Start(p, c) ==
    /\ config[p] = Down
    /\ starts < MaxStarts
    /\ Legal(c)
    /\ config' = [config EXCEPT ![p] = c]
    /\ starts' = starts + 1
    /\ hmac' = [hmac EXCEPT ![p] = IF c.hmacEnv THEN 0 ELSE starts']
    /\ stamping' = stamping \cup (IF Stamps(c) THEN {p} ELSE {})
    /\ \E log \in Readable(cassette, Appending) :
          /\ index' = [index EXCEPT ![p] =
                          IF c.mode = "replay" THEN LastWins(log) ELSE NotBuilt]
          /\ source' = [source EXCEPT ![p] = log]
    /\ UNCHANGED <<cassette, slot, recorded, severed, sends>>

\* set_test_stack returns, and the process may serve.  What it changed is in the
\* header of the manifest, which no transaction is part of.
Stamped(p) ==
    /\ p \in stamping
    /\ stamping' = stamping \ {p}
    /\ UNCHANGED <<cassette, config, hmac, index, slot, history, starts, sends>>

\* The slots once the handlers of a process are gone.
SlotsWithout(p) ==
    [s \in Slots |-> IF slot[s] # Free /\ slot[s].proxy = p THEN Free ELSE slot[s]]

\* The process ends, with its handlers and its index.  An append it was in
\* may have happened, or not; it, or the write of the test stack, may have left
\* no cassette.json.
Stop(p) ==
    /\ config[p] # Down
    /\ config' = [config EXCEPT ![p] = Down]
    /\ hmac' = [hmac EXCEPT ![p] = 0]
    /\ stamping' = stamping \ {p}
    /\ index' = [index EXCEPT ![p] = NotBuilt]
    /\ source' = [source EXCEPT ![p] = << >>]
    /\ slot' = SlotsWithout(p)
    /\ \/ UNCHANGED <<cassette, recorded, severed>>
       \/ /\ Blocked(p) \/ p \in stamping
          /\ cassette' = << >>
          /\ severed' = TRUE
          /\ UNCHANGED recorded
       \/ /\ \E s \in Slots : /\ InPhase(s, "writing")
                              /\ slot[s].proxy = p
                              /\ Recorded(s)
          /\ UNCHANGED severed
    /\ UNCHANGED <<starts, sends>>

\* A client sends a request and the server starts its handler.
Send(s, p, r) ==
    /\ slot[s] = Free
    /\ config[p] # Down /\ p \notin stamping
    /\ sends < MaxSends
    /\ sends' = sends + 1
    /\ slot' = [slot EXCEPT ![s] = Handler(p, r, "received")]
    /\ UNCHANGED <<cassette, config, hmac, stamping, index, history, starts>>

\* The handler may run: its process is not inside an append.
Ready(s, phase) == InPhase(s, phase) /\ ~Blocked(slot[s].proxy)

\* Refused before anything happens: not an allowed route, not JSON, or the
\* free key is missing, remote, unknown or used up.  The list of models is
\* not gated on replay.
Refuse(s) ==
    /\ Ready(s, "received")
    /\ ~(Conf(s).mode = "replay" /\ slot[s].req.text = Models)
    /\ Respond(s, Answer("refused", "none", NoBody))
    /\ UNCHANGED <<cassette, config, hmac, stamping, index, history, starts, sends>>

\* (mutant) The cassette is read again for each request.
ServedFresh(s) == LastWins(cassette)

\* What a replay is answered from: the index of the process.
Served(s) == index[slot[s].proxy]

\* GET /v1/models on replay: the recorded list or a synthetic one.
ServeModels(s) ==
    /\ Ready(s, "received")
    /\ Conf(s).mode = "replay"
    /\ slot[s].req.text = Models
    /\ Respond(s, IF Key(s) \in DOMAIN Served(s)
                  THEN Answer("ok", "cassette", Served(s)[Key(s)])
                  ELSE Answer("ok", "synthetic", NoBody))
    /\ UNCHANGED <<cassette, config, hmac, stamping, index, history, starts, sends>>

\* Replay of an unmarked request: a hit of the index, or a miss.
ServeReplay(s) ==
    /\ Ready(s, "received")
    /\ Conf(s).mode = "replay"
    /\ ~Conf(s).live
    /\ slot[s].req.text # Models
    /\ Respond(s, IF Key(s) \in DOMAIN Served(s)
                  THEN Answer("ok", "cassette", Served(s)[Key(s)])
                  ELSE Answer("miss", "none", NoBody))
    /\ UNCHANGED <<cassette, config, hmac, stamping, index, history, starts, sends>>

\* (mutant) A miss is forwarded.
GoesUpstreamOnMiss(s) ==
    \/ Conf(s).mode = "record"
    \/ /\ Conf(s).mode = "replay"
       /\ Key(s) \notin DOMAIN index[slot[s].proxy] /\ slot[s].req.text # Models

\* Whether the handler goes to the upstream: always on record; on replay only
\* for a live model, and never for the list of models.
GoesUpstream(s) ==
    \/ Conf(s).mode = "record"
    \/ Conf(s).live /\ slot[s].req.text # Models

\* The upstream request is sent and awaited.
Forward(s) ==
    /\ Ready(s, "received")
    /\ GoesUpstream(s)
    /\ IF HasUpstream(Conf(s))
       THEN slot' = [slot EXCEPT ![s].phase = "upstream"]
       ELSE Respond(s, Answer("unavailable", "none", NoBody))
    /\ UNCHANGED <<cassette, config, hmac, stamping, index, history, starts, sends>>

\* (mutant) No timeout.
NeverFails(s) == FALSE

\* The upstream does not answer: httpx.HTTPError, the timeout included.
UpstreamFails(s) ==
    /\ Ready(s, "upstream")
    /\ Respond(s, Answer("unavailable", "none", NoBody))
    /\ UNCHANGED <<cassette, config, hmac, stamping, index, history, starts, sends>>

\* (mutant) A transaction is given up when another process is appending.
WritesUncontended(s, u) == Conf(s).mode = "record" /\ u.ok /\ ~Appending

\* Whether the reply is to be written to the cassette.
Writes(s, u) == Conf(s).mode = "record" /\ u.ok

\* (mutant) The refusal is left to validate.
RefusesNothing(s, u) == FALSE

\* ci and strict refuse to write what still holds a secret.
RefusesSecret(s, u) == Conf(s).strict /\ u.secret = "left"

\* The upstream answers with anything it likes.
UpstreamReplies(s, u) ==
    /\ Ready(s, "upstream")
    /\ IF Writes(s, u) /\ ~RefusesSecret(s, u)
       THEN slot' = [slot EXCEPT ![s].phase = "writing", ![s].reply = u]
       ELSE Respond(s, IF Writes(s, u)
                       THEN Answer("secret", "none", NoBody)
                       ELSE Answer(IF u.ok THEN "ok" ELSE "error",
                                   "upstream", Given(u)))
    /\ UNCHANGED <<cassette, config, hmac, stamping, index, history, starts, sends>>

\* append_transaction takes effect and returns, index_put notes the body, and
\* the client is given the reply as it came.  The first index_put of a process
\* reads the cassette; beside another write it may find no manifest, or raise
\* when the manifest goes as it is opened: then the transaction is kept and the
\* client is told of a failure.
Commit(s) ==
    LET p == slot[s].proxy IN
    /\ InPhase(s, "writing")
    /\ Recorded(s)
    /\ \/ /\ \E log \in Readable(cassette', AppendingBeside(s)) :
                index' = [index EXCEPT ![p] =
                             (Key(s) :> Stored(slot[s].reply)) @@
                             (IF @ = NotBuilt THEN LastWins(log) ELSE @)]
          /\ Respond(s, Answer("ok", "upstream", Given(slot[s].reply)))
       \/ /\ index[p] = NotBuilt
          /\ AppendingBeside(s)
          /\ Respond(s, Answer("raised", "none", NoBody))
          /\ UNCHANGED index
    /\ UNCHANGED <<config, hmac, stamping, source, severed, starts, sends>>

\* The client has its answer.
Collect(s) ==
    /\ InPhase(s, "answered")
    /\ slot' = [slot EXCEPT ![s] = Free]
    /\ UNCHANGED <<cassette, config, hmac, stamping, index, history, starts, sends>>

\* What the process, the clock of httpx and the file system bring about.  The
\* upstream owes no answer: its timeout is what ends the wait.
Progress(s) ==
    \/ ServeModels(s)
    \/ ServeReplay(s)
    \/ Forward(s)
    \/ UpstreamFails(s)
    \/ Commit(s)

Next ==
    \/ \E p \in Proxies : Stop(p) \/ Stamped(p) \/ \E c \in Configs : Start(p, c)
    \/ \E s \in Slots :
          \/ \E p \in Proxies, r \in Requests : Send(s, p, r)
          \/ Progress(s)
          \/ Refuse(s)
          \/ \E u \in Replies : UpstreamReplies(s, u)
          \/ Collect(s)

Spec == Init /\ [][Next]_vars

-----------------------------------------------------------------------------
(* Properties *)

Answered(s) == InPhase(s, "answered")
Replays(s) == Conf(s).mode = "replay" /\ ~Conf(s).live /\ slot[s].req.text # Models

\* Replay opens no outbound connection unless the model is marked live, in ci
\* and strict not without --allow-live, and it never writes the cassette.
Hermetic ==
    \A s \in Slots : slot[s] # Free /\ Conf(s).mode = "replay" =>
        /\ slot[s].phase # "writing"
        /\ slot[s].phase = "upstream" =>
              Conf(s).live /\ (Conf(s).strict => Conf(s).allowLive)

\* A body served from the cassette was recorded, by whatever process and with
\* whatever settings, for a request with the same static fields and the same
\* secret, and with the same noise unless the replaying process ignores it.
NoWrongHit ==
    \A s \in Slots : Answered(s) /\ slot[s].answer.from = "cassette" =>
        \E tx \in recorded :
            /\ tx.body = slot[s].answer.body
            /\ tx.req.text = slot[s].req.text
            /\ tx.req.secret = slot[s].req.secret
            /\ tx.req.noise = slot[s].req.noise \/ Conf(s).ignores

\* Whatever other processes append meanwhile, a replay process answers from
\* the cassette as it was when the process started: the last transaction with
\* the key of the request, or a miss when there is none.
AnswersFromStart ==
    \A s \in Slots : Answered(s) /\ Replays(s) /\ slot[s].answer.status # "refused" =>
        LET log  == source[slot[s].proxy]
            hits == {i \in DOMAIN log : log[i].key = Key(s)}
        IN  IF hits = {} THEN slot[s].answer.status = "miss"
            ELSE \E i \in hits : /\ \A j \in hits : j <= i
                                 /\ slot[s].answer.body = log[i].body

\* A request recorded before a replay process started never misses on it when
\* both ran with the same HMAC key and the same ignore list.
SameSettingsHit ==
    \A s \in Slots : Answered(s) /\ Replays(s) /\ slot[s].answer.status # "refused" =>
        LET log == source[slot[s].proxy]
        IN  (\E i \in DOMAIN log :
                /\ log[i].req = slot[s].req
                /\ log[i].conf.ignores = Conf(s).ignores
                /\ log[i].hmac = hmac[slot[s].proxy])
            => slot[s].answer.status = "ok"

\* A process of the ci or strict profile appends nothing that still holds a
\* secret, and its placeholders are under the shared key.
StrictStoresNoSecret ==
    \A tx \in recorded : tx.conf.strict => tx.body.secret \in {"none", "scrubbed"} /\ tx.hmac = 0

\* A client of a recording process that was given a good reply, as the
\* upstream sent it, can count on that reply being in the cassette under the key
\* of its own request, wrapped and scrubbed, whoever records beside it, until a
\* crash empties the manifest.
AnsweredIsRecorded ==
    ~severed => \A s \in Slots :
        /\ Answered(s)
        /\ Conf(s).mode = "record"
        /\ slot[s].answer.status = "ok"
        => /\ ~slot[s].answer.body.wrapped /\ slot[s].answer.body.secret # "scrubbed"
           /\ \E i \in DOMAIN cassette :
                 /\ cassette[i].key = Key(s)
                 /\ cassette[i].body.value = slot[s].answer.body.value
                 /\ cassette[i].body.secret # "found"

\* Every request that is accepted is answered, unless its process ends first,
\* provided only that its handler is scheduled and the timeout of the upstream
\* client goes off.
RequestsEnd ==
    (\A s \in Slots : WF_vars(Progress(s))) =>
        \A s \in Slots : InPhase(s, "received") ~> (slot[s] = Free \/ Answered(s))

-----------------------------------------------------------------------------
(* Replaying implements the abstract session *)

\* The processes that replay, and what they were opened on; the unmarked requests
\* to them, and what was found.
Replayers == {p \in Proxies : config[p] # Down /\ config[p].mode = "replay"}
OpenedOn == [p \in Replayers |-> source[p]]

Asking == {s \in Slots : slot[s] # Free /\ Replays(s)}
ExchangeOf(s) ==
    LET status == slot[s].answer.status
    IN  [player |-> slot[s].proxy,
         key    |-> Key(s),
         state  |-> IF slot[s].phase # "answered" THEN "asked"
                    ELSE IF status = "refused" THEN "refused" ELSE "answered",
         found  |-> IF slot[s].phase = "answered" /\ status = "ok"
                    THEN {slot[s].answer.body} ELSE {}]
Exchanges == [s \in Asking |-> ExchangeOf(s)]

MatchKeys == {MatchKey(r, c, h) : r \in Requests, c \in Configs, h \in 0 .. MaxStarts}

Session == INSTANCE ReplaySession WITH
              Players <- Proxies,
              Clients <- Slots,
              Keys <- MatchKeys,
              log <- cassette,
              appending <- Appending,
              opened <- OpenedOn,
              exchange <- Exchanges

\* create_app and the replay branch of the handlers: a replay process is a
\* function of the cassette it was started on, however handlers interleave and
\* whatever other processes append, and it answers each request once.
ImplementsSession == Session!SessionSpec

=============================================================================
