--------------------------- MODULE Conversations -----------------------------
(***************************************************************************)
(* Two runs of an agent, one that was recorded and a live one, and the     *)
(* requests they send through the match pipeline.  A run grows by a        *)
(* message, a tool call or a tool result; calls and results of one turn    *)
(* are parallel and come in any order.  Each state is a request of each    *)
(* run: the whole conversation so far, in the wire format of its API.      *)
(*                                                                         *)
(* What a run did is kept beside the wire as a sequence of turns with      *)
(* sets in them.  Recorded calls and results come in the order of their    *)
(* ids; the live ones in every order, so that each live request is         *)
(* compared with the same meaning in sorted order and with others.         *)
(***************************************************************************)
EXTENDS Scrubbing, TLC

CONSTANTS
    Setups,         \* a sequence: API format, settings, what requests carry, and two
                    \* bounds, on the blocks of a run and on its plain messages
    Calls,          \* tool calls, <<id, arguments>>
    NoiseArgs,      \* arguments that only noisy calls carry
    Results         \* tool results, <<id, string>>

VARIABLES
    at,             \* the place of the setup of this behaviour
    did,            \* history: of each run, its blocks, [turn, kind, part]
    wire,           \* of each run, its list of messages or items
    key             \* of each run, the key the proxy gives its request

vars == <<at, did, wire, key>>

setup == Setups[at]
Runs == {"recorded", "live"}
Formats == {"anthropic", "chat", "responses"}

Role(r, content) == Object([role |-> Leaf(r), content |-> content])

-----------------------------------------------------------------------------
(* The wire formats *)

Thinking == Object([type |-> Leaf("thinking"), thinking |-> Leaf("a")])
Reasoning == Object([type |-> Leaf("reasoning"), id |-> Leaf("a")])
ToolUse(c) == Object([type |-> Leaf("tool_use"), id |-> Leaf(c[1]),
                      name |-> Leaf("read"), input |-> Object(c[2])])
ToolResult(c) == Object([type |-> Leaf("tool_result"), tool_use_id |-> Leaf(c[1]),
                         content |-> Leaf(c[2])])
\* The arguments of a call are an object to Anthropic and a text to OpenAI.
ToolCall(c) == Object([id |-> Leaf(c[1]),
                       function |-> Object([name |-> Leaf("read"), arguments |-> Text(c[2])])])
ToolMessage(c) == Object([role |-> Leaf("tool"), tool_call_id |-> Leaf(c[1]),
                          content |-> Leaf(c[2])])
FunctionCall(c) == Object([type |-> Leaf("function_call"), call_id |-> Leaf(c[1]),
                           name |-> Leaf("read"), arguments |-> Text(c[2])])
FunctionOutput(c) == Object([type |-> Leaf("function_call_output"), call_id |-> Leaf(c[1]),
                             output |-> Leaf(c[2])])

\* The last message has one more block in its field.
Grown(messages, field, block) ==
    LET last == Last(messages)
    IN  Append(Front(messages),
               Object([last.object EXCEPT ![field] = List(Append(@.list, block))]))

WithCall(messages, opens, thinks, c) ==
    LET thought(block) == IF thinks THEN <<block>> ELSE << >> IN
    CASE setup.format = "anthropic" ->
            IF opens
            THEN Append(messages, Role("assistant", List(Append(thought(Thinking), ToolUse(c)))))
            ELSE Grown(messages, "content", ToolUse(c))
      [] setup.format = "chat" ->
            IF opens
            THEN Append(messages, Object([role |-> Leaf("assistant"),
                                          tool_calls |-> List(<<ToolCall(c)>>)]))
            ELSE Grown(messages, "tool_calls", ToolCall(c))
      [] setup.format = "responses" ->
            messages \o thought(Reasoning) \o <<FunctionCall(c)>>

WithResult(messages, opens, c) ==
    CASE setup.format = "anthropic" ->
            IF opens THEN Append(messages, Role("user", List(<<ToolResult(c)>>)))
            ELSE Grown(messages, "content", ToolResult(c))
      [] setup.format = "chat" -> Append(messages, ToolMessage(c))
      [] setup.format = "responses" -> Append(messages, FunctionOutput(c))

-----------------------------------------------------------------------------
(* What a run did *)

Ids(run, kind) == {block.part[1] : block \in {d \in Range(did[run]) : d.kind = kind}}

\* A block joins the last turn when that is one of its kind.  The items of the
\* Responses API that are calls are a sequence, as they are to the code.
Alone(kind) == kind = "say" \/ (kind = "call" /\ setup.format = "responses")
Opens(run, kind) ==
    did[run] # << >> => Last(did[run]).kind # kind \/ Alone(kind)

LastTurn(run) == IF did[run] = << >> THEN 0 ELSE Last(did[run]).turn
Does(run, kind, part) ==
    LET turn == LastTurn(run) + (IF Opens(run, kind) THEN 1 ELSE 0)
    IN  did' = [did EXCEPT ![run] = Append(@, [turn |-> turn, kind |-> kind, part |-> part])]

-----------------------------------------------------------------------------
(* Requests *)

settings == setup.settings
ListName(run) == IF setup.format = "responses" THEN "input" ELSE "messages"

\* The event of the request a run sends after these messages.
EventOf(run, messages) ==
    LET frame == setup.frames[run]
        body == [name \in DOMAIN frame.body \cup {ListName(run)} |->
                    IF name = ListName(run) THEN List(messages) ELSE frame.body[name]]
    IN  NormalizeRequestEvent(Leaf("path"), frame.headers, Object(body))

Event(run) == EventOf(run, wire[run])
Stored(run) == StoredRequest(Event(run), settings)

Sends(run, messages) ==
    /\ wire' = [wire EXCEPT ![run] = messages]
    /\ key' = [key EXCEPT ![run] = ProxyKey(EventOf(run, messages), settings)]
    /\ UNCHANGED at

\* The live run comes after the recorded one.
CanGrow(run) ==
    /\ Len(did[run]) < setup.blocks
    /\ run = "recorded" => did["live"] = << >>

Init ==
    /\ at \in DOMAIN Setups
    /\ did = [run \in Runs |-> << >>]
    /\ wire = [run \in Runs |-> << >>]
    /\ key = [run \in Runs |-> ProxyKey(EventOf(run, << >>), settings)]

Say(run) ==
    /\ CanGrow(run)
    /\ Cardinality({i \in DOMAIN did[run] : did[run][i].kind = "say"}) < setup.says
    /\ Does(run, "say", <<"user", "a">>)
    /\ Sends(run, Append(wire[run], Role("user", Leaf("a"))))

\* A noisy call, the first of a turn of the live run, comes after a thinking block
\* or carries more arguments.
CallTool(run, noise, c) ==
    LET thinks == noise = "thinking"
        sent == IF noise = "arguments" THEN <<c[1], c[2] @@ NoiseArgs>> ELSE c IN
    /\ CanGrow(run)
    /\ c[1] \notin Ids(run, "call")
    /\ run = "recorded" => \A id \in Ids(run, "call") : Rank[id] < Rank[c[1]]
    /\ noise # "none" => run = "live" /\ Opens(run, "call")
    /\ Does(run, "call", sent)
    /\ Sends(run, WithCall(wire[run], Opens(run, "call"), thinks, sent))

ToolReturns(run, c) ==
    LET waiting == Ids(run, "call") \ Ids(run, "result") IN
    /\ CanGrow(run)
    /\ c[1] \in waiting
    /\ run = "recorded" => \A id \in waiting : Rank[c[1]] <= Rank[id]
    /\ Does(run, "result", c)
    /\ Sends(run, WithResult(wire[run], Opens(run, "result"), c))

Next ==
    \E run \in Runs :
        \/ Say(run)
        \/ \E noise \in {"none", "thinking", "arguments"}, c \in Calls : CallTool(run, noise, c)
        \/ \E c \in Results : ToolReturns(run, c)

Spec == Init /\ [][Next]_vars

-----------------------------------------------------------------------------
(* What the requests mean *)

\* The fields of f that are neither null nor called noise.
Telling(f, Noise(_)) == {<<n, f[n]>> : n \in {m \in DOMAIN f : ~Noise(m) /\ f[m] # Null}}

\* A field of a body is noise when the configuration has its name as it is or in
\* lower case, a header in lower case only: for a header "Date" stands for nothing.
TellingFields(f) ==
    Telling(f, LAMBDA n : n \in settings.ignore \/ Lower(n) \in settings.ignore)
TellingHeaders(f) ==
    {<<Lower(h[1]), h[2]>> :
        h \in Telling(f, LAMBDA n : Lower(n) \in settings.ignore \cup DropHeaders)}

\* The arguments of a call mean the same without noise only to Anthropic, where
\* they are an object of the body.
Meaning(run) ==
    LET frame == setup.frames[run]
        Part(block) == IF block.kind = "call" /\ setup.format = "anthropic"
                       THEN <<block.part[1], TellingFields(block.part[2])>>
                       ELSE block.part
        Turn(n) == {Part(block) : block \in {d \in Range(did[run]) : d.turn = n}}
    IN  <<TellingHeaders(frame.headers), TellingFields(frame.body),
          [n \in 1 .. LastTurn(run) |-> Turn(n)]>>

\* Nothing in the request is a secret, by its name or by its value.
HasSecretValue(run) == ResidualHits(Event(run))
HasSecretName(run) ==
    LET frame == setup.frames[run]
        Names(f) == {Lower(n) : n \in DOMAIN f}
    IN  \/ Names(frame.headers) \cap (ScrubHeaderKeys \ DropHeaders) # {}
        \/ \E n \in DOMAIN frame.body :
              \/ Lower(n) \in SensitiveKeys
              \/ IsObject(frame.body[n]) /\ Names(frame.body[n].object) \cap SensitiveKeys # {}

-----------------------------------------------------------------------------
(* Properties *)

\* match_key: two runs have the same key exactly when they did the same.  In
\* whatever order parallel calls and results came, whatever was thought, and
\* whatever noise headers, bodies and, where they are objects, tool arguments
\* carry, the live request finds the recorded one; and sorting, ignoring and
\* scrubbing never make one request of two that differ in more, be it a field
\* of noise in arguments that are a text.
KeysFollowMeaning ==
    key["recorded"] = key["live"] <=> Meaning("recorded") = Meaning("live")

\* What the recorded run alone decides is looked at before the live one starts.
Recording == did["live"] = << >>

\* scrub_event: no secret string is stored.
NoSecretIsStored == Recording => ~ResidualHits(Stored("recorded"))

\* migrate computes from what was stored the key the recording proxy gave,
\* whatever the HMAC key of its own process, for the default ignore list and
\* when no field is scrubbed for its name.
MigrationKeepsKey ==
    settings.ignore = DefaultIgnoreKeys /\ ~HasSecretName("recorded") =>
        \A hmacKey \in 1 .. 2 : MigrationKey(Stored("recorded"), hmacKey) = key["recorded"]

\* tweak: with the default ignore list, the patched transaction is found by the
\* client that sends the patched request, its secrets in clear.
TweakIsFound ==
    LET Patched(e) == Object([e.object EXCEPT !["body"] =
                          Object([n \in DOMAIN @.object \cup {"seed"} |->
                                     IF n = "seed" THEN Leaf("z") ELSE @.object[n]])])
    IN  settings.ignore = DefaultIgnoreKeys =>
            TweakKey(Patched(Stored("recorded"))) = ProxyKey(Patched(Event("recorded")), settings)

\* why: when nothing in the live request is scrubbed, it says that a request
\* matches exactly when the proxy finds it.
WhyAgrees ==
    ~HasSecretName("live") /\ ~HasSecretValue("live") /\ settings.scrub = << >> =>
        (WhyKey(Event("live"), settings.ignore) = key["recorded"]
            <=> key["live"] = key["recorded"])

\* The commands that compute keys of their own agree with the proxy, as far as
\* each can: they do not scrub, or scrub what was scrubbed, and only why reads
\* the configuration.
OfflineKeysAgree == WhyAgrees /\ (Recording => MigrationKeepsKey /\ TweakIsFound)

\* The fields of the body in which the requests differ, and the ignore list once
\* why was asked n times and each time the command it printed was run.
Differing(live, stored) ==
    LET Projected(e) == Get(StaticProjection(e, settings.ignore \cup DefaultIgnoreKeys), "body")
        ofLive == Projected(live)
        ofStored == Projected(stored)
    IN  {name \in BodyNames(live) \cup BodyNames(stored) :
            Get(ofLive, name) # Get(ofStored, name)}
IgnoredAfter(n, live, stored) ==
    LET after[i \in 0 .. n] ==
            IF i = 0 THEN settings.ignore
            ELSE after[i - 1] \cup Range(Suggested(live, stored, after[i - 1]))
    IN  after[n]

\* Two requests match once everything in a list is ignored.
MatchUnder(ignore, live, stored) == MatchKey(live, ignore) = MatchKey(stored, ignore)

\* why, when the headers agree: running the command it prints once for every three
\* fields that differ, and no more often, makes the requests match, provided the
\* exchange is recorded again.  As it was recorded it is found only when it has none
\* of the fields that are now ignored: the cassette keeps the key of its recording.
SuggestionSuffices ==
    \A live \in {Event("live")}, stored \in {Stored("recorded")} :
        \A differing \in {Differing(live, stored)} :
            differing # {} /\ Get(live, "headers") = Get(stored, "headers") =>
                \A before \in {IgnoredAfter((Cardinality(differing) - 1) \div 3, live, stored)} :
                \A after \in {before \cup Range(Suggested(live, stored, before))} :
                    /\ ~MatchUnder(before, live, stored)
                    /\ MatchUnder(after, live, stored)
                    /\ ProxyKey(live, [settings EXCEPT !.ignore = after]) = key["recorded"] =>
                          differing \cap BodyNames(StaticProjection(stored, settings.ignore)) = {}

=============================================================================
