-------------------------- MODULE MCConversations ----------------------------
(* Strings, setups and tool traffic for the runs of Conversations. *)
EXTENDS Conversations

Words == <<
    "Cookie", "POST", "Seed", "User-Agent", "X-Team", "a", "api_key", "arguments", "assistant", "b", "body",
    "c1", "c2", "call_id", "content", "cookie", "created", "date", "function",
    "function_call", "function_call_output", "headers", "id", "input", "messages",
    "metadata", "method", "name", "note", "output", "path", "q", "read", "reasoning",
    "role", "seed", "sk1", "sk2", "team", "thinking", "tool", "tool_call_id",
    "tool_calls", "tool_result", "tool_use", "tool_use_id", "type", "user",
    "user-agent", "x-team", "z">>
LowerCases == ("Cookie" :> "cookie") @@ ("Seed" :> "seed") @@ ("User-Agent" :> "user-agent")
                @@ ("X-Team" :> "x-team")
CallSet == {<<"c1", "q" :> Leaf("a")>>, <<"c1", "q" :> Leaf("sk1")>>, <<"c2", "q" :> Leaf("a")>>}
NoiseSet == ("date" :> Leaf("b")) @@ ("note" :> Null)
ResultSet == {<<"c1", "a">>, <<"c1", "sk1">>, <<"c2", "a">>}

\* What requests carry besides the conversation.
Plain == [headers |-> << >>, body |-> << >>]
Noisy == [headers |-> "User-Agent" :> Leaf("a"), body |-> "created" :> Leaf("b")]
Seed(s) == [headers |-> << >>, body |-> "seed" :> Leaf(s)]
Capital(s) == [headers |-> << >>, body |-> "Seed" :> Leaf(s)]
Wide(s) == [headers |-> << >>,
            body |-> [n \in {"metadata", "name", "note", "seed"} |-> Leaf(s)]]
Team(s) == [headers |-> "X-Team" :> Leaf(s), body |-> << >>]
Cookie(s) == [headers |-> "Cookie" :> Leaf(s), body |-> << >>]
Key(s) == [headers |-> "x-team" :> Leaf(s),
           body |-> "metadata" :> Object(("api_key" :> Leaf(s)) @@ ("team" :> Leaf(s)))]

Default == [ignore |-> DefaultIgnoreKeys, scrub |-> << >>, hmac |-> 1]
IgnoresSeed == [Default EXCEPT !.ignore = @ \cup {"seed"}]
IgnoresCapitals == [Default EXCEPT !.ignore = @ \cup {"Seed", "X-Team"}]
ScrubsTeam == [Default EXCEPT !.scrub = <<<<"body", "metadata", "team">>,
                                          <<"body", "messages", "0", "content">>>>]

Setup(format, blocks, s, recorded, live) ==
    [format |-> format, blocks |-> blocks, settings |-> s,
     says |-> IF blocks = 4 THEN 0 ELSE 1,
     frames |-> [recorded |-> recorded, live |-> live]]

SetupList == <<
    Setup("anthropic", 4, Default, Plain, Noisy),
    Setup("chat", 4, Default, Plain, Noisy),
    Setup("anthropic", 3, Default, Plain, Noisy),
    Setup("chat", 3, Default, Plain, Noisy),
    Setup("responses", 3, Default, Plain, Noisy),
    Setup("anthropic", 2, Default, Seed("a"), Plain),
    Setup("anthropic", 2, Default, Plain, Seed("b")),
    Setup("anthropic", 2, Default, Seed("a"), Seed("b")),
    Setup("anthropic", 2, IgnoresSeed, Seed("a"), Plain),
    Setup("anthropic", 2, IgnoresSeed, Seed("a"), Seed("b")),
    Setup("anthropic", 2, IgnoresSeed, Capital("a"), Seed("b")),
    Setup("anthropic", 2, Default, Wide("a"), Wide("b")),
    Setup("chat", 2, Default, Plain, Wide("a")),
    Setup("anthropic", 1, IgnoresCapitals, Capital("a"), Capital("b")),
    Setup("anthropic", 1, IgnoresCapitals, Capital("a"), Seed("b")),
    Setup("anthropic", 1, IgnoresCapitals, Seed("a"), Seed("b")),
    Setup("anthropic", 1, IgnoresCapitals, Team("a"), Team("b")),
    Setup("anthropic", 2, Default, Cookie("a"), Cookie("a")),
    Setup("anthropic", 2, Default, Cookie("sk1"), Cookie("a")),
    Setup("chat", 2, Default, Key("a"), Key("sk1")),
    Setup("chat", 2, Default, Key("sk1"), Key("sk1")),
    Setup("chat", 2, Default, Key("sk2"), Key("sk1")),
    Setup("chat", 2, ScrubsTeam, Key("a"), Key("sk1")),
    Setup("chat", 2, ScrubsTeam, Key("sk1"), Key("sk1")),
    Setup("chat", 2, ScrubsTeam, Key("sk2"), Key("sk1"))>>

\* The values of the constants: a definition of this module is evaluated once.
MCAlphabet == Words
MCLowerCase == LowerCases
MCSecrets == {"sk1", "sk2"}
MCIndex == "0" :> 0
MCSetups == SetupList
MCCalls == CallSet
MCResults == ResultSet
MCNoiseArgs == NoiseSet

=============================================================================
