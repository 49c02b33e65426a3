------------------------------ MODULE Matching -------------------------------
(***************************************************************************)
(* The match pipeline, core/match.py and core/volatility.py: what is left  *)
(* out of a request, how its parallel tool blocks are sorted, and the key  *)
(* it gets.  SHA-256 tells texts apart, so a key is the canonical text.    *)
(*                                                                         *)
(* A JSON value is a record with one field that says what it is: a string, *)
(* a list, an object, null, or the placeholder a scrubbed string became.   *)
(* A string that is itself the JSON text of a flat object is kept as that  *)
(* object: it is a string to all the code, and no walk enters it.          *)
(* Names and strings are compared by their place in Alphabet.              *)
(***************************************************************************)
EXTENDS ToolOrder, SequencesExt

CONSTANTS
    Alphabet,       \* every name and string, in the order of code points
    LowerCase       \* the lower case of the names that have capitals

ASSUME MatchingAssumption == IsInjective(Alphabet)

Leaf(s) == [leaf |-> s]
List(s) == [list |-> s]
Object(f) == [object |-> f]
Text(f) == [text |-> f]
Null == [null |-> TRUE]
Placeholder(v, hmacKey) == [hmac |-> v, by |-> hmacKey]

IsLeaf(v) == "leaf" \in DOMAIN v
IsList(v) == "list" \in DOMAIN v
IsObject(v) == "object" \in DOMAIN v
IsText(v) == "text" \in DOMAIN v
IsPlaceholder(v) == "hmac" \in DOMAIN v

Lower(name) == IF name \in DOMAIN LowerCase THEN LowerCase[name] ELSE name

\* The function f without the names in S.
Without(f, S) == [name \in DOMAIN f \ S |-> f[name]]

\* dict.get
GetOr(v, name, default) ==
    IF IsObject(v) /\ name \in DOMAIN v.object THEN v.object[name] ELSE default
Get(v, name) == GetOr(v, name, Null)

-----------------------------------------------------------------------------
(* dumps_jcs *)

Rank == [s \in Range(Alphabet) |-> CHOOSE i \in DOMAIN Alphabet : Alphabet[i] = s]

\* Brackets come after every string, as they do in ASCII.
Token(n) == Len(Alphabet) + n

RECURSIVE JCS(_)
JCS(v) ==
    CASE IsLeaf(v) -> <<Rank[v.leaf]>>
      [] IsPlaceholder(v) -> <<Token(1), v.by>> \o JCS(v.hmac)
      [] IsList(v) ->
            <<Token(2)>> \o FlattenSeq([i \in DOMAIN v.list |-> JCS(v.list[i])])
                \o <<Token(3)>>
      [] IsObject(v) ->
            LET names == SelectSeq(Alphabet, LAMBDA s : s \in DOMAIN v.object)
            IN  <<Token(5)>>
                \o FlattenSeq([i \in DOMAIN names |->
                                  <<Rank[names[i]]>> \o JCS(v.object[names[i]])])
                \o <<Token(6)>>
      [] IsText(v) -> <<Token(7)>> \o JCS(Object(v.text))
      [] OTHER -> <<Token(4)>>

-----------------------------------------------------------------------------
(* What is left out *)

DefaultIgnoreKeys ==
    {"usage", "latency_ms", "x-request-id", "date", "created", "created_at", "stream"}
ThinkingBlockTypes == {Leaf("thinking"), Leaf("reasoning")}

Ignored(name, ignore) == Lower(name) \in ignore \/ name \in ignore

RECURSIVE StripIgnored(_, _)
StripIgnored(v, ignore) ==
    CASE IsObject(v) ->
            LET kept == {name \in DOMAIN v.object : ~Ignored(name, ignore)}
            IN  Object([name \in kept |-> StripIgnored(v.object[name], ignore)])
      [] IsList(v) -> List([i \in DOMAIN v.list |-> StripIgnored(v.list[i], ignore)])
      [] OTHER -> v

\* A thinking block becomes null, and null goes: one in the request included.
Vanishes(v) == v = Null \/ Get(v, "type") \in ThinkingBlockTypes

RECURSIVE StripThinking(_)
StripThinking(v) ==
    CASE Vanishes(v) -> Null
      [] ~Vanishes(v) /\ IsObject(v) ->
            LET kept == {name \in DOMAIN v.object : ~Vanishes(v.object[name])}
            IN  Object([name \in kept |-> StripThinking(v.object[name])])
      [] IsList(v) ->
            LET kept == SelectSeq(v.list, LAMBDA item : ~Vanishes(item))
            IN  List([i \in DOMAIN kept |-> StripThinking(kept[i])])
      [] OTHER -> v

-----------------------------------------------------------------------------
(* Sorting of parallel tool blocks *)

\* str(block.get(name, "")): the empty string comes before every other.
TextOf(block, name) ==
    LET v == Get(block, name) IN IF v = Null THEN <<0>> ELSE JCS(v)

CallOrder(block) ==
    TextOf(block, "name") \o JCS(GetOr(block, "input", Object(<< >>)))
        \o TextOf(block, "id")

\* Anthropic content: the calls go last, sorted; with no call in it, two or
\* more results go last, sorted.
SortToolBlocks(message) ==
    LET content == Get(message, "content")
        Of(type) == {i \in DOMAIN content.list : Get(content.list[i], "type") = Leaf(type)}
        SortedLast(type, Order(_)) ==
            LET texts == [i \in DOMAIN content.list |-> Order(content.list[i])]
            IN  Object([message.object EXCEPT !["content"] =
                          List(SortLast(content.list, Of(type), texts))])
    IN  IF ~IsList(content) THEN message
        ELSE IF Of("tool_use") # {} THEN SortedLast("tool_use", CallOrder)
             ELSE IF Cardinality(Of("tool_result")) > 1
                  THEN SortedLast("tool_result", LAMBDA b : TextOf(b, "tool_use_id"))
                  ELSE message

\* Each contiguous run of the items In holds of is sorted by the field id.
SortRunsOf(s, In(_), id) ==
    SortRuns(s, {i \in DOMAIN s : In(s[i])}, [i \in DOMAIN s |-> TextOf(s[i], id)])

\* (mutant) Results of the chat API stay in their order of arrival.
SortToolMessagesNever(messages) == messages

SortToolMessages(messages) ==
    SortRunsOf(messages, LAMBDA m : Get(m, "role") = Leaf("tool"), "tool_call_id")

SortFunctionOutputs(items) ==
    SortRunsOf(items, LAMBDA m : Get(m, "type") = Leaf("function_call_output"), "call_id")

SortToolCalls(messages) ==
    LET Sorted(m) ==
            LET calls == Get(m, "tool_calls")
            IN  IF IsList(calls)
                THEN LET ids == [i \in DOMAIN calls.list |-> TextOf(calls.list[i], "id")]
                     IN  Object([m.object EXCEPT !["tool_calls"] =
                                   List(StableSort(calls.list, ids))])
                ELSE m
    IN  [i \in DOMAIN messages |-> Sorted(messages[i])]

\* Every list called messages or input is sorted, at any depth.
RECURSIVE SortTools(_)
SortTools(v) ==
    LET Sorted(seq) ==
            SortFunctionOutputs(SortToolCalls(SortToolMessages(
                [i \in DOMAIN seq |->
                    IF IsObject(seq[i]) THEN SortToolBlocks(seq[i]) ELSE seq[i]])))
        Field(name) ==
            LET w == SortTools(v.object[name])
            IN  IF name \in {"messages", "input"} /\ IsList(w) THEN List(Sorted(w.list)) ELSE w
    IN  CASE IsObject(v) -> Object([name \in DOMAIN v.object |-> Field(name)])
          [] IsList(v) -> List([i \in DOMAIN v.list |-> SortTools(v.list[i])])
          [] OTHER -> v

-----------------------------------------------------------------------------

StaticProjection(event, ignore) == SortTools(StripThinking(StripIgnored(event, ignore)))

MatchKey(event, ignore) == JCS(StaticProjection(event, ignore))

=============================================================================
