----------------------------- MODULE Scrubbing -------------------------------
(***************************************************************************)
(* From the request a client sends to the event that is matched and        *)
(* stored: proxy/normalize.py and scrub/engine.py with the packaged        *)
(* patterns, and the four places that compute a key: the proxy, the        *)
(* migration, the tweak and `llmreplay why`.                               *)
(*                                                                         *)
(* A placeholder is the HMAC of a string under a key, so two are equal     *)
(* exactly when strings and keys are.  No pattern matches a placeholder.   *)
(***************************************************************************)
EXTENDS Matching

CONSTANTS
    Secrets,        \* strings a pattern of secret_regexes matches as a whole
    Index           \* the strings that are digits, and the index they name

DropHeaders ==
    {"authorization", "x-api-key", "user-agent", "date", "x-request-id", "traceparent",
     "tracestate", "host", "content-length", "content-type", "accept",
     "accept-encoding", "connection"}
ScrubHeaderKeys == {"authorization", "x-api-key", "api-key", "cookie", "set-cookie"}
SensitiveKeys ==
    {"api_key", "apikey", "access_token", "refresh_token", "password", "secret",
     "client_secret", "private_key", "authorization"}

\* normalize_request_event: header names in lower case, noise dropped.
NormalizeRequestEvent(path, headers, body) ==
    LET Header(name) == CHOOSE h \in DOMAIN headers : Lower(h) = name
        names == {Lower(h) : h \in DOMAIN headers} \ DropHeaders
        event == [method |-> Leaf("POST"), path |-> path, body |-> body,
                  headers |-> Object([name \in names |-> headers[Header(name)]])]
    IN  Object(IF body = Null THEN Without(event, {"body"}) ELSE event)

-----------------------------------------------------------------------------
(* Scrubber *)

IsString(v) == IsLeaf(v) \/ IsPlaceholder(v) \/ IsText(v)

\* What a pattern matches is replaced, in a text wherever it stands.
ScrubString(v, hmacKey) ==
    LET Scrubbed(w) ==
            IF IsLeaf(w) /\ w.leaf \in Secrets THEN Placeholder(w, hmacKey) ELSE w
    IN  IF IsText(v) THEN Text([name \in DOMAIN v.text |-> Scrubbed(v.text[name])])
        ELSE Scrubbed(v)

\* (mutant) Headers with other names pass as they are.
ScrubHeadersNamed(headers, hmacKey) ==
    [name \in DOMAIN headers |->
        IF Lower(name) \in ScrubHeaderKeys
        THEN Placeholder(headers[name], hmacKey)
        ELSE headers[name]]

ScrubHeaders(headers, hmacKey) ==
    [name \in DOMAIN headers |->
        IF Lower(name) \in ScrubHeaderKeys
        THEN Placeholder(headers[name], hmacKey)
        ELSE ScrubString(headers[name], hmacKey)]

\* Whole strings under a sensitive name; elsewhere what a pattern matches.
RECURSIVE ScrubValue(_, _)
ScrubValue(v, hmacKey) ==
    LET Field(name) ==
            LET w == v.object[name]
            IN  IF IsString(w) /\ Lower(name) \in SensitiveKeys
                THEN Placeholder(w, hmacKey) ELSE ScrubValue(w, hmacKey)
    IN  CASE IsString(v) -> ScrubString(v, hmacKey)
          [] IsObject(v) -> Object([name \in DOMAIN v.object |-> Field(name)])
          [] IsList(v) -> List([i \in DOMAIN v.list |-> ScrubValue(v.list[i], hmacKey)])
          [] OTHER -> v

\* _scrub_dotted_path: the string at the end of a path of names and indices,
\* when there is one.
RECURSIVE ScrubPath(_, _, _)
ScrubPath(v, path, hmacKey) ==
    LET part == Head(path)
        isItem == IsList(v) /\ part \in DOMAIN Index /\ Index[part] < Len(v.list)
        w == IF isItem THEN v.list[Index[part] + 1] ELSE Get(v, part)
        Put(x) == IF isItem THEN List([v.list EXCEPT ![Index[part] + 1] = x])
                  ELSE Object([v.object EXCEPT ![part] = x])
    IN  CASE w = Null -> v
          [] w # Null /\ Len(path) > 1 -> Put(ScrubPath(w, Tail(path), hmacKey))
          [] w # Null /\ Len(path) = 1 ->
                IF IsString(w) THEN Put(Placeholder(w, hmacKey)) ELSE v

\* scrub_event; the order of the paths does not matter as they are distinct.
ScrubEvent(event, paths, hmacKey) ==
    LET Part(name) ==
            CASE name = "headers" ->
                    Object(ScrubHeaders(event.object[name].object, hmacKey))
              [] name = "body" -> ScrubValue(event.object[name], hmacKey)
              [] name = "path" -> ScrubString(event.object[name], hmacKey)
              [] OTHER -> event.object[name]
        scrubbed == Object([name \in DOMAIN event.object |-> Part(name)])
    IN  FoldLeft(LAMBDA v, path : ScrubPath(v, path, hmacKey), scrubbed, paths)

\* residual_secret_hits: a secret is left in the text, names included.
RECURSIVE ResidualHits(_)
ResidualHits(v) ==
    CASE IsLeaf(v) -> v.leaf \in Secrets
      [] IsText(v) -> ResidualHits(Object(v.text))
      [] IsList(v) -> \E i \in DOMAIN v.list : ResidualHits(v.list[i])
      [] IsObject(v) -> \E name \in DOMAIN v.object :
                           name \in Secrets \/ ResidualHits(v.object[name])
      [] OTHER -> FALSE

-----------------------------------------------------------------------------
(* Who computes a key, and of what *)

\* _forward_or_record: the event as it is stored, and its key.
StoredRequest(event, settings) == ScrubEvent(event, settings.scrub, settings.hmac)
ProxyKey(event, settings) == MatchKey(StoredRequest(event, settings), settings.ignore)

\* _migrate_0_to_1: what is stored is scrubbed once more, with the key of the
\* migrating process and the packaged patterns.
MigrationKey(stored, hmacKey) == MatchKey(ScrubEvent(stored, << >>, hmacKey), DefaultIgnoreKeys)

\* (mutant) The patched request is scrubbed once more.
TweakKeyScrubbed(stored) == MatchKey(ScrubEvent(stored, << >>, 1), DefaultIgnoreKeys)

\* tweak_transaction: what is stored, patched, as it is.
TweakKey(stored) == MatchKey(stored, DefaultIgnoreKeys)

\* diagnose_miss: the request as it is, with the ignore list of the profile.
WhyKey(event, ignore) == MatchKey(event, ignore \cup DefaultIgnoreKeys)

BodyNames(e) == LET body == Get(e, "body") IN IF IsObject(body) THEN DOMAIN body.object ELSE {}

\* (mutant) Only what was recorded is looked at.
CandidatesRecorded(event, stored) == BodyNames(stored)

Candidates(event, stored) == BodyNames(event) \cup BodyNames(stored)

\* sorted, and [:n]
InOrder(names) == SelectSeq(Alphabet, LAMBDA s : s \in names)
FirstOf(n, s) == SubSeq(s, 1, IF Len(s) < n THEN Len(s) ELSE n)

\* The fields of the body in which the projections differ; when none does, the
\* first five there are.
IgnoreCandidates(event, stored, ignore) ==
    LET all == ignore \cup DefaultIgnoreKeys
        live == Get(StaticProjection(event, all), "body")
        recorded == Get(StaticProjection(stored, all), "body")
        differing == {name \in Candidates(event, stored) : Get(live, name) # Get(recorded, name)}
    IN  IF differing # {} THEN InOrder(differing)
        ELSE FirstOf(5, InOrder(Candidates(event, stored)))

\* The command that why prints names three fields at most.
Suggested(event, stored, ignore) == FirstOf(3, IgnoreCandidates(event, stored, ignore))

=============================================================================
