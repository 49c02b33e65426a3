---------------------------- MODULE Proxy_proof -----------------------------
(***************************************************************************)
(* Proofs about Proxy: whatever processes start, stop and crash on one     *)
(* cassette and however their handlers interleave, replay is hermetic, it  *)
(* answers from the state of the cassette it started on, and a recording   *)
(* keeps what it answered; and replaying implements ReplaySession.  The    *)
(* last sections are about the order that the keys of requests rest on:    *)
(* sorting makes one list of the parallel tool blocks of a turn, in        *)
(* whatever order they came, and never one of two that differ in more.     *)
(***************************************************************************)
EXTENDS Proxy, ToolOrder, FiniteSetTheorems, TLAPS

-----------------------------------------------------------------------------
(* The index *)

\* The order of the naturals as a set of pairs.
LEMMA LessThanWellFounded == IsWellFoundedOn({x \in Nat \X Nat : x[1] < x[2]}, Nat)
BY NatLessThanWellFounded, Zenon DEF OpToRel

\* A set of places that is not empty has a last one.
LEMMA LastPlace ==
    ASSUME NEW n \in Nat, NEW H, H \subseteq 1 .. n, H # {}
    PROVE  \E i \in H : \A j \in H : j <= i
<1> DEFINE FromEnd == {d \in 0 .. n : n - d \in H}
<1>0. \A i \in H : i \in 1 .. n /\ n - i \in FromEnd
  <2> SUFFICES ASSUME NEW i \in H PROVE i \in 1 .. n /\ n - i \in FromEnd
    OBVIOUS
  <2>1. i \in 1 .. n
    OBVIOUS
  <2>2. n - i \in 0 .. n /\ n - (n - i) = i
    BY <2>1
  <2> QED
    BY <2>1, <2>2
<1>1. FromEnd \subseteq Nat /\ FromEnd # {}
  <2>1. PICK i \in H : TRUE
    OBVIOUS
  <2>2. n - i \in FromEnd
    BY <1>0
  <2>3. FromEnd \subseteq Nat
    OBVIOUS
  <2> HIDE DEF FromEnd
  <2> QED
    BY <2>2, <2>3
<1>2. PICK d \in FromEnd : \A e \in FromEnd : <<e, d>> \notin {x \in Nat \X Nat : x[1] < x[2]}
  <2> HIDE DEF FromEnd
  <2> QED
    BY <1>1, LessThanWellFounded, WFMin, Zenon
<1>3. \A e \in FromEnd : ~(e < d)
  BY <1>1, <1>2
<1>4. \A j \in H : j <= n - d
  <2> SUFFICES ASSUME NEW j \in H PROVE j <= n - d
    OBVIOUS
  <2>1. j \in 1 .. n /\ ~(n - j < d) /\ d \in 0 .. n
    BY <1>0, <1>3
  <2> QED
    BY <2>1
<1> QED
  BY <1>4

\* rebuild_index keeps the body of the last transaction with a key.
LEMMA LastWinsHit ==
    ASSUME NEW S, NEW log \in Seq(S), NEW k \in DOMAIN LastWins(log)
    PROVE  \E i \in DOMAIN log :
               /\ log[i].key = k
               /\ \A j \in DOMAIN log : log[j].key = k => j <= i
               /\ LastWins(log)[k] = log[i].body
<1> DEFINE Hits == {i \in DOMAIN log : log[i].key = k}
           IsLast(i) == /\ i \in DOMAIN log /\ log[i].key = k
                        /\ \A j \in DOMAIN log : log[j].key = k => j <= i
<1>1. k \in {log[i].key : i \in DOMAIN log}
  BY DEF LastWins
<1>2. \E i \in Hits : \A j \in Hits : j <= i
  <2>1. Hits \subseteq 1 .. Len(log) /\ Hits # {} /\ Len(log) \in Nat
    BY <1>1
  <2> HIDE DEF Hits
  <2> QED
    BY <2>1, LastPlace
<1>3. PICK i \in DOMAIN log : IsLast(i)
  BY <1>2
<1> DEFINE last == CHOOSE j \in DOMAIN log :
                    /\ log[j].key = k
                    /\ \A m \in DOMAIN log : log[m].key = k => m <= j
<1>4. IsLast(last)
  BY <1>3
<1>5. LastWins(log)[k] = log[last].body
  BY <1>1 DEF LastWins
<1> QED
  BY <1>4, <1>5

-----------------------------------------------------------------------------
(* The inductive invariant *)

TxOf(r, b, c, h) ==
    [key |-> MatchKey(r, c, h), req |-> r, body |-> b, conf |-> c, hmac |-> h]

\* Transactions carry the key of their own request under their own settings.
Txs == {TxOf(r, b, c, h) : r \in Requests, b \in Bodies, c \in Configs, h \in 0 .. MaxStarts}

\* Every variable of Proxy has the type its process gives it.
TypeOK ==
    /\ cassette \in Seq(Txs)
    /\ config \in [Proxies -> Configs \cup {Down}]
    /\ hmac \in [Proxies -> 0 .. MaxStarts]
    /\ stamping \subseteq Proxies
    /\ DOMAIN index = Proxies
    /\ slot \in [Slots -> HandlerType \cup {Free}]
    /\ source \in [Proxies -> Seq(Txs)]
    /\ recorded \subseteq Txs
    /\ starts \in 0 .. MaxStarts

\* What start-up establishes: the settings are legal, the shared HMAC key is
\* key 0, and a replay is answered from what the cassette held.
StartedWell(p) ==
    config[p] # Down =>
        /\ Legal(config[p])
        /\ config[p].hmacEnv => hmac[p] = 0
        /\ config[p].mode = "replay" => index[p] = LastWins(source[p])

\* Only a free recorder writes a test stack.
StampsWell(p) == p \in stamping => config[p] # Down /\ Stamps(config[p])

\* What the cassette holds, or held when a process started, was appended.
Lists(log) == \A i \in DOMAIN log : log[i] \in recorded

\* What a replay answered is what its index had, or a miss.
AnsweredWell(s) ==
    LET answer == slot[s].answer
        served == LastWins(source[slot[s].proxy])
    IN  /\ answer.from = "cassette" =>
              /\ Conf(s).mode = "replay"
              /\ Key(s) \in DOMAIN served
              /\ answer.body = served[Key(s)]
        /\ Replays(s) /\ answer.status # "refused" =>
              \/ answer.status = "ok" /\ answer.from = "cassette"
              \/ answer.status = "miss" /\ Key(s) \notin DOMAIN served

\* Only the handlers of running processes run; only those of a recording write
\* and, in ci and strict, no secret; a replay is at the upstream only if live.
HandledWell(s) ==
    slot[s] # Free =>
        /\ Conf(s) # Down
        /\ slot[s].phase = "writing" =>
              /\ Conf(s).mode = "record"
              /\ slot[s].reply \in Replies
              /\ Conf(s).strict => slot[s].reply.secret # "left"
        /\ slot[s].phase = "upstream" /\ Conf(s).mode = "replay" =>
              Conf(s).live /\ slot[s].req.text # Models
        /\ slot[s].phase = "answered" => AnsweredWell(s)

IInv ==
    /\ TypeOK
    /\ \A p \in Proxies : StartedWell(p) /\ StampsWell(p) /\ Lists(source[p])
    /\ Lists(cassette)
    /\ \A s \in Slots : HandledWell(s)
    /\ StrictStoresNoSecret
    /\ AnsweredIsRecorded

-----------------------------------------------------------------------------
(* Facts about the data *)

\* A configuration is a record of Booleans and a mode.
LEMMA ConfigFacts ==
    ASSUME NEW c \in Configs
    PROVE  /\ c.mode \in {"record", "replay"}
           /\ c.strict \in BOOLEAN /\ c.live \in BOOLEAN /\ c.ignores \in BOOLEAN
           /\ c.hmacEnv \in BOOLEAN
BY ProxyAssumption DEF ConfigType, Modes

\* A transaction is the one that its own fields make.
LEMMA TxFacts ==
    ASSUME NEW tx \in Txs
    PROVE  /\ tx.key = MatchKey(tx.req, tx.conf, tx.hmac)
           /\ tx.req \in Requests /\ tx.body \in Bodies /\ tx.conf \in Configs
           /\ tx.hmac \in 0 .. MaxStarts
<1>1. PICK r \in Requests, b \in Bodies, c \in Configs, h \in 0 .. MaxStarts :
          tx = TxOf(r, b, c, h)
  BY DEF Txs
<1> QED
  BY <1>1 DEF TxOf

\* What is stored of a reply and what is given of it: the same value, once with
\* and once without what the scrubbers find.
LEMMA BodyFacts ==
    ASSUME NEW u \in Replies
    PROVE  /\ Stored(u) \in Bodies /\ Given(u) \in Bodies
           /\ Stored(u).value = Given(u).value
           /\ Stored(u).secret # "found"
           /\ u.secret # "left" => Stored(u).secret \in {"none", "scrubbed"}
           /\ ~Given(u).wrapped /\ Given(u).secret # "scrubbed"
<1>1. Stored(u) \in Bodies /\ Given(u) \in Bodies
  BY DEF Bodies
<1>2. u.secret \in {"none", "found", "left"}
  BY ProxyAssumption
<1> QED
  BY <1>1, <1>2 DEF Stored, Given

\* An entry of the index is the body of a transaction with its key.
LEMMA IndexBody ==
    ASSUME NEW log \in Seq(Txs), NEW k \in DOMAIN LastWins(log)
    PROVE  LastWins(log)[k] \in Bodies
BY LastWinsHit, TxFacts

\* The handler of a slot, its configuration and its key are well typed.
LEMMA SlotFacts ==
    ASSUME TypeOK, NEW s \in Slots, slot[s] # Free
    PROVE  /\ slot[s] \in HandlerType
           /\ slot[s].proxy \in Proxies /\ slot[s].req \in Requests
           /\ slot[s].reply \in Replies \cup {NoReply} /\ slot[s].answer \in Answers
           /\ hmac[slot[s].proxy] \in 0 .. MaxStarts
           /\ Conf(s) # Down => Conf(s) \in Configs
BY DEF TypeOK, HandlerType, Conf

\* What an append adds is a transaction.
LEMMA RecordedTx ==
    ASSUME TypeOK, NEW s \in Slots, slot[s] # Free, Conf(s) # Down,
           slot[s].reply \in Replies, Recorded(s)
    PROVE  \E tx \in Txs :
               /\ tx.key = Key(s) /\ tx.body = Stored(slot[s].reply) /\ tx.conf = Conf(s)
               /\ tx.hmac = hmac[slot[s].proxy]
               /\ cassette' = Append(cassette, tx)
               /\ recorded' = recorded \cup {tx}
<1> DEFINE tx == TxOf(slot[s].req, Stored(slot[s].reply), Conf(s), hmac[slot[s].proxy])
<1>1. tx \in Txs
  BY SlotFacts, BodyFacts DEF Txs
<1>2. /\ tx.key = Key(s) /\ tx.body = Stored(slot[s].reply) /\ tx.conf = Conf(s)
      /\ tx.hmac = hmac[slot[s].proxy]
  BY DEF TxOf, Key, Conf
<1>3. cassette' = Append(cassette, tx) /\ recorded' = recorded \cup {tx}
  BY DEF Recorded, Extended, TxOf, Key, Conf
<1> HIDE DEF tx
<1> QED
  BY <1>1, <1>2, <1>3

-----------------------------------------------------------------------------
(* Steps *)

\* A step that only a handler sees.
Quiet == UNCHANGED <<cassette, config, hmac, stamping, index, history, starts>>

\* A step that changes one slot keeps the invariant if its handler does.
LEMMA OneHandler ==
    ASSUME IInv, NEW s \in Slots, NEW h \in HandlerType \cup {Free},
           slot' = [slot EXCEPT ![s] = h],
           Quiet,
           HandledWell(s)',
           ~(Answered(s)' /\ Conf(s)'.mode = "record" /\ slot'[s].answer.status = "ok")
    PROVE  IInv'
<1>1. TypeOK'
  BY DEF IInv, TypeOK, history, Quiet
<1>2. \A t \in Slots \ {s} : slot'[t] = slot[t]
  BY DEF IInv, TypeOK
<1>3. \A t \in Slots \ {s} : HandledWell(t)'
  BY <1>2 DEF IInv, HandledWell, AnsweredWell, Conf, Key, Replays, history, Quiet
<1>4. \A p \in Proxies : StartedWell(p)' /\ StampsWell(p)' /\ Lists(source[p])'
  BY DEF IInv, StartedWell, StampsWell, Lists, history, Quiet
<1>5. AnsweredIsRecorded'
  BY <1>2 DEF IInv, AnsweredIsRecorded, Answered, InPhase, Conf, Key, history, Quiet
<1>6. Lists(cassette)' /\ StrictStoresNoSecret'
  BY DEF IInv, Lists, StrictStoresNoSecret, history, Quiet
<1> QED
  BY <1>1, <1>3, <1>4, <1>5, <1>6 DEF IInv

\* An answer changes one slot, and of it the phase and the answer.
LEMMA RespondSlot ==
    ASSUME TypeOK, NEW s \in Slots, slot[s] # Free,
           NEW status \in Statuses, NEW from \in Origins, NEW body \in Bodies,
           Respond(s, Answer(status, from, body))
    PROVE  \E h \in HandlerType :
               /\ slot' = [slot EXCEPT ![s] = h]
               /\ h.proxy = slot[s].proxy /\ h.req = slot[s].req /\ h.phase = "answered"
               /\ h.answer.status = status /\ h.answer.from = from /\ h.answer.body = body
<1>1. slot[s] \in HandlerType /\ slot \in [Slots -> HandlerType \cup {Free}]
  BY DEF TypeOK
<1> DEFINE a == Answer(status, from, body)
           mid == [slot EXCEPT ![s].phase = "answered"]
           h == [mid[s] EXCEPT !.answer = a]
<1>2. a \in Answers /\ a.status = status /\ a.from = from /\ a.body = body
  BY DEF Answers, Answer
<1>3. slot' = [mid EXCEPT ![s].answer = a]
  BY DEF Respond
<1> HIDE DEF a
<1>4. /\ mid \in [Slots -> HandlerType \cup {Free}] /\ mid[s] \in HandlerType
      /\ \A t \in Slots \ {s} : mid[t] = slot[t]
      /\ mid[s].proxy = slot[s].proxy /\ mid[s].req = slot[s].req /\ mid[s].phase = "answered"
  <2> DEFINE h0 == [slot[s] EXCEPT !.phase = "answered"]
  <2>1. /\ h0 \in HandlerType
        /\ h0.proxy = slot[s].proxy /\ h0.req = slot[s].req /\ h0.phase = "answered"
    BY <1>1 DEF HandlerType, Phases
  <2>2. mid = [slot EXCEPT ![s] = h0]
    OBVIOUS
  <2> HIDE DEF h0, mid
  <2> QED
    BY <1>1, <2>1, <2>2
<1> HIDE DEF mid
<1>5. /\ h \in HandlerType
      /\ h.proxy = slot[s].proxy /\ h.req = slot[s].req /\ h.phase = "answered"
      /\ h.answer = a
  BY <1>2, <1>4 DEF HandlerType
<1>6. slot' = [mid EXCEPT ![s] = h]
  BY <1>3
<1> HIDE DEF h
<1>7. slot' = [slot EXCEPT ![s] = h]
  BY <1>1, <1>4, <1>6
<1> QED
  BY <1>2, <1>5, <1>7

\* A handler that answers without an append.
LEMMA Responds ==
    ASSUME IInv, NEW s \in Slots, slot[s] # Free,
           NEW status \in Statuses, NEW from \in Origins, NEW body \in Bodies,
           Respond(s, Answer(status, from, body)),
           Quiet,
           from = "cassette" =>
              /\ Conf(s).mode = "replay"
              /\ Key(s) \in DOMAIN LastWins(source[slot[s].proxy])
              /\ body = LastWins(source[slot[s].proxy])[Key(s)],
           Replays(s) /\ status # "refused" =>
              \/ status = "ok" /\ from = "cassette"
              \/ /\ status = "miss"
                 /\ Key(s) \notin DOMAIN LastWins(source[slot[s].proxy]),
           Conf(s).mode = "record" => status # "ok"
    PROVE  IInv'
<1>1. Conf(s) # Down /\ TypeOK
  BY DEF IInv, HandledWell
<1>2. PICK h \in HandlerType :
          /\ slot' = [slot EXCEPT ![s] = h]
          /\ h.proxy = slot[s].proxy /\ h.req = slot[s].req /\ h.phase = "answered"
          /\ h.answer.status = status /\ h.answer.from = from /\ h.answer.body = body
  BY <1>1, RespondSlot
<1>3. slot'[s] = h
  BY <1>1, <1>2 DEF TypeOK
<1>4. HandledWell(s)'
  BY <1>1, <1>2, <1>3 DEF HandledWell, AnsweredWell, Conf, Key, Replays, history, Quiet
<1>5. ~(Answered(s)' /\ Conf(s)'.mode = "record" /\ slot'[s].answer.status = "ok")
  BY <1>2, <1>3 DEF Conf, Quiet
<1> QED
  BY <1>2, <1>4, <1>5, OneHandler

LEMMA NoBodyIsBody == NoBody \in Bodies
BY DEF Bodies

\* What a replaying handler looks its key up in.
LEMMA ServedIs ==
    ASSUME IInv, NEW s \in Slots, slot[s] # Free, Conf(s).mode = "replay"
    PROVE  /\ Served(s) = LastWins(source[slot[s].proxy])
           /\ \A k \in DOMAIN Served(s) : Served(s)[k] \in Bodies
<1>1. slot[s].proxy \in Proxies /\ config[slot[s].proxy] # Down
  BY SlotFacts DEF IInv, HandledWell, Conf
<1>2. Served(s) = LastWins(source[slot[s].proxy])
  BY <1>1 DEF IInv, StartedWell, Served, Conf
<1>3. source[slot[s].proxy] \in Seq(Txs)
  BY <1>1 DEF IInv, TypeOK
<1> QED
  BY <1>2, <1>3, IndexBody

LEMMA RefuseStep ==
    ASSUME IInv, NEW s \in Slots, Refuse(s)
    PROVE  IInv'
<1>1. slot[s] # Free /\ Respond(s, Answer("refused", "none", NoBody)) /\ Quiet
  BY DEF Refuse, Ready, InPhase, Quiet
<1> QED
  BY <1>1, NoBodyIsBody, Responds DEF Statuses, Origins

LEMMA ServeModelsStep ==
    ASSUME IInv, NEW s \in Slots, ServeModels(s)
    PROVE  IInv'
<1>1. slot[s] # Free /\ Conf(s).mode = "replay" /\ ~Replays(s) /\ Quiet
  BY DEF ServeModels, Ready, InPhase, Replays, Quiet
<1>2. CASE Key(s) \in DOMAIN Served(s)
  <2>1. Respond(s, Answer("ok", "cassette", Served(s)[Key(s)]))
    BY <1>2 DEF ServeModels
  <2> QED
    BY <1>1, <1>2, <2>1, ServedIs, Responds DEF Statuses, Origins
<1>3. CASE Key(s) \notin DOMAIN Served(s)
  <2>1. Respond(s, Answer("ok", "synthetic", NoBody))
    BY <1>3 DEF ServeModels
  <2> QED
    BY <1>1, <2>1, NoBodyIsBody, Responds DEF Statuses, Origins
<1> QED
  BY <1>2, <1>3

LEMMA ServeReplayStep ==
    ASSUME IInv, NEW s \in Slots, ServeReplay(s)
    PROVE  IInv'
<1>1. slot[s] # Free /\ Conf(s).mode = "replay" /\ Quiet
  BY DEF ServeReplay, Ready, InPhase, Quiet
<1>2. CASE Key(s) \in DOMAIN Served(s)
  <2>1. Respond(s, Answer("ok", "cassette", Served(s)[Key(s)]))
    BY <1>2 DEF ServeReplay
  <2> QED
    BY <1>1, <1>2, <2>1, ServedIs, Responds DEF Statuses, Origins
<1>3. CASE Key(s) \notin DOMAIN Served(s)
  <2>1. Respond(s, Answer("miss", "none", NoBody))
    BY <1>3 DEF ServeReplay
  <2> QED
    BY <1>1, <1>3, <2>1, NoBodyIsBody, ServedIs, Responds DEF Statuses, Origins
<1> QED
  BY <1>2, <1>3

\* A handler that goes on without an answer.
LEMMA GoesOn ==
    ASSUME IInv, NEW s \in Slots, NEW h \in HandlerType,
           slot' = [slot EXCEPT ![s] = h],
           Quiet,
           config[h.proxy] # Down,
           h.phase \in {"received", "upstream", "writing"},
           h.phase = "writing" =>
              /\ config[h.proxy].mode = "record"
              /\ h.reply \in Replies
              /\ config[h.proxy].strict => h.reply.secret # "left",
           h.phase = "upstream" /\ config[h.proxy].mode = "replay" =>
              config[h.proxy].live /\ h.req.text # Models
    PROVE  IInv'
<1>1. slot'[s] = h
  BY DEF IInv, TypeOK
<1>2. HandledWell(s)'
  BY <1>1 DEF HandledWell, Conf, Quiet
<1>3. ~(Answered(s)' /\ Conf(s)'.mode = "record" /\ slot'[s].answer.status = "ok")
  BY <1>1 DEF Answered, InPhase
<1> QED
  BY <1>2, <1>3, OneHandler

LEMMA SendStep ==
    ASSUME IInv, NEW s \in Slots, NEW p \in Proxies, NEW r \in Requests, Send(s, p, r)
    PROVE  IInv'
<1> DEFINE h == Handler(p, r, "received")
<1>1. h \in HandlerType /\ h.proxy = p /\ h.phase = "received"
  BY NoBodyIsBody DEF Handler, HandlerType, Phases, Answers, Answer, Statuses, Origins
<1>2. slot' = [slot EXCEPT ![s] = h] /\ Quiet /\ config[p] # Down
  BY DEF Send, Quiet
<1> HIDE DEF h
<1> QED
  BY <1>1, <1>2, GoesOn

LEMMA CollectStep ==
    ASSUME IInv, NEW s \in Slots, Collect(s)
    PROVE  IInv'
<1>1. slot' = [slot EXCEPT ![s] = Free] /\ Quiet
  BY DEF Collect, Quiet
<1>2. slot'[s] = Free
  BY <1>1 DEF IInv, TypeOK
<1>3. HandledWell(s)' /\ ~Answered(s)'
  BY <1>2 DEF HandledWell, Answered, InPhase
<1> QED
  BY <1>1, <1>3, OneHandler

LEMMA UpstreamFailsStep ==
    ASSUME IInv, NEW s \in Slots, UpstreamFails(s)
    PROVE  IInv'
<1>1. /\ slot[s] # Free /\ slot[s].phase = "upstream" /\ Quiet
      /\ Respond(s, Answer("unavailable", "none", NoBody))
  BY DEF UpstreamFails, Ready, InPhase, Quiet
<1>2. ~Replays(s)
  BY <1>1 DEF IInv, HandledWell, Replays
<1> QED
  BY <1>1, <1>2, NoBodyIsBody, Responds DEF Statuses, Origins

LEMMA ForwardStep ==
    ASSUME IInv, NEW s \in Slots, Forward(s)
    PROVE  IInv'
<1>1. slot[s] # Free /\ Quiet /\ GoesUpstream(s)
  BY DEF Forward, Ready, InPhase, Quiet
<1>2. slot[s] \in HandlerType /\ Conf(s) # Down
  BY <1>1, SlotFacts DEF IInv, HandledWell
<1>3. CASE HasUpstream(Conf(s))
  <2> DEFINE h == [slot[s] EXCEPT !.phase = "upstream"]
  <2>1. /\ h \in HandlerType /\ h.phase = "upstream"
        /\ h.proxy = slot[s].proxy /\ h.req = slot[s].req
    BY <1>2 DEF HandlerType, Phases
  <2>2. slot' = [slot EXCEPT ![s] = h]
    BY <1>3 DEF Forward
  <2> HIDE DEF h
  <2>3. config[h.proxy].mode = "replay" => config[h.proxy].live /\ h.req.text # Models
    BY <1>1, <2>1 DEF GoesUpstream, Conf
  <2> QED
    BY <1>1, <1>2, <2>1, <2>2, <2>3, GoesOn DEF Conf
<1>4. CASE ~HasUpstream(Conf(s))
  <2>1. Respond(s, Answer("unavailable", "none", NoBody))
    BY <1>4 DEF Forward
  <2>2. ~Replays(s)
    BY <1>1 DEF GoesUpstream, Replays
  <2> QED
    BY <1>1, <2>1, <2>2, NoBodyIsBody, Responds DEF Statuses, Origins
<1> QED
  BY <1>3, <1>4

LEMMA UpstreamRepliesStep ==
    ASSUME IInv, NEW s \in Slots, NEW u \in Replies, UpstreamReplies(s, u)
    PROVE  IInv'
<1>1. slot[s] # Free /\ slot[s].phase = "upstream" /\ Quiet
  BY DEF UpstreamReplies, Ready, InPhase, Quiet
<1>2. slot[s] \in HandlerType /\ Conf(s) # Down /\ ~Replays(s)
  BY <1>1, SlotFacts DEF IInv, HandledWell, Replays
<1>3. Given(u) \in Bodies
  BY BodyFacts
<1>4. CASE Writes(s, u) /\ ~RefusesSecret(s, u)
  <2> DEFINE mid == [slot[s] EXCEPT !.phase = "writing"]
             h == [mid EXCEPT !.reply = u]
             slots == [slot EXCEPT ![s].phase = "writing"]
  <2>1. slot' = [slots EXCEPT ![s].reply = u]
    BY <1>4 DEF UpstreamReplies
  <2>2. mid \in HandlerType /\ mid.phase = "writing" /\ mid.proxy = slot[s].proxy
    BY <1>2 DEF HandlerType, Phases
  <2>3. slots = [slot EXCEPT ![s] = mid]
    OBVIOUS
  <2> HIDE DEF mid, slots
  <2>4. /\ h \in HandlerType /\ h.phase = "writing" /\ h.proxy = slot[s].proxy
        /\ h.reply = u
    BY <1>3, <2>2 DEF HandlerType
  <2>5. slots \in [Slots -> HandlerType \cup {Free}] /\ slots[s] = mid
    BY <2>2, <2>3 DEF IInv, TypeOK
  <2>6. slot' = [slots EXCEPT ![s] = h]
    BY <2>1, <2>5
  <2> HIDE DEF h
  <2>7. slot' = [slot EXCEPT ![s] = h]
    BY <2>3, <2>6 DEF IInv, TypeOK
  <2>8. /\ config[h.proxy].mode = "record" /\ h.reply \in Replies
        /\ config[h.proxy].strict => h.reply.secret # "left"
    BY <1>4, <2>4 DEF Writes, RefusesSecret, Conf
  <2> QED
    BY <1>1, <1>2, <2>4, <2>7, <2>8, GoesOn DEF Conf
<1>5. CASE Writes(s, u) /\ RefusesSecret(s, u)
  <2>1. Respond(s, Answer("secret", "none", NoBody))
    BY <1>5 DEF UpstreamReplies
  <2> QED
    BY <1>1, <1>2, <2>1, NoBodyIsBody, Responds DEF Statuses, Origins
<1>6. CASE ~Writes(s, u)
  <2> DEFINE status == IF u.ok THEN "ok" ELSE "error"
  <2>1. Respond(s, Answer(status, "upstream", Given(u)))
    BY <1>6 DEF UpstreamReplies
  <2>2. status \in Statuses /\ (Conf(s).mode = "record" => status # "ok")
    BY <1>6 DEF Statuses, Writes
  <2> HIDE DEF status
  <2> QED
    BY <1>1, <1>2, <1>3, <2>1, <2>2, Responds DEF Origins
<1> QED
  BY <1>4, <1>5, <1>6

\* What an append does to the cassette: what it held stays in its place, the
\* transaction of the handler comes after it, and it is no secret of ci.
LEMMA Appended ==
    ASSUME IInv, NEW s \in Slots, InPhase(s, "writing"), Recorded(s)
    PROVE  /\ cassette' \in Seq(Txs) /\ recorded' \subseteq Txs /\ recorded \subseteq recorded'
           /\ Lists(cassette)' /\ StrictStoresNoSecret'
           /\ \A i \in DOMAIN cassette : i \in DOMAIN cassette' /\ cassette'[i] = cassette[i]
           /\ \E i \in DOMAIN cassette' :
                 cassette'[i].key = Key(s) /\ cassette'[i].body = Stored(slot[s].reply)
<1>1. slot[s] # Free /\ slot[s].phase = "writing"
  BY DEF InPhase
<1>2. /\ TypeOK /\ HandledWell(s) /\ Conf(s) # Down /\ slot[s].proxy \in Proxies
      /\ Conf(s) \in Configs /\ slot[s].reply \in Replies
  BY <1>1, SlotFacts DEF IInv, HandledWell
<1>3. PICK tx \in Txs :
          /\ tx.key = Key(s) /\ tx.body = Stored(slot[s].reply) /\ tx.conf = Conf(s)
          /\ tx.hmac = hmac[slot[s].proxy]
          /\ cassette' = Append(cassette, tx)
          /\ recorded' = recorded \cup {tx}
  BY <1>1, <1>2, RecordedTx
<1>4. cassette \in Seq(Txs) /\ recorded \subseteq Txs
  BY <1>2 DEF TypeOK
<1>5. /\ cassette' \in Seq(Txs) /\ recorded' \subseteq Txs /\ recorded \subseteq recorded'
      /\ \A i \in DOMAIN cassette : i \in DOMAIN cassette' /\ cassette'[i] = cassette[i]
      /\ Len(cassette) + 1 \in DOMAIN cassette' /\ cassette'[Len(cassette) + 1] = tx
      /\ \A i \in DOMAIN cassette' : i \in DOMAIN cassette \/ i = Len(cassette) + 1
  BY <1>3, <1>4
<1>6. Lists(cassette)'
  BY <1>3, <1>5 DEF IInv, Lists
<1>7. tx.conf.strict => tx.body.secret \in {"none", "scrubbed"} /\ tx.hmac = 0
  <2>1. StartedWell(slot[s].proxy)
    BY <1>2 DEF IInv
  <2> QED
    BY <1>1, <1>2, <1>3, <2>1, BodyFacts DEF HandledWell, StartedWell, Legal, Conf
<1>8. StrictStoresNoSecret'
  BY <1>3, <1>7 DEF IInv, StrictStoresNoSecret
<1> QED
  BY <1>3, <1>5, <1>6, <1>8

\* The good answers of a recording stay in the cassette when it is appended to.
LEMMA StillRecorded ==
    ASSUME IInv, NEW s \in Slots, InPhase(s, "writing"), Recorded(s), ~severed,
           NEW t \in Slots, Answered(t), Conf(t).mode = "record", slot[t].answer.status = "ok"
    PROVE  /\ ~slot[t].answer.body.wrapped /\ slot[t].answer.body.secret # "scrubbed"
           /\ \E i \in DOMAIN cassette' :
                 /\ cassette'[i].key = Key(t)
                 /\ cassette'[i].body.value = slot[t].answer.body.value
                 /\ cassette'[i].body.secret # "found"
<1>1. /\ ~slot[t].answer.body.wrapped /\ slot[t].answer.body.secret # "scrubbed"
      /\ \E i \in DOMAIN cassette :
            /\ cassette[i].key = Key(t)
            /\ cassette[i].body.value = slot[t].answer.body.value
            /\ cassette[i].body.secret # "found"
  BY DEF IInv, AnsweredIsRecorded
<1> QED
  BY <1>1, Appended

LEMMA CommitStep ==
    ASSUME IInv, NEW s \in Slots, Commit(s)
    PROVE  IInv'
<1>1. /\ InPhase(s, "writing") /\ slot[s] # Free /\ slot[s].phase = "writing" /\ Recorded(s)
      /\ UNCHANGED <<config, hmac, stamping, source, severed, starts>>
  BY DEF Commit, InPhase
<1>2. TypeOK /\ HandledWell(s) /\ slot[s].reply \in Replies /\ slot[s].proxy \in Proxies
  BY <1>1, SlotFacts DEF IInv, HandledWell
<1>3. Conf(s).mode = "record" /\ Conf(s) # Down
  BY <1>1, <1>2 DEF HandledWell
<1>4. PICK h \in HandlerType :
          /\ slot' = [slot EXCEPT ![s] = h]
          /\ h.proxy = slot[s].proxy /\ h.req = slot[s].req /\ h.phase = "answered"
          /\ h.answer.from # "cassette"
          /\ h.answer.status = "ok" => h.answer.body = Given(slot[s].reply)
  <2>1. CASE Respond(s, Answer("ok", "upstream", Given(slot[s].reply)))
    BY <1>1, <1>2, <2>1, BodyFacts, RespondSlot DEF Statuses, Origins
  <2>2. CASE Respond(s, Answer("raised", "none", NoBody))
    BY <1>1, <1>2, <2>2, NoBodyIsBody, RespondSlot DEF Statuses, Origins
  <2> QED
    BY <2>1, <2>2 DEF Commit
<1>5. slot'[s] = h /\ \A t \in Slots \ {s} : slot'[t] = slot[t]
  BY <1>2, <1>4 DEF TypeOK
<1>6. DOMAIN index' = Proxies /\ \A p \in Proxies \ {slot[s].proxy} : index'[p] = index[p]
  BY <1>2 DEF Commit, TypeOK
<1>7. TypeOK'
  BY <1>1, <1>2, <1>4, <1>6, Appended DEF TypeOK
<1>8. ASSUME NEW p \in Proxies PROVE StartedWell(p)' /\ StampsWell(p)' /\ Lists(source[p])'
  <2>1. Lists(source[p])' /\ StampsWell(p)'
    BY <1>1, Appended DEF IInv, Lists, StampsWell
  <2>2. StartedWell(p)'
    BY <1>1, <1>3, <1>6 DEF IInv, StartedWell, Conf
  <2> QED
    BY <2>1, <2>2
<1>9. ASSUME NEW t \in Slots PROVE HandledWell(t)'
  <2>1. CASE t = s
    BY <1>1, <1>3, <1>4, <1>5, <2>1 DEF HandledWell, AnsweredWell, Conf, Replays
  <2>2. CASE t # s
    BY <1>1, <1>5, <2>2 DEF IInv, HandledWell, AnsweredWell, Conf, Key, Replays
  <2> QED
    BY <2>1, <2>2
<1>10. AnsweredIsRecorded'
  <2> SUFFICES ASSUME ~severed, NEW t \in Slots, Answered(t)', Conf(t)'.mode = "record",
                      slot'[t].answer.status = "ok"
               PROVE  /\ ~slot'[t].answer.body.wrapped /\ slot'[t].answer.body.secret # "scrubbed"
                      /\ \E i \in DOMAIN cassette' :
                            /\ cassette'[i].key = Key(t)'
                            /\ cassette'[i].body.value = slot'[t].answer.body.value
                            /\ cassette'[i].body.secret # "found"
    BY <1>1 DEF AnsweredIsRecorded
  <2>1. Key(t)' = Key(t)
    BY <1>1, <1>4, <1>5 DEF Key
  <2>2. CASE t = s
    <3>1. slot'[t].answer.body = Given(slot[s].reply)
      BY <1>4, <1>5, <2>2
    <3>2. PICK i \in DOMAIN cassette' :
              cassette'[i].key = Key(s) /\ cassette'[i].body = Stored(slot[s].reply)
      BY <1>1, Appended
    <3> QED
      BY <1>2, <2>1, <2>2, <3>1, <3>2, BodyFacts
  <2>3. CASE t # s
    <3>1. Answered(t) /\ Conf(t).mode = "record" /\ slot[t].answer.status = "ok"
      BY <1>1, <1>5, <2>3 DEF Answered, InPhase, Conf
    <3> QED
      BY <1>1, <1>5, <2>1, <2>3, <3>1, StillRecorded
  <2> QED
    BY <2>2, <2>3
<1> QED
  BY <1>1, <1>7, <1>8, <1>9, <1>10, Appended DEF IInv

LEMMA StartStep ==
    ASSUME IInv, NEW p \in Proxies, NEW c \in Configs, Start(p, c)
    PROVE  IInv'
<1>1. /\ TypeOK /\ config[p] = Down /\ starts < MaxStarts /\ Legal(c)
      /\ config' = [config EXCEPT ![p] = c] /\ starts' = starts + 1
      /\ hmac' = [hmac EXCEPT ![p] = IF c.hmacEnv THEN 0 ELSE starts']
      /\ stamping' = stamping \cup (IF Stamps(c) THEN {p} ELSE {})
      /\ UNCHANGED <<cassette, slot, recorded, severed>>
  BY DEF IInv, Start
<1>2. PICK log \in {cassette, << >>} :
          /\ index' = [index EXCEPT ![p] =
                          IF c.mode = "replay" THEN LastWins(log) ELSE NotBuilt]
          /\ source' = [source EXCEPT ![p] = log]
  BY DEF Start, Readable
<1>3. log \in Seq(Txs) /\ Lists(log)
  <2>1. CASE log = cassette
    BY <1>1, <2>1 DEF IInv, TypeOK
  <2>2. CASE log = << >>
    <3>1. << >> \in Seq(Txs) /\ DOMAIN << >> = {}
      OBVIOUS
    <3> QED
      BY <2>2, <3>1 DEF Lists
  <2> QED
    BY <1>2, <2>1, <2>2
<1>4. starts' \in 0 .. MaxStarts
  BY <1>1, ProxyAssumption DEF TypeOK
<1>5. TypeOK'
  BY <1>1, <1>2, <1>3, <1>4, ProxyAssumption DEF TypeOK
<1>6. ASSUME NEW q \in Proxies PROVE StartedWell(q)' /\ StampsWell(q)' /\ Lists(source[q])'
  <2>1. CASE q = p
    <3>1. /\ config'[p] = c /\ source'[p] = log
          /\ c.hmacEnv => hmac'[p] = 0
          /\ c.mode = "replay" => index'[p] = LastWins(log)
      BY <1>1, <1>2 DEF TypeOK
    <3>2. p \notin stamping /\ c # Down
      BY <1>1, HandlerAssumption DEF IInv, StampsWell
    <3>3. StampsWell(q)'
      BY <1>1, <2>1, <3>1, <3>2 DEF StampsWell
    <3> QED
      BY <1>1, <1>3, <2>1, <3>1, <3>3 DEF StartedWell, Lists
  <2>2. CASE q # p
    <3>1. /\ config'[q] = config[q] /\ hmac'[q] = hmac[q] /\ index'[q] = index[q]
          /\ source'[q] = source[q] /\ (q \in stamping' <=> q \in stamping)
      BY <1>1, <1>2, <2>2 DEF TypeOK
    <3> QED
      BY <1>1, <3>1 DEF IInv, StartedWell, StampsWell, Lists
  <2> QED
    BY <2>1, <2>2
<1>7. ASSUME NEW s \in Slots, slot[s] # Free
      PROVE  /\ slot[s].proxy # p /\ slot[s].proxy \in Proxies
             /\ config'[slot[s].proxy] = config[slot[s].proxy]
             /\ hmac'[slot[s].proxy] = hmac[slot[s].proxy]
             /\ source'[slot[s].proxy] = source[slot[s].proxy]
  <2>1. slot[s].proxy # p /\ slot[s].proxy \in Proxies
    BY <1>1, <1>7, SlotFacts DEF IInv, HandledWell, Conf
  <2> QED
    BY <1>1, <1>2, <2>1 DEF TypeOK
<1>8. \A s \in Slots : HandledWell(s)'
  BY <1>1, <1>7 DEF IInv, HandledWell, AnsweredWell, Conf, Key, Replays
<1>9. AnsweredIsRecorded'
  BY <1>1, <1>7 DEF IInv, AnsweredIsRecorded, Answered, InPhase, Conf, Key
<1>10. Lists(cassette)' /\ StrictStoresNoSecret'
  BY <1>1 DEF IInv, Lists, StrictStoresNoSecret
<1> QED
  BY <1>5, <1>6, <1>8, <1>9, <1>10 DEF IInv

LEMMA StopStep ==
    ASSUME IInv, NEW p \in Proxies, Stop(p)
    PROVE  IInv'
<1>1. /\ TypeOK
      /\ config' = [config EXCEPT ![p] = Down] /\ hmac' = [hmac EXCEPT ![p] = 0]
      /\ index' = [index EXCEPT ![p] = NotBuilt] /\ source' = [source EXCEPT ![p] = << >>]
      /\ slot' = SlotsWithout(p) /\ starts' = starts /\ stamping' = stamping \ {p}
  BY DEF IInv, Stop
<1>2. /\ cassette' \in Seq(Txs) /\ recorded' \subseteq Txs /\ recorded \subseteq recorded'
      /\ Lists(cassette)' /\ StrictStoresNoSecret'
      /\ ~severed' =>
            /\ ~severed
            /\ \A i \in DOMAIN cassette : i \in DOMAIN cassette' /\ cassette'[i] = cassette[i]
  <2>1. CASE UNCHANGED <<cassette, recorded, severed>>
    BY <1>1, <2>1 DEF IInv, TypeOK, Lists, StrictStoresNoSecret
  <2>2. CASE cassette' = << >> /\ severed' = TRUE /\ UNCHANGED recorded
    BY <1>1, <2>2 DEF IInv, TypeOK, Lists, StrictStoresNoSecret
  <2>3. CASE (\E s \in Slots : InPhase(s, "writing") /\ Recorded(s)) /\ UNCHANGED severed
    BY <2>3, Appended
  <2> QED
    BY <2>1, <2>2, <2>3 DEF Stop
<1>3. ASSUME NEW s \in Slots
      PROVE  /\ slot'[s] # Free =>
                    slot'[s] = slot[s] /\ slot[s].proxy # p /\ slot[s].proxy \in Proxies
             /\ slot'[s] \in HandlerType \cup {Free}
  BY <1>1, SlotFacts DEF TypeOK, SlotsWithout
<1>4. TypeOK'
  <2>1. slot' \in [Slots -> HandlerType \cup {Free}]
    BY <1>1, <1>3 DEF SlotsWithout
  <2> QED
    BY <1>1, <1>2, <2>1, ProxyAssumption DEF TypeOK
<1>5. \A q \in Proxies \ {p} :
          /\ config'[q] = config[q] /\ hmac'[q] = hmac[q] /\ index'[q] = index[q]
          /\ source'[q] = source[q]
  BY <1>1 DEF TypeOK
<1>6. ASSUME NEW q \in Proxies PROVE StartedWell(q)' /\ StampsWell(q)' /\ Lists(source[q])'
  <2>1. CASE q = p
    <3>1. config'[p] = Down /\ source'[p] = << >> /\ p \notin stamping'
      BY <1>1 DEF TypeOK
    <3> QED
      BY <2>1, <3>1 DEF StartedWell, StampsWell, Lists
  <2>2. CASE q # p
    <3>1. StampsWell(q)'
      BY <1>1, <1>5, <2>2 DEF IInv, StampsWell
    <3> QED
      BY <1>2, <1>5, <2>2, <3>1 DEF IInv, StartedWell, Lists
  <2> QED
    BY <2>1, <2>2
<1>7. \A s \in Slots : HandledWell(s)'
  BY <1>3, <1>5 DEF IInv, HandledWell, AnsweredWell, Conf, Key, Replays
<1>8. AnsweredIsRecorded'
  <2> SUFFICES ASSUME ~severed', NEW s \in Slots, Answered(s)', Conf(s)'.mode = "record",
                      slot'[s].answer.status = "ok"
               PROVE  /\ ~slot'[s].answer.body.wrapped /\ slot'[s].answer.body.secret # "scrubbed"
                      /\ \E i \in DOMAIN cassette' :
                            /\ cassette'[i].key = Key(s)'
                            /\ cassette'[i].body.value = slot'[s].answer.body.value
                            /\ cassette'[i].body.secret # "found"
    BY DEF AnsweredIsRecorded
  <2>1. slot'[s] = slot[s] /\ Answered(s) /\ Conf(s).mode = "record" /\ Key(s)' = Key(s)
    BY <1>3, <1>5 DEF Answered, InPhase, Conf, Key
  <2>2. /\ ~slot[s].answer.body.wrapped /\ slot[s].answer.body.secret # "scrubbed"
        /\ \E i \in DOMAIN cassette :
              /\ cassette[i].key = Key(s)
              /\ cassette[i].body.value = slot[s].answer.body.value
              /\ cassette[i].body.secret # "found"
    BY <1>2, <2>1 DEF IInv, AnsweredIsRecorded
  <2> QED
    BY <1>2, <2>1, <2>2
<1> QED
  BY <1>2, <1>4, <1>6, <1>7, <1>8 DEF IInv

\* A test stack that is written changes nothing that is answered.
LEMMA StampedStep ==
    ASSUME IInv, NEW p \in Proxies, Stamped(p)
    PROVE  IInv'
<1>1. stamping' \subseteq stamping
      /\ UNCHANGED <<cassette, config, hmac, index, slot, source, recorded, severed, starts>>
  BY DEF Stamped, history
<1>2. TypeOK' /\ Lists(cassette)' /\ StrictStoresNoSecret'
  BY <1>1 DEF IInv, TypeOK, Lists, StrictStoresNoSecret
<1>3. \A q \in Proxies : StartedWell(q)' /\ StampsWell(q)' /\ Lists(source[q])'
  BY <1>1 DEF IInv, StartedWell, StampsWell, Lists
<1>4. \A s \in Slots : HandledWell(s)'
  BY <1>1 DEF IInv, HandledWell, AnsweredWell, Conf, Key, Replays
<1>5. AnsweredIsRecorded'
  BY <1>1 DEF IInv, AnsweredIsRecorded, Answered, InPhase, Conf, Key
<1> QED
  BY <1>2, <1>3, <1>4, <1>5 DEF IInv

LEMMA StutterStep ==
    ASSUME IInv, UNCHANGED vars
    PROVE  IInv'
<1>1. TypeOK' /\ Lists(cassette)' /\ StrictStoresNoSecret'
  BY DEF IInv, TypeOK, Lists, StrictStoresNoSecret, vars
<1>2. \A p \in Proxies : StartedWell(p)' /\ StampsWell(p)' /\ Lists(source[p])'
  BY DEF IInv, StartedWell, StampsWell, Lists, vars
<1>3. \A s \in Slots : HandledWell(s)'
  BY DEF IInv, HandledWell, AnsweredWell, Conf, Key, Replays, vars
<1>4. AnsweredIsRecorded'
  BY DEF IInv, AnsweredIsRecorded, Answered, InPhase, Conf, Key, vars
<1> QED
  BY <1>1, <1>2, <1>3, <1>4 DEF IInv

LEMMA Begins ==
    ASSUME Init
    PROVE  IInv
<1>1. TypeOK
  <2>1. << >> \in Seq(Txs) /\ 0 \in 0 .. MaxStarts
    BY ProxyAssumption
  <2> QED
    BY <2>1 DEF Init, TypeOK
<1>2. ASSUME NEW p \in Proxies PROVE StartedWell(p) /\ StampsWell(p) /\ Lists(source[p])
  <2>1. config[p] = Down /\ source[p] = << >> /\ DOMAIN << >> = {} /\ p \notin stamping
    BY DEF Init
  <2> QED
    BY <2>1 DEF StartedWell, StampsWell, Lists
<1>3. \A s \in Slots : HandledWell(s)
  BY DEF Init, HandledWell
<1> QED
  BY <1>1, <1>2, <1>3
  DEF Init, IInv, Lists, StrictStoresNoSecret, AnsweredIsRecorded, Answered, InPhase

\* Every action of Proxy keeps the invariant.
LEMMA ProxyStep ==
    ASSUME IInv, [Next]_vars
    PROVE  IInv'
<1>1. ASSUME NEW p \in Proxies, Stop(p) \/ Stamped(p) \/ \E c \in Configs : Start(p, c)
      PROVE  IInv'
  BY <1>1, StopStep, StampedStep, StartStep
<1>2. ASSUME NEW s \in Slots,
             \/ \E p \in Proxies, r \in Requests : Send(s, p, r)
             \/ Progress(s)
             \/ Refuse(s)
             \/ \E u \in Replies : UpstreamReplies(s, u)
             \/ Collect(s)
      PROVE  IInv'
  BY <1>2, SendStep, ServeModelsStep, ServeReplayStep, ForwardStep, UpstreamFailsStep,
     CommitStep, RefuseStep, UpstreamRepliesStep, CollectStep DEF Progress
<1> QED
  BY <1>1, <1>2, StutterStep DEF Next

-----------------------------------------------------------------------------
(* Theorems *)

\* The inductive invariant of Proxy holds in every reachable state.
THEOREM ProxyInvariant == Spec => []IInv
<1>1. Init => IInv
  BY Begins
<1>2. IInv /\ [Next]_vars => IInv'
  BY ProxyStep
<1> QED
  BY <1>1, <1>2, PTL DEF Spec

\* On replay the invariant leaves no way to a connection or to the cassette.
LEMMA InvHermetic ==
    ASSUME IInv
    PROVE  Hermetic
<1> SUFFICES ASSUME NEW s \in Slots, slot[s] # Free, Conf(s).mode = "replay"
             PROVE  /\ slot[s].phase # "writing"
                    /\ slot[s].phase = "upstream" =>
                          Conf(s).live /\ (Conf(s).strict => Conf(s).allowLive)
  BY DEF Hermetic
<1>1. HandledWell(s) /\ Conf(s) # Down /\ slot[s].proxy \in Proxies
  BY SlotFacts DEF IInv, HandledWell
<1>2. Legal(Conf(s))
  BY <1>1 DEF IInv, StartedWell, Conf
<1> QED
  BY <1>1, <1>2 DEF HandledWell, Legal

\* create_app, responses_create and the other handlers: on replay no connection
\* is opened unless the model is marked live, and nothing is written, whatever
\* the settings of the processes and however many of them there are.
THEOREM ReplayIsHermetic == Spec => []Hermetic
BY ProxyInvariant, InvHermetic, PTL

\* _record: the ci and strict profiles append nothing that still holds a
\* secret, and every placeholder is under the shared HMAC key.
THEOREM SecretsStayOut == Spec => []StrictStoresNoSecret
<1>1. IInv => StrictStoresNoSecret
  BY DEF IInv
<1> QED
  BY <1>1, ProxyInvariant, PTL

\* append_transaction, then the answer: the reply that a recording answered with,
\* as it came, is in the cassette under the key of that request, wrapped and
\* scrubbed, whoever records beside it, until a crash empties the manifest.
THEOREM AnswersAreKept == Spec => []AnsweredIsRecorded
<1>1. IInv => AnsweredIsRecorded
  BY DEF IInv
<1> QED
  BY <1>1, ProxyInvariant, PTL

\* What a replay answered from the cassette is a transaction its log had when it
\* started, the last one with the key of the request.
LEMMA CassetteAnswer ==
    ASSUME IInv, NEW s \in Slots, Answered(s), slot[s].answer.from = "cassette"
    PROVE  \E i \in DOMAIN source[slot[s].proxy] :
               LET log == source[slot[s].proxy]
               IN  /\ log[i] \in recorded /\ log[i] \in Txs
                   /\ log[i].key = Key(s)
                   /\ \A j \in DOMAIN log : log[j].key = Key(s) => j <= i
                   /\ slot[s].answer.body = log[i].body
<1> DEFINE log == source[slot[s].proxy]
<1>1. /\ slot[s] # Free /\ slot[s].proxy \in Proxies
      /\ Key(s) \in DOMAIN LastWins(log)
      /\ slot[s].answer.body = LastWins(log)[Key(s)]
  BY SlotFacts DEF IInv, Answered, InPhase, HandledWell, AnsweredWell
<1>2. log \in Seq(Txs) /\ Lists(log) /\ recorded \subseteq Txs
  BY <1>1 DEF IInv, TypeOK
<1> HIDE DEF log
<1>3. PICK i \in DOMAIN log :
          /\ log[i].key = Key(s)
          /\ \A j \in DOMAIN log : log[j].key = Key(s) => j <= i
          /\ LastWins(log)[Key(s)] = log[i].body
  BY <1>1, <1>2, LastWinsHit
<1>4. log[i] \in recorded /\ log[i] \in Txs
  BY <1>2, <1>3 DEF Lists
<1> QED
  BY <1>1, <1>3, <1>4 DEF log

\* The keys of a request and of the transaction that answers it are the same.
LEMMA InvNoWrongHit ==
    ASSUME IInv
    PROVE  NoWrongHit
<1> SUFFICES ASSUME NEW s \in Slots, Answered(s), slot[s].answer.from = "cassette"
             PROVE  \E tx \in recorded :
                        /\ tx.body = slot[s].answer.body
                        /\ tx.req.text = slot[s].req.text
                        /\ tx.req.secret = slot[s].req.secret
                        /\ tx.req.noise = slot[s].req.noise \/ Conf(s).ignores
  BY DEF NoWrongHit
<1>1. PICK tx \in recorded : tx \in Txs /\ tx.key = Key(s) /\ tx.body = slot[s].answer.body
  BY CassetteAnswer
<1>2. slot[s] # Free /\ slot[s].req \in Requests
  BY SlotFacts DEF IInv, Answered, InPhase
<1>3. MatchKey(tx.req, tx.conf, tx.hmac) =
          MatchKey(slot[s].req, Conf(s), hmac[slot[s].proxy])
  BY <1>1, TxFacts DEF Key, Conf
<1>4. /\ tx.req.text = slot[s].req.text
      /\ (IF tx.conf.ignores THEN NoNoise ELSE tx.req.noise) =
             (IF Conf(s).ignores THEN NoNoise ELSE slot[s].req.noise)
      /\ Placeholder(tx.req.secret, tx.hmac) =
             Placeholder(slot[s].req.secret, hmac[slot[s].proxy])
  BY <1>3 DEF MatchKey
<1>5. tx.req.secret = slot[s].req.secret
  BY <1>4 DEF Placeholder
<1>6. slot[s].req.noise # NoNoise
  BY <1>2, ProxyAssumption
<1> QED
  BY <1>1, <1>4, <1>5, <1>6

\* match_key and rebuild_index: a body served from the cassette was recorded for
\* a request with the same fields and the same secret.
THEOREM HitsAreRight == Spec => []NoWrongHit
BY ProxyInvariant, InvNoWrongHit, PTL

\* An answer of a replay is that of the log it started on.
LEMMA InvAnswersFromStart ==
    ASSUME IInv
    PROVE  AnswersFromStart
<1> SUFFICES ASSUME IInv, NEW s \in Slots, Answered(s), Replays(s),
                    slot[s].answer.status # "refused"
             PROVE  LET log  == source[slot[s].proxy]
                        hits == {i \in DOMAIN log : log[i].key = Key(s)}
                    IN  IF hits = {} THEN slot[s].answer.status = "miss"
                        ELSE \E i \in hits : /\ \A j \in hits : j <= i
                                             /\ slot[s].answer.body = log[i].body
  BY DEF AnswersFromStart
<1> DEFINE log == source[slot[s].proxy]
           hits == {i \in DOMAIN log : log[i].key = Key(s)}
<1>1. \/ slot[s].answer.from = "cassette"
      \/ slot[s].answer.status = "miss" /\ Key(s) \notin DOMAIN LastWins(log)
  BY DEF IInv, Answered, InPhase, HandledWell, AnsweredWell
<1>2. CASE slot[s].answer.from = "cassette"
  BY <1>2, CassetteAnswer
<1>3. CASE slot[s].answer.status = "miss" /\ Key(s) \notin DOMAIN LastWins(log)
  <2>1. hits = {}
    BY <1>3 DEF LastWins
  <2> QED
    BY <1>3, <2>1
<1> QED
  BY <1>1, <1>2, <1>3

\* create_app builds the index once: whatever others append meanwhile, a replay
\* answers with the last transaction its cassette held at the start, or misses.
THEOREM ReplaysAreStable == Spec => []AnswersFromStart
BY ProxyInvariant, InvAnswersFromStart, PTL

\* A transaction recorded with the settings of the replay has the key it looks up.
LEMMA InvSameSettingsHit ==
    ASSUME IInv
    PROVE  SameSettingsHit
<1> SUFFICES ASSUME NEW s \in Slots, Answered(s), Replays(s),
                    slot[s].answer.status # "refused",
                    NEW i \in DOMAIN source[slot[s].proxy],
                    source[slot[s].proxy][i].req = slot[s].req,
                    source[slot[s].proxy][i].conf.ignores = Conf(s).ignores,
                    source[slot[s].proxy][i].hmac = hmac[slot[s].proxy]
             PROVE  slot[s].answer.status = "ok"
  BY DEF SameSettingsHit
<1> DEFINE log == source[slot[s].proxy]
           tx == log[i]
<1>1. slot[s].proxy \in Proxies
  BY SlotFacts DEF IInv, Answered, InPhase
<1>2. tx \in Txs
  BY <1>1 DEF IInv, TypeOK, Lists
<1>3. tx.key = Key(s)
  BY <1>2, TxFacts DEF Key, MatchKey, Conf
<1>4. Key(s) \in DOMAIN LastWins(log)
  BY <1>3 DEF LastWins
<1> QED
  BY <1>4 DEF IInv, Answered, InPhase, HandledWell, AnsweredWell

\* match_key with the same HMAC key and the same ignore list: what was recorded
\* before a replay started is found by it.
THEOREM RecordingsAreFound == Spec => []SameSettingsHit
BY ProxyInvariant, InvSameSettingsHit, PTL

-----------------------------------------------------------------------------
(* Replaying implements the abstract session *)

\* The index has what a session finds in the log it was built from.
LEMMA FoundIs ==
    ASSUME NEW l \in Seq(Txs), NEW k
    PROVE  /\ k \in DOMAIN LastWins(l) => Session!Found(l, k) = {LastWins(l)[k]}
           /\ k \notin DOMAIN LastWins(l) => Session!Found(l, k) = {}
<1>1. CASE k \in DOMAIN LastWins(l)
  <2>1. PICK i \in DOMAIN l : /\ l[i].key = k
                              /\ \A j \in DOMAIN l : l[j].key = k => j <= i
                              /\ LastWins(l)[k] = l[i].body
    BY <1>1, LastWinsHit
  <2>2. \A j \in DOMAIN l : l[j].key = k /\ (\A n \in DOMAIN l : l[n].key = k => n <= j) => j = i
    BY <2>1
  <2> QED
    BY <1>1, <2>1, <2>2 DEF Session!Found
<1>2. CASE k \notin DOMAIN LastWins(l)
  BY <1>2 DEF LastWins, Session!Found
<1> QED
  BY <1>1, <1>2

\* A step that leaves the settings of the processes alone and gives one slot
\* another handler.
OneSlot(s, h) ==
    /\ slot' = [slot EXCEPT ![s] = h]
    /\ UNCHANGED <<config, hmac, source>>

\* A handler of a request that is not answered from the cassette.
LEMMA UnseenStep ==
    ASSUME TypeOK, NEW s \in Slots, NEW h, OneSlot(s, h),
           s \notin Asking, h = Free \/ ~Replays(s)'
    PROVE  UNCHANGED <<OpenedOn, Exchanges>>
<1>1. slot'[s] = h /\ \A t \in Slots \ {s} : slot'[t] = slot[t]
  BY DEF OneSlot, TypeOK
<1>2. UNCHANGED OpenedOn
  BY DEF OneSlot, OpenedOn, Replayers
<1>3. Asking' = Asking
  BY <1>1 DEF Asking, Replays, Conf, OneSlot
<1>4. \A t \in Asking : ExchangeOf(t)' = ExchangeOf(t)
  BY <1>1 DEF Asking, ExchangeOf, Key, OneSlot
<1> QED
  BY <1>2, <1>3, <1>4 DEF Exchanges

\* A recording goes on with its appends, or nobody sees the step.
LEMMA RecordingStep ==
    ASSUME UNCHANGED <<OpenedOn, Exchanges>>,
           \/ UNCHANGED cassette
           \/ cassette' = << >>
           \/ /\ Appending /\ Len(cassette') = Len(cassette) + 1
              /\ \A i \in DOMAIN cassette : cassette'[i] = cassette[i]
    PROVE  Session!Recording
BY DEF Session!Recording, Appending

\* An exchange changes with the handler of its slot.
LEMMA AnswersStep ==
    ASSUME IInv, NEW s \in Asking, NEW h \in HandlerType, OneSlot(s, h),
           UNCHANGED <<cassette, stamping>>, slot[s].phase \in {"received", "upstream"},
           h.proxy = slot[s].proxy, h.req = slot[s].req, h.phase = "answered",
           \/ h.answer.status = "refused"
           \/ /\ h.answer.status = "ok" /\ Key(s) \in DOMAIN LastWins(source[h.proxy])
              /\ h.answer.body = LastWins(source[h.proxy])[Key(s)]
           \/ h.answer.status = "miss" /\ Key(s) \notin DOMAIN LastWins(source[h.proxy])
    PROVE  Session!Reply(s)
<1>1. s \in Slots /\ slot'[s] = h /\ \A t \in Slots \ {s} : slot'[t] = slot[t]
  BY DEF OneSlot, Asking, IInv, TypeOK
<1>2. h # Free /\ slot[s].proxy \in Proxies /\ slot[s].proxy \in Replayers
  BY <1>1, HandlerAssumption, SlotFacts DEF IInv, HandledWell, Asking, Replays, Conf, Replayers
<1>3. UNCHANGED <<OpenedOn, cassette>>
  BY DEF OneSlot, OpenedOn, Replayers
<1>4. Appending' = Appending
  BY <1>1, <1>2 DEF Appending, InPhase
<1>5. Asking' = Asking /\ Key(s)' = Key(s)
  BY <1>1, <1>2 DEF Asking, Replays, Conf, OneSlot, Key
<1>6. \A t \in Asking \ {s} : ExchangeOf(t)' = ExchangeOf(t)
  BY <1>1 DEF Asking, ExchangeOf, Key, OneSlot
<1> DEFINE e == ExchangeOf(s)
<1>7. /\ e.player = slot[s].proxy /\ e.key = Key(s) /\ e.state = "asked"
      /\ Exchanges[s] = e /\ DOMAIN Exchanges = Asking
  BY DEF ExchangeOf, Exchanges
<1>8. /\ OpenedOn[slot[s].proxy] = source[slot[s].proxy]
      /\ source[slot[s].proxy] \in Seq(Txs)
  BY <1>2 DEF OpenedOn, IInv, TypeOK
<1>9. ExchangeOf(s)' \in
          {[player |-> e.player, key |-> e.key, state |-> "refused", found |-> {}],
           [player |-> e.player, key |-> e.key, state |-> "answered",
            found |-> Session!Found(OpenedOn[e.player], e.key)]}
  <2>1. CASE h.answer.status = "refused"
    BY <1>1, <1>5, <1>7, <2>1 DEF ExchangeOf
  <2>2. CASE /\ h.answer.status = "ok" /\ Key(s) \in DOMAIN LastWins(source[h.proxy])
             /\ h.answer.body = LastWins(source[h.proxy])[Key(s)]
    <3>1. Session!Found(OpenedOn[e.player], e.key) = {h.answer.body}
      BY <1>7, <1>8, <2>2, FoundIs
    <3> QED
      BY <1>1, <1>5, <1>7, <2>2, <3>1 DEF ExchangeOf
  <2>3. CASE h.answer.status = "miss" /\ Key(s) \notin DOMAIN LastWins(source[h.proxy])
    <3>1. Session!Found(OpenedOn[e.player], e.key) = {}
      BY <1>7, <1>8, <2>3, FoundIs
    <3> QED
      BY <1>1, <1>5, <1>7, <2>3, <3>1 DEF ExchangeOf
  <2> QED
    BY <2>1, <2>2, <2>3
<1>10. Exchanges' = Session!With(Exchanges, s, ExchangeOf(s)')
  <2>1. Asking \cup {s} = Asking
    OBVIOUS
  <2>2. Exchanges' = [t \in Asking |-> IF t = s THEN ExchangeOf(s)' ELSE ExchangeOf(t)]
    BY <1>5, <1>6 DEF Exchanges
  <2> QED
    BY <2>1, <2>2 DEF Session!With, Exchanges
<1> HIDE DEF e
<1> QED
  BY <1>3, <1>4, <1>7, <1>9, <1>10 DEF Session!Reply

\* A handler that responds: to a request that is answered from the cassette as a
\* session replies, and otherwise unseen.
LEMMA RespondsAsSession ==
    ASSUME IInv, NEW s \in Slots, slot[s] # Free, slot[s].phase \in {"received", "upstream"},
           NEW status \in Statuses, NEW from \in Origins, NEW body \in Bodies,
           Respond(s, Answer(status, from, body)),
           Quiet,
           Replays(s) =>
              \/ status = "refused"
              \/ /\ status = "ok" /\ Key(s) \in DOMAIN LastWins(source[slot[s].proxy])
                 /\ body = LastWins(source[slot[s].proxy])[Key(s)]
              \/ status = "miss" /\ Key(s) \notin DOMAIN LastWins(source[slot[s].proxy])
    PROVE  Session!SessionNext
<1>1. PICK h \in HandlerType :
          /\ slot' = [slot EXCEPT ![s] = h]
          /\ h.proxy = slot[s].proxy /\ h.req = slot[s].req /\ h.phase = "answered"
          /\ h.answer.status = status /\ h.answer.from = from /\ h.answer.body = body
  BY RespondSlot DEF IInv
<1>2. OneSlot(s, h) /\ UNCHANGED <<cassette, stamping>>
  BY <1>1 DEF OneSlot, Quiet, history
<1>3. CASE Replays(s)
  <2>1. s \in Asking
    BY <1>3 DEF Asking
  <2> QED
    BY <1>1, <1>2, <1>3, <2>1, AnswersStep DEF Session!SessionNext
<1>4. CASE ~Replays(s)
  <2>1. ~Replays(s)'
    <3>1. slot'[s] = h
      BY <1>1 DEF IInv, TypeOK
    <3> QED
      BY <1>1, <1>2, <1>4, <3>1 DEF Replays, Conf, OneSlot
  <2>2. UNCHANGED <<OpenedOn, Exchanges>>
    BY <1>2, <1>4, <2>1, UnseenStep DEF IInv, Asking
  <2> QED
    BY <1>2, <2>2, RecordingStep DEF Session!SessionNext
<1> QED
  BY <1>3, <1>4

LEMMA ServesAsSession ==
    ASSUME IInv, NEW s \in Slots,
           \/ Refuse(s) \/ ServeModels(s) \/ ServeReplay(s) \/ UpstreamFails(s)
    PROVE  Session!SessionNext
<1>1. slot[s] # Free /\ slot[s].phase \in {"received", "upstream"} /\ Quiet
  BY DEF Refuse, ServeModels, ServeReplay, UpstreamFails, Ready, InPhase, Quiet
<1>2. {"refused", "ok", "miss", "unavailable"} \subseteq Statuses
      /\ {"none", "cassette", "synthetic"} \subseteq Origins
  BY DEF Statuses, Origins
<1>3. CASE Refuse(s)
  <2>1. Respond(s, Answer("refused", "none", NoBody))
    BY <1>3 DEF Refuse
  <2> QED
    BY <1>1, <1>2, <2>1, NoBodyIsBody, RespondsAsSession
<1>4. CASE ServeModels(s)
  <2>1. Conf(s).mode = "replay" /\ ~Replays(s)
    BY <1>4 DEF ServeModels, Replays
  <2>2. CASE Key(s) \in DOMAIN Served(s)
    <3>1. Respond(s, Answer("ok", "cassette", Served(s)[Key(s)])) /\ Served(s)[Key(s)] \in Bodies
      BY <1>1, <1>4, <2>1, <2>2, ServedIs DEF ServeModels
    <3> QED
      BY <1>1, <1>2, <2>1, <3>1, RespondsAsSession
  <2>3. CASE Key(s) \notin DOMAIN Served(s)
    <3>1. Respond(s, Answer("ok", "synthetic", NoBody))
      BY <1>4, <2>3 DEF ServeModels
    <3> QED
      BY <1>1, <1>2, <2>1, <3>1, NoBodyIsBody, RespondsAsSession
  <2> QED
    BY <2>2, <2>3
<1>5. CASE ServeReplay(s)
  <2>1. Served(s) = LastWins(source[slot[s].proxy])
        /\ \A k \in DOMAIN Served(s) : Served(s)[k] \in Bodies
    BY <1>1, <1>5, ServedIs DEF ServeReplay
  <2>2. CASE Key(s) \in DOMAIN Served(s)
    <3>1. Respond(s, Answer("ok", "cassette", Served(s)[Key(s)]))
      BY <1>5, <2>2 DEF ServeReplay
    <3> QED
      BY <1>1, <1>2, <2>1, <2>2, <3>1, RespondsAsSession
  <2>3. CASE Key(s) \notin DOMAIN Served(s)
    <3>1. Respond(s, Answer("miss", "none", NoBody))
      BY <1>5, <2>3 DEF ServeReplay
    <3> QED
      BY <1>1, <1>2, <2>1, <2>3, <3>1, NoBodyIsBody, RespondsAsSession
  <2> QED
    BY <2>2, <2>3
<1>6. CASE UpstreamFails(s)
  <2>1. Respond(s, Answer("unavailable", "none", NoBody)) /\ slot[s].phase = "upstream"
    BY <1>6 DEF UpstreamFails, Ready, InPhase
  <2>2. ~Replays(s)
    BY <1>1, <2>1 DEF IInv, HandledWell, Replays
  <2> QED
    BY <1>1, <1>2, <2>1, <2>2, NoBodyIsBody, RespondsAsSession
<1> QED
  BY <1>3, <1>4, <1>5, <1>6

\* A handler of a request that is not answered from the cassette, and its append.
LEMMA GoesOnUnseen ==
    ASSUME IInv, NEW s \in Slots, slot[s] # Free, ~Replays(s), NEW h \in HandlerType,
           OneSlot(s, h), h.proxy = slot[s].proxy, h.req = slot[s].req,
           \/ UNCHANGED cassette
           \/ slot[s].phase = "writing" /\ \E tx \in Txs : cassette' = Append(cassette, tx)
    PROVE  Session!SessionNext
<1>1. slot'[s] = h
  BY DEF OneSlot, IInv, TypeOK
<1>2. ~Replays(s)'
  BY <1>1 DEF Replays, Conf, OneSlot
<1>3. UNCHANGED <<OpenedOn, Exchanges>>
  BY <1>2, UnseenStep DEF IInv, Asking
<1>4. \/ UNCHANGED cassette
      \/ /\ Appending /\ Len(cassette') = Len(cassette) + 1
         /\ \A i \in DOMAIN cassette : cassette'[i] = cassette[i]
  <2>1. cassette \in Seq(Txs)
    BY DEF IInv, TypeOK
  <2>2. slot[s].phase = "writing" => Appending
    BY DEF Appending, InPhase
  <2> QED
    BY <2>1, <2>2
<1> QED
  BY <1>3, <1>4, RecordingStep DEF Session!SessionNext

LEMMA RecordsAsSession ==
    ASSUME IInv, NEW s \in Slots,
           Forward(s) \/ Commit(s) \/ \E u \in Replies : UpstreamReplies(s, u)
    PROVE  Session!SessionNext
<1>1. slot[s] # Free
  BY DEF Forward, Commit, UpstreamReplies, Ready, InPhase
<1>2. slot[s] \in HandlerType /\ Conf(s) # Down /\ HandledWell(s)
  BY <1>1, SlotFacts DEF IInv, HandledWell
<1>3. {"ok", "error", "secret", "unavailable", "raised"} \subseteq Statuses
      /\ {"none", "upstream"} \subseteq Origins
  BY DEF Statuses, Origins
<1>4. CASE Forward(s)
  <2>1. Quiet /\ ~Replays(s) /\ slot[s].phase = "received"
    BY <1>4 DEF Forward, Ready, InPhase, GoesUpstream, Quiet, Replays
  <2>2. CASE slot' = [slot EXCEPT ![s].phase = "upstream"]
    <3> DEFINE h == [slot[s] EXCEPT !.phase = "upstream"]
    <3>1. /\ h \in HandlerType /\ h.proxy = slot[s].proxy /\ h.req = slot[s].req
          /\ slot' = [slot EXCEPT ![s] = h]
      BY <1>2, <2>2 DEF HandlerType, Phases
    <3> HIDE DEF h
    <3> QED
      BY <1>1, <2>1, <3>1, GoesOnUnseen DEF OneSlot, Quiet, history
  <2>3. CASE Respond(s, Answer("unavailable", "none", NoBody))
    BY <1>1, <1>3, <2>1, <2>3, NoBodyIsBody, RespondsAsSession
  <2> QED
    BY <1>4, <2>2, <2>3 DEF Forward
<1>5. CASE Commit(s)
  <2>1. /\ slot[s].phase = "writing" /\ Recorded(s)
        /\ UNCHANGED <<config, hmac, source>> /\ slot[s].reply \in Replies
    BY <1>2, <1>5 DEF Commit, InPhase, HandledWell
  <2>2. ~Replays(s)
    BY <1>1, <1>2, <2>1 DEF HandledWell, Replays
  <2>3. PICK h \in HandlerType :
            slot' = [slot EXCEPT ![s] = h] /\ h.proxy = slot[s].proxy /\ h.req = slot[s].req
    <3>1. CASE Respond(s, Answer("ok", "upstream", Given(slot[s].reply)))
      BY <1>1, <1>3, <2>1, <3>1, BodyFacts, RespondSlot DEF IInv
    <3>2. CASE Respond(s, Answer("raised", "none", NoBody))
      BY <1>1, <1>3, <3>2, NoBodyIsBody, RespondSlot DEF IInv
    <3> QED
      BY <1>5, <3>1, <3>2 DEF Commit
  <2>4. \E tx \in Txs : cassette' = Append(cassette, tx)
    BY <1>1, <1>2, <2>1, RecordedTx DEF IInv
  <2> QED
    BY <1>1, <2>1, <2>2, <2>3, <2>4, GoesOnUnseen DEF OneSlot
<1>6. ASSUME NEW u \in Replies, UpstreamReplies(s, u)
      PROVE  Session!SessionNext
  <2>1. Quiet /\ slot[s].phase = "upstream" /\ Given(u) \in Bodies
    BY <1>6, BodyFacts DEF UpstreamReplies, Ready, InPhase, Quiet
  <2>2. ~Replays(s)
    BY <1>1, <1>2, <2>1 DEF HandledWell, Replays
  <2>3. CASE slot' = [slot EXCEPT ![s].phase = "writing", ![s].reply = u]
    <3> DEFINE mid == [slot[s] EXCEPT !.phase = "writing"]
               h == [mid EXCEPT !.reply = u]
    <3>1. mid \in HandlerType /\ mid.proxy = slot[s].proxy /\ mid.req = slot[s].req
      BY <1>2 DEF HandlerType, Phases
    <3>2. slot' = [slot EXCEPT ![s] = h]
      BY <1>2, <2>3 DEF IInv, TypeOK, HandlerType
    <3> HIDE DEF mid
    <3>3. h \in HandlerType /\ h.proxy = slot[s].proxy /\ h.req = slot[s].req
      BY <2>1, <3>1 DEF HandlerType
    <3> HIDE DEF h
    <3> QED
      BY <1>1, <2>1, <2>2, <3>2, <3>3, GoesOnUnseen DEF OneSlot, Quiet, history
  <2>4. CASE Respond(s, Answer("secret", "none", NoBody))
    BY <1>1, <1>3, <2>1, <2>2, <2>4, NoBodyIsBody, RespondsAsSession
  <2>5. CASE \E status \in {"ok", "error"} : Respond(s, Answer(status, "upstream", Given(u)))
    <3>1. PICK status \in {"ok", "error"} : Respond(s, Answer(status, "upstream", Given(u)))
      BY <2>5
    <3> QED
      BY <1>1, <1>3, <2>1, <2>2, <3>1, RespondsAsSession
  <2> QED
    BY <1>6, <2>3, <2>4, <2>5 DEF UpstreamReplies
<1> QED
  BY <1>4, <1>5, <1>6

\* A client asks and gets its answer: of a replay as a session has it, and of
\* anything else unseen.
LEMMA SendAsSession ==
    ASSUME IInv, NEW s \in Slots, NEW p \in Proxies, NEW r \in Requests, Send(s, p, r)
    PROVE  Session!SessionNext
<1> DEFINE h == Handler(p, r, "received")
<1>1. /\ h \in HandlerType /\ h.proxy = p /\ h.req = r /\ h.phase = "received"
      /\ h.answer.status = "none"
  BY NoBodyIsBody DEF Handler, HandlerType, Answers, Answer, Statuses, Origins, Phases
<1>2. slot' = [slot EXCEPT ![s] = h] /\ UNCHANGED <<cassette, config, hmac, stamping, source>>
  BY DEF Send, history
<1>3. slot[s] = Free /\ config[p] # Down /\ slot \in [Slots -> HandlerType \cup {Free}]
  BY DEF Send, IInv, TypeOK
<1> HIDE DEF h
<1>4. h # Free /\ slot'[s] = h /\ \A t \in Slots \ {s} : slot'[t] = slot[t]
  BY <1>1, <1>2, <1>3, HandlerAssumption
<1>5. s \notin Asking
  BY <1>3 DEF Asking
<1>6. CASE Replays(s)'
  <2>1. p \in Replayers
    BY <1>1, <1>2, <1>3, <1>4, <1>6 DEF Replayers, Replays, Conf
  <2>2. UNCHANGED OpenedOn
    BY <1>2 DEF OpenedOn, Replayers
  <2>3. Appending' = Appending
    BY <1>1, <1>2, <1>3, <1>4 DEF Appending, InPhase
  <2>4. Asking' = Asking \cup {s}
    BY <1>2, <1>4, <1>6 DEF Asking, Replays, Conf
  <2>5. \A t \in Asking : ExchangeOf(t)' = ExchangeOf(t)
    BY <1>2, <1>4, <1>5 DEF Asking, ExchangeOf, Key
  <2> DEFINE asked == [player |-> p, key |-> Key(s)', state |-> "asked", found |-> {}]
  <2>6. ExchangeOf(s)' = asked
    BY <1>1, <1>4 DEF ExchangeOf
  <2>7. Key(s)' \in MatchKeys
    <3>1. Key(s)' = MatchKey(r, config[p], hmac[p])
      BY <1>1, <1>2, <1>4 DEF Key
    <3>2. config[p] \in Configs /\ hmac[p] \in 0 .. MaxStarts
      BY <1>3 DEF IInv, TypeOK
    <3> QED
      BY <3>1, <3>2 DEF MatchKeys
  <2> HIDE DEF asked
  <2>8. Exchanges' = Session!With(Exchanges, s, asked)
    <3>1. DOMAIN Exchanges = Asking
      BY DEF Exchanges
    <3>2. Exchanges' = [t \in Asking \cup {s} |-> IF t = s THEN asked ELSE Exchanges[t]]
      BY <1>5, <2>4, <2>5, <2>6 DEF Exchanges
    <3> QED
      BY <3>1, <3>2 DEF Session!With
  <2>9. Session!Ask(s, p, Key(s)')
    <3>1. DOMAIN Exchanges = Asking /\ DOMAIN OpenedOn = Replayers
      BY DEF Exchanges, OpenedOn
    <3> QED
      BY <1>2, <1>5, <2>1, <2>2, <2>3, <2>8, <3>1 DEF Session!Ask, asked
  <2> QED
    BY <2>7, <2>9 DEF Session!SessionNext
<1>7. CASE ~Replays(s)'
  <2>1. UNCHANGED <<OpenedOn, Exchanges>>
    BY <1>2, <1>5, <1>7, UnseenStep DEF IInv, OneSlot
  <2> QED
    BY <1>2, <2>1, RecordingStep DEF Session!SessionNext
<1> QED
  BY <1>6, <1>7

LEMMA CollectAsSession ==
    ASSUME IInv, NEW s \in Slots, Collect(s)
    PROVE  Session!SessionNext
<1>1. /\ slot' = [slot EXCEPT ![s] = Free]
      /\ UNCHANGED <<cassette, config, hmac, stamping, source>>
      /\ slot[s] # Free /\ slot[s].phase = "answered"
  BY DEF Collect, InPhase, history
<1>2. slot'[s] = Free /\ \A t \in Slots \ {s} : slot'[t] = slot[t]
  BY <1>1 DEF IInv, TypeOK
<1>3. CASE s \in Asking
  <2>1. UNCHANGED OpenedOn
    BY <1>1 DEF OpenedOn, Replayers
  <2>2. Appending' = Appending
    BY <1>1, <1>2 DEF Appending, InPhase
  <2>3. Asking' = Asking \ {s}
    BY <1>1, <1>2 DEF Asking, Replays, Conf
  <2>4. \A t \in Asking \ {s} : ExchangeOf(t)' = ExchangeOf(t)
    BY <1>1, <1>2 DEF Asking, ExchangeOf, Key
  <2>5. DOMAIN Exchanges = Asking /\ \A t \in Asking : Exchanges[t] = ExchangeOf(t)
    BY DEF Exchanges
  <2>6. Exchanges' = Session!Only(Exchanges, DOMAIN Exchanges \ {s})
    <3>1. Exchanges' = [t \in Asking \ {s} |-> ExchangeOf(t)]
      BY <2>3, <2>4 DEF Exchanges
    <3> QED
      BY <2>5, <3>1 DEF Session!Only
  <2>7. Exchanges[s].state # "asked"
    BY <1>1, <1>3, <2>5 DEF ExchangeOf
  <2> QED
    BY <1>1, <1>3, <2>1, <2>2, <2>5, <2>6, <2>7 DEF Session!Leave, Session!SessionNext
<1>4. CASE s \notin Asking
  <2>1. UNCHANGED <<OpenedOn, Exchanges>>
    BY <1>1, <1>4, UnseenStep DEF IInv, OneSlot
  <2> QED
    BY <1>1, <2>1, RecordingStep DEF Session!SessionNext
<1> QED
  BY <1>3, <1>4

\* A process starts: no handler is its, so only the open sessions change, and
\* those of a recording do not.
LEMMA StartAsSession ==
    ASSUME IInv, NEW p \in Proxies, NEW c \in Configs, Start(p, c)
    PROVE  Session!SessionNext
<1>1. /\ config[p] = Down /\ config' = [config EXCEPT ![p] = c]
      /\ \E h : hmac' = [hmac EXCEPT ![p] = h]
      /\ UNCHANGED <<cassette, slot>> /\ c # Down
      /\ c.mode = "replay" => UNCHANGED stamping
  BY HandlerAssumption DEF Start, Stamps
<1>2. PICK l \in {cassette} \cup (IF Appending THEN {<< >>} ELSE {}) :
          source' = [source EXCEPT ![p] = l]
  BY DEF Start, Readable
<1>3. /\ config'[p] = c /\ \A q \in Proxies \ {p} : config'[q] = config[q]
      /\ source'[p] = l /\ \A q \in Proxies \ {p} : source'[q] = source[q]
  BY <1>1, <1>2 DEF IInv, TypeOK
<1>4. \A q \in Proxies \ {p} : hmac'[q] = hmac[q]
  BY <1>1 DEF IInv, TypeOK
<1>5. \A t \in Slots : slot[t] # Free => slot[t].proxy \in Proxies \ {p}
  BY <1>1, SlotFacts DEF IInv, HandledWell, Conf
<1>6. UNCHANGED Exchanges /\ (UNCHANGED stamping => UNCHANGED Appending)
  <2>1. Asking' = Asking
    BY <1>1, <1>3, <1>5 DEF Asking, Replays, Conf
  <2>2. \A t \in Asking : ExchangeOf(t)' = ExchangeOf(t)
    BY <1>1, <1>3, <1>4, <1>5 DEF Asking, ExchangeOf, Key
  <2> QED
    BY <1>1, <2>1, <2>2 DEF Appending, InPhase, Exchanges
<1>7. p \notin Replayers /\ DOMAIN OpenedOn = Replayers
  BY <1>1 DEF Replayers, OpenedOn
<1>8. CASE c.mode = "replay"
  <2>1. Replayers' = Replayers \cup {p}
    BY <1>1, <1>3, <1>8 DEF Replayers
  <2>2. OpenedOn' = [q \in Replayers \cup {p} |-> IF q = p THEN l ELSE OpenedOn[q]]
    BY <1>3, <1>7, <2>1 DEF OpenedOn, Replayers
  <2>3. OpenedOn' = Session!With(OpenedOn, p, l)
    BY <1>7, <2>2 DEF Session!With
  <2>4. UNCHANGED <<cassette, Appending, Exchanges>> /\ p \notin DOMAIN OpenedOn
    BY <1>1, <1>6, <1>7, <1>8
  <2>5. Session!Open(p)
    BY <1>2, <2>3, <2>4 DEF Session!Open
  <2> QED
    BY <2>5 DEF Session!SessionNext
<1>9. CASE c.mode # "replay"
  <2>1. Replayers' = Replayers
    BY <1>1, <1>3, <1>9 DEF Replayers
  <2>2. OpenedOn' = OpenedOn
    BY <1>3, <1>7, <2>1 DEF OpenedOn, Replayers
  <2> QED
    BY <1>1, <1>6, <2>2, RecordingStep DEF Session!SessionNext
<1> QED
  BY <1>8, <1>9

\* A process ends and takes its handlers along: those of a replay are the
\* exchanges of its session and none of them appends.
LEMMA StopAsSession ==
    ASSUME IInv, NEW p \in Proxies, Stop(p)
    PROVE  Session!SessionNext
<1>1. /\ config[p] # Down /\ config' = [config EXCEPT ![p] = Down]
      /\ hmac' = [hmac EXCEPT ![p] = 0] /\ source' = [source EXCEPT ![p] = << >>]
      /\ slot' = SlotsWithout(p) /\ stamping' = stamping \ {p}
  BY DEF Stop
<1>2. \A q \in Proxies \ {p} : config'[q] = config[q] /\ hmac'[q] = hmac[q] /\ source'[q] = source[q]
  BY <1>1 DEF IInv, TypeOK
<1>3. config'[p] = Down
  BY <1>1 DEF IInv, TypeOK
<1>4. \A t \in Slots : slot'[t] = IF slot[t] # Free /\ slot[t].proxy = p THEN Free ELSE slot[t]
  BY <1>1 DEF SlotsWithout
<1>5. \A t \in Slots : slot[t] # Free => slot[t].proxy \in Proxies
  BY SlotFacts DEF IInv
<1>6. Replayers' = Replayers \ {p}
  BY <1>2, <1>3 DEF Replayers
<1>7. Asking' = {t \in Asking : slot[t].proxy # p}
  BY <1>2, <1>4, <1>5 DEF Asking, Replays, Conf
<1>8. \A t \in Asking' : ExchangeOf(t)' = ExchangeOf(t)
  <2>1. \A t \in Asking' : slot'[t] = slot[t] /\ slot[t].proxy \in Proxies \ {p}
    BY <1>4, <1>5, <1>7 DEF Asking
  <2>2. \A t \in Asking' : Key(t)' = Key(t)
    BY <1>2, <2>1 DEF Key
  <2> QED
    BY <2>1, <2>2 DEF ExchangeOf
<1>9. DOMAIN OpenedOn = Replayers /\ DOMAIN Exchanges = Asking
      /\ \A t \in Asking : Exchanges[t] = ExchangeOf(t) /\ Exchanges[t].player = slot[t].proxy
  BY DEF OpenedOn, Exchanges, ExchangeOf
<1>10. CASE p \in Replayers
  <2>1. ~Blocked(p) /\ p \notin stamping
    BY <1>10, SlotFacts DEF Blocked, InPhase, IInv, HandledWell, StampsWell, Stamps, Conf, Replayers
  <2>2. UNCHANGED cassette
    BY <2>1 DEF Stop, Blocked
  <2>3. Appending' = Appending
    BY <1>1, <1>4, <2>1 DEF Appending, InPhase, Blocked
  <2>4. OpenedOn' = Session!Only(OpenedOn, DOMAIN OpenedOn \ {p})
    <3>1. OpenedOn' = [q \in Replayers \ {p} |-> OpenedOn[q]]
      BY <1>2, <1>6 DEF OpenedOn, Replayers
    <3> QED
      BY <1>9, <3>1 DEF Session!Only
  <2>5. Exchanges' = Session!Only(Exchanges, {t \in DOMAIN Exchanges : Exchanges[t].player # p})
    <3>1. Exchanges' = [t \in Asking' |-> Exchanges[t]]
      BY <1>7, <1>8, <1>9 DEF Exchanges
    <3>2. {t \in DOMAIN Exchanges : Exchanges[t].player # p} = Asking'
      BY <1>7, <1>9
    <3> QED
      BY <3>1, <3>2 DEF Session!Only
  <2>6. Session!Close(p)
    BY <1>9, <1>10, <2>2, <2>3, <2>4, <2>5 DEF Session!Close
  <2> QED
    BY <2>6 DEF Session!SessionNext
<1>11. CASE p \notin Replayers
  <2>1. Asking' = Asking
    BY <1>1, <1>7, <1>11 DEF Asking, Replays, Conf, Replayers
  <2>2. UNCHANGED Exchanges
    BY <1>8, <2>1 DEF Exchanges
  <2>3. UNCHANGED OpenedOn
    BY <1>2, <1>6, <1>11 DEF OpenedOn, Replayers
  <2>4. \/ UNCHANGED cassette
        \/ cassette' = << >>
        \/ /\ Appending /\ Len(cassette') = Len(cassette) + 1
           /\ \A i \in DOMAIN cassette : cassette'[i] = cassette[i]
    <3>1. ASSUME NEW s \in Slots, InPhase(s, "writing"), Recorded(s)
          PROVE  /\ Appending /\ Len(cassette') = Len(cassette) + 1
                 /\ \A i \in DOMAIN cassette : cassette'[i] = cassette[i]
      <4>1. cassette \in Seq(Txs) /\ Appending
        BY <3>1 DEF IInv, TypeOK, Appending
      <4>2. \E tx \in Txs : cassette' = Append(cassette, tx)
        BY <3>1, RecordedTx DEF InPhase, IInv, HandledWell
      <4> QED
        BY <4>1, <4>2
    <3> QED
      BY <3>1 DEF Stop
  <2> QED
    BY <2>2, <2>3, <2>4, RecordingStep DEF Session!SessionNext
<1> QED
  BY <1>10, <1>11

\* A test stack is written: nobody sees it but who starts meanwhile.
LEMMA StampedAsSession ==
    ASSUME IInv, NEW p \in Proxies, Stamped(p)
    PROVE  Session!SessionNext
<1>1. UNCHANGED <<cassette, config, hmac, slot, source>>
  BY DEF Stamped, history
<1>2. UNCHANGED <<OpenedOn, Exchanges>>
  BY <1>1 DEF OpenedOn, Replayers, Exchanges, Asking, Replays, Conf, ExchangeOf, Key
<1> QED
  BY <1>1, <1>2, RecordingStep DEF Session!SessionNext

LEMMA BeginsAsSession == Init => Session!SessionInit
<1> SUFFICES ASSUME Init PROVE Session!SessionInit
  OBVIOUS
<1>1. Replayers = {} /\ Asking = {} /\ ~Appending
  BY DEF Init, Replayers, Asking, Appending, InPhase
<1>2. OpenedOn = [p \in {} |-> << >>] /\ Exchanges = [c \in {} |-> << >>]
  BY <1>1 DEF OpenedOn, Exchanges
<1>3. Appending = FALSE
  BY <1>1 DEF Appending
<1> QED
  BY <1>2, <1>3 DEF Init, Session!SessionInit

LEMMA SessionStep ==
    ASSUME IInv, [Next]_vars
    PROVE  [Session!SessionNext]_(Session!sessionVars)
<1>1. ASSUME NEW p \in Proxies, Stop(p) \/ Stamped(p)
      PROVE  Session!SessionNext
  BY <1>1, StopAsSession, StampedAsSession
<1>2. ASSUME NEW p \in Proxies, NEW c \in Configs, Start(p, c)
      PROVE  Session!SessionNext
  BY <1>2, StartAsSession
<1>3. ASSUME NEW s \in Slots, NEW p \in Proxies, NEW r \in Requests, Send(s, p, r)
      PROVE  Session!SessionNext
  BY <1>3, SendAsSession
<1>4. ASSUME NEW s \in Slots, Progress(s) \/ Refuse(s) \/ \E u \in Replies : UpstreamReplies(s, u)
      PROVE  Session!SessionNext
  BY <1>4, ServesAsSession, RecordsAsSession DEF Progress
<1>5. ASSUME NEW s \in Slots, Collect(s)
      PROVE  Session!SessionNext
  BY <1>5, CollectAsSession
<1>6. CASE UNCHANGED vars
  <2>1. UNCHANGED <<cassette, Appending, OpenedOn, Exchanges>>
    BY <1>6 DEF vars, history, Appending, InPhase, OpenedOn, Replayers, Exchanges, Asking,
                Replays, Conf, ExchangeOf, Key
  <2> QED
    BY <2>1 DEF Session!sessionVars
<1> QED
  BY <1>1, <1>2, <1>3, <1>4, <1>5, <1>6 DEF Next

\* A replay is an abstract session on the log it was opened on.
\* (implements ReplaySession: create_app and the replay branch of the handlers)
THEOREM ReplayIsASession == Spec => ImplementsSession
<1>1. Init => Session!SessionInit
  BY BeginsAsSession
<1>2. IInv /\ [Next]_vars => [Session!SessionNext]_(Session!sessionVars)
  BY SessionStep
<1> QED
  BY <1>1, <1>2, ProxyInvariant, PTL DEF Spec, ImplementsSession, Session!SessionSpec

-----------------------------------------------------------------------------
(* The order of parallel tool blocks: texts *)

\* A set of naturals that is not empty has a least one.
LEMMA LeastNatural ==
    ASSUME NEW S, S \subseteq Nat, S # {}
    PROVE  \E i \in S : \A m \in S : i <= m
<1> DEFINE LessThan == {x \in Nat \X Nat : x[1] < x[2]}
<1>1. IsWellFoundedOn(LessThan, Nat)
  BY LessThanWellFounded
<1>2. PICK i \in S : \A m \in S : ~ (<<m, i>> \in LessThan)
  <2> HIDE DEF LessThan
  <2> QED
    BY <1>1, WFMin, Zenon
<1>3. \A m \in S : m \in Nat /\ i \in Nat /\ ~ (m < i)
  BY <1>2
<1> QED
  BY <1>3

Texts == Seq(Nat)

\* Two texts that differ have a first place at which they do.
LEMMA FirstDifference ==
    ASSUME NEW a \in Texts, NEW b \in Texts, a # b
    PROVE  \E i \in Nat \ {0} :
               /\ i <= Len(a) + 1 /\ i <= Len(b) + 1
               /\ \A j \in 1 .. i - 1 : a[j] = b[j]
               /\ i <= Len(a) \/ i <= Len(b)
               /\ i <= Len(a) /\ i <= Len(b) => a[i] # b[i]
<1> DEFINE Differ == {i \in Nat : 1 <= i /\ (i <= Len(a) /\ i <= Len(b) => a[i] # b[i])}
<1>0. Len(a) \in Nat /\ Len(b) \in Nat
  BY DEF Texts
<1>1. Len(a) + 1 \in Differ
  BY <1>0
<1>2. PICK i \in Differ : \A m \in Differ : i <= m
  <2>1. Differ \subseteq Nat /\ Differ # {}
    BY <1>1
  <2> HIDE DEF Differ
  <2> QED
    BY <2>1, LeastNatural
<1>3. i \in Nat \ {0}
  OBVIOUS
<1>4. ASSUME NEW j \in 1 .. i - 1 PROVE j <= Len(a) /\ j <= Len(b) /\ a[j] = b[j]
  <2>1. j \in Nat /\ 1 <= j /\ ~(i <= j)
    BY <1>3, <1>4
  <2>2. j \notin Differ
    BY <2>1, <1>2
  <2> QED
    BY <2>1, <2>2
<1>5. i <= Len(a) + 1 /\ i <= Len(b) + 1
  <2>1. CASE i = 1
    BY <2>1, <1>0
  <2>2. CASE i > 1
    <3>1. i - 1 \in 1 .. i - 1
      BY <1>3, <2>2
    <3> QED
      BY <1>0, <1>3, <1>4, <3>1
  <2> QED
    BY <1>3, <2>1, <2>2
<1>6. i <= Len(a) \/ i <= Len(b)
  <2> SUFFICES ASSUME ~(i <= Len(a)), ~(i <= Len(b)) PROVE a = b
    OBVIOUS
  <2>1. Len(a) = i - 1 /\ Len(b) = i - 1
    BY <1>0, <1>3, <1>5
  <2>2. \A j \in 1 .. i - 1 : a[j] = b[j]
    BY <1>4
  <2> QED
    BY <2>1, <2>2 DEF Texts
<1> QED
  BY <1>2, <1>3, <1>4, <1>5, <1>6

\* Of two texts that differ, one comes first.
LEMMA TextsAreOrdered ==
    ASSUME NEW a \in Texts, NEW b \in Texts, a # b
    PROVE  Precedes(a, b) \/ Precedes(b, a)
<1>1. PICK i \in Nat \ {0} :
          /\ i <= Len(a) + 1 /\ i <= Len(b) + 1
          /\ \A j \in 1 .. i - 1 : a[j] = b[j]
          /\ i <= Len(a) \/ i <= Len(b)
          /\ i <= Len(a) /\ i <= Len(b) => a[i] # b[i]
  BY FirstDifference
<1>0. /\ Len(a) \in Nat /\ DOMAIN a = 1 .. Len(a)
      /\ Len(b) \in Nat /\ DOMAIN b = 1 .. Len(b)
  BY DEF Texts
<1>2. CASE ~(i <= Len(a))
  BY <1>0, <1>1, <1>2 DEF Precedes
<1>3. CASE ~(i <= Len(b))
  BY <1>0, <1>1, <1>3 DEF Precedes
<1>4. CASE i <= Len(a) /\ i <= Len(b)
  <2>1. a[i] \in Nat /\ b[i] \in Nat
    BY <1>0, <1>1, <1>4 DEF Texts
  <2>2. a[i] < b[i] \/ b[i] < a[i]
    BY <2>1, <1>1, <1>4
  <2>3. i \in DOMAIN a /\ i \in DOMAIN b
    BY <1>0, <1>4
  <2> QED
    BY <2>2, <2>3, <1>1 DEF Precedes
<1> QED
  BY <1>2, <1>3, <1>4

\* No text comes before itself.
LEMMA NoTextPrecedesItself ==
    ASSUME NEW a \in Texts
    PROVE  ~Precedes(a, a)
<1> SUFFICES ASSUME NEW i \in DOMAIN a, i <= Len(a) => a[i] < a[i] PROVE FALSE
  BY DEF Precedes
<1>1. i <= Len(a) /\ a[i] \in Nat
  BY DEF Texts
<1> QED
  BY <1>1

\* The order of texts is transitive.
LEMMA PrecedesIsTransitive ==
    ASSUME NEW a \in Texts, NEW b \in Texts, NEW c \in Texts, Precedes(a, b), Precedes(b, c)
    PROVE  Precedes(a, c)
<1>1. PICK i \in DOMAIN b :
          /\ i <= Len(a) + 1
          /\ \A j \in 1 .. i - 1 : a[j] = b[j]
          /\ i <= Len(a) => a[i] < b[i]
  BY DEF Precedes
<1>2. PICK m \in DOMAIN c :
          /\ m <= Len(b) + 1
          /\ \A j \in 1 .. m - 1 : b[j] = c[j]
          /\ m <= Len(b) => b[m] < c[m]
  BY DEF Precedes
<1>0. /\ Len(a) \in Nat /\ Len(b) \in Nat /\ Len(c) \in Nat
      /\ DOMAIN b = 1 .. Len(b) /\ DOMAIN c = 1 .. Len(c)
      /\ i \in Nat /\ m \in Nat /\ 1 <= i /\ 1 <= m /\ i <= Len(b) /\ m <= Len(c)
  <2>1. Len(a) \in Nat /\ Len(b) \in Nat /\ Len(c) \in Nat
    BY DEF Texts
  <2>2. DOMAIN b = 1 .. Len(b) /\ DOMAIN c = 1 .. Len(c)
    BY DEF Texts
  <2> QED
    BY <2>1, <2>2
<1>v. /\ \A j \in Nat : 1 <= j /\ j <= Len(a) => a[j] \in Nat
      /\ \A j \in Nat : 1 <= j /\ j <= Len(b) => b[j] \in Nat
      /\ \A j \in Nat : 1 <= j /\ j <= Len(c) => c[j] \in Nat
  <2>1. \A e \in Texts : \A j \in Nat : 1 <= j /\ j <= Len(e) => e[j] \in Nat
    BY DEF Texts
  <2> QED
    BY <2>1
<1>3. CASE i < m
  <2>1. i \in DOMAIN c /\ i \in 1 .. m - 1
    BY <1>0, <1>3
  <2>2. i <= Len(a) => a[i] < c[i]
    BY <2>1, <1>1, <1>2
  <2>3. \A j \in 1 .. i - 1 : a[j] = c[j]
    BY <1>0, <1>1, <1>2, <1>3
  <2> QED
    BY <2>1, <2>2, <2>3, <1>1 DEF Precedes
<1>4. CASE i = m
  <2>1. b[i] < c[i]
    BY <1>0, <1>2, <1>4
  <2>2. i <= Len(a) => a[i] < c[i]
    BY <2>1, <1>0, <1>1, <1>4, <1>v
  <2>3. \A j \in 1 .. i - 1 : a[j] = c[j]
    BY <1>1, <1>2, <1>4
  <2> QED
    BY <2>2, <2>3, <1>1, <1>4 DEF Precedes
<1>5. CASE m < i
  <2>1. m <= Len(a) + 1 /\ m \in 1 .. i - 1 /\ m <= Len(b)
    BY <1>0, <1>1, <1>5
  <2>2. a[m] < c[m]
    BY <2>1, <1>1, <1>2
  <2>3. \A j \in 1 .. m - 1 : a[j] = c[j]
    BY <1>0, <1>1, <1>2, <1>5
  <2> QED
    BY <2>1, <2>2, <2>3 DEF Precedes
<1> QED
  BY <1>0, <1>3, <1>4, <1>5

-----------------------------------------------------------------------------
(* The order of parallel tool blocks: places *)

\* One of two places goes before the other, and not the other before it.
LEMMA PlacesAreOrdered ==
    ASSUME NEW keys \in Seq(Texts), NEW i \in DOMAIN keys, NEW j \in DOMAIN keys
    PROVE  /\ ~GoesBefore(keys, i, i)
           /\ i # j => GoesBefore(keys, i, j) \/ GoesBefore(keys, j, i)
<1>1. keys[i] \in Texts /\ keys[j] \in Texts
  OBVIOUS
<1>2. i \in Nat /\ j \in Nat
  OBVIOUS
<1>3. ~GoesBefore(keys, i, i)
  BY <1>1, <1>2, NoTextPrecedesItself DEF GoesBefore
<1>4. ASSUME i # j PROVE GoesBefore(keys, i, j) \/ GoesBefore(keys, j, i)
  <2>1. CASE keys[i] = keys[j]
    BY <2>1, <1>2, <1>4 DEF GoesBefore
  <2>2. CASE keys[i] # keys[j]
    BY <2>2, <1>1, TextsAreOrdered DEF GoesBefore
  <2> QED
    BY <2>1, <2>2
<1> QED
  BY <1>3, <1>4

\* What goes before a place goes before all that the place goes before.
LEMMA GoesBeforeIsTransitive ==
    ASSUME NEW keys \in Seq(Texts),
           NEW i \in DOMAIN keys, NEW j \in DOMAIN keys, NEW m \in DOMAIN keys,
           GoesBefore(keys, i, j), GoesBefore(keys, j, m)
    PROVE  GoesBefore(keys, i, m)
<1>1. keys[i] \in Texts /\ keys[j] \in Texts /\ keys[m] \in Texts
  OBVIOUS
<1>2. i \in Nat /\ j \in Nat /\ m \in Nat
  OBVIOUS
<1>3. CASE Precedes(keys[i], keys[j]) /\ Precedes(keys[j], keys[m])
  <2>1. Precedes(keys[i], keys[m])
    BY <1>1, <1>3, PrecedesIsTransitive
  <2> QED
    BY <2>1 DEF GoesBefore
<1>4. CASE keys[i] = keys[j] \/ keys[j] = keys[m]
  BY <1>1, <1>2, <1>4, NoTextPrecedesItself DEF GoesBefore
<1> QED
  BY <1>3, <1>4 DEF GoesBefore

\* The places that go before one.
Before(keys, i) == {j \in DOMAIN keys : GoesBefore(keys, j, i)}

\* Places are sorted into places, and into the order they go in.
LEMMA SortedPlacesIncrease ==
    ASSUME NEW keys \in Seq(Texts)
    PROVE  /\ \A i \in DOMAIN keys : SortedPlace(keys, i) \in DOMAIN keys
           /\ \A i, j \in DOMAIN keys :
                  GoesBefore(keys, i, j) => SortedPlace(keys, i) < SortedPlace(keys, j)
<1> DEFINE D == DOMAIN keys
           n == Len(keys)
<1>1. D = 1 .. n /\ n \in Nat
  OBVIOUS
<1>2. IsFiniteSet(D) /\ Cardinality(D) = n
  BY <1>1, FS_Interval
<1>3. \A i \in D : IsFiniteSet(Before(keys, i)) /\ Cardinality(Before(keys, i)) \in Nat
  <2> TAKE i \in D
  <2>1. Before(keys, i) \in SUBSET D
    BY DEF Before
  <2> HIDE DEF D
  <2>2. IsFiniteSet(Before(keys, i))
    BY <2>1, <1>2, FS_Subset
  <2> QED
    BY <2>2, FS_CardinalityType
<1>4. \A i \in D : SortedPlace(keys, i) = 1 + Cardinality(Before(keys, i))
  BY DEF SortedPlace, Before
<1>5. ASSUME NEW S, NEW T, IsFiniteSet(T), S \subseteq T, S # T
      PROVE  Cardinality(S) < Cardinality(T)
  <2>1. Cardinality(S) <= Cardinality(T) /\ Cardinality(S) # Cardinality(T) /\ IsFiniteSet(S)
    BY <1>5, FS_Subset
  <2>2. Cardinality(S) \in Nat /\ Cardinality(T) \in Nat
    BY <2>1, <1>5, FS_CardinalityType
  <2> QED
    BY <2>1, <2>2
<1>6. ASSUME NEW i \in D PROVE SortedPlace(keys, i) \in D
  <2>1. Before(keys, i) \subseteq D /\ Before(keys, i) # D
    BY <1>6, PlacesAreOrdered DEF Before
  <2>2. Cardinality(Before(keys, i)) < n
    <3> HIDE DEF D
    <3> QED
      BY <2>1, <1>2, <1>5
  <2> QED
    BY <2>2, <1>1, <1>3, <1>4
<1>7. ASSUME NEW i \in D, NEW j \in D, GoesBefore(keys, i, j)
      PROVE  SortedPlace(keys, i) < SortedPlace(keys, j)
  <2>1. Before(keys, i) \subseteq Before(keys, j)
    BY <1>7, GoesBeforeIsTransitive DEF Before
  <2>2. i \in Before(keys, j) /\ i \notin Before(keys, i)
    BY <1>7, PlacesAreOrdered DEF Before
  <2>3. Cardinality(Before(keys, i)) < Cardinality(Before(keys, j))
    <3> HIDE DEF D
    <3> QED
      BY <2>1, <2>2, <1>3, <1>5
  <2> QED
    BY <2>3, <1>3, <1>4
<1> QED
  BY <1>6, <1>7

\* Every place is where exactly one item goes.
LEMMA SortedPlacesAreAll ==
    ASSUME NEW keys \in Seq(Texts), NEW k \in DOMAIN keys
    PROVE  \E i \in DOMAIN keys :
               /\ SortedPlace(keys, i) = k
               /\ \A j \in DOMAIN keys : SortedPlace(keys, j) = k => j = i
<1> DEFINE D == DOMAIN keys
           place == [i \in D |-> SortedPlace(keys, i)]
<1>1. \A i \in D : SortedPlace(keys, i) \in D /\ SortedPlace(keys, i) \in Nat
  BY SortedPlacesIncrease
<1>2. \A i, j \in D : i # j => SortedPlace(keys, i) # SortedPlace(keys, j)
  <2> SUFFICES ASSUME NEW i \in D, NEW j \in D, i # j
               PROVE  SortedPlace(keys, i) # SortedPlace(keys, j)
    OBVIOUS
  <2>1. SortedPlace(keys, i) < SortedPlace(keys, j) \/ SortedPlace(keys, j) < SortedPlace(keys, i)
    BY PlacesAreOrdered, SortedPlacesIncrease
  <2> QED
    BY <2>1, <1>1
<1>3. IsFiniteSet(D)
  <2>1. D = 1 .. Len(keys) /\ Len(keys) \in Nat
    OBVIOUS
  <2> QED
    BY <2>1, FS_Interval
<1>4. place \in Injection(D, D)
  BY <1>1, <1>2 DEF Injection, IsInjective
<1>5. place \in Surjection(D, D)
  <2> HIDE DEF place, D
  <2> QED
    BY <1>3, <1>4, FS_Injection
<1>6. PICK i \in D : place[i] = k
  BY <1>5 DEF Surjection
<1> QED
  BY <1>2, <1>6

-----------------------------------------------------------------------------
(* The order of parallel tool blocks: lists *)

\* The place an item comes from.
Source(keys, k) == CHOOSE i \in DOMAIN keys : SortedPlace(keys, i) = k

\* It is a place, and its item goes there and nowhere else.
LEMMA SourceIsThePlace ==
    ASSUME NEW keys \in Seq(Texts), NEW k \in DOMAIN keys
    PROVE  /\ Source(keys, k) \in DOMAIN keys
           /\ SortedPlace(keys, Source(keys, k)) = k
           /\ \A i \in DOMAIN keys : SortedPlace(keys, i) = k => i = Source(keys, k)
BY SortedPlacesAreAll DEF Source

\* list.sort, as match.py uses it: the result has the items of the list, each
\* as often as the list does, in the order of their keys, and items with equal
\* keys as they came.
THEOREM SortIsStable ==
    ASSUME NEW keys \in Seq(Texts), NEW s, DOMAIN s = DOMAIN keys
    PROVE  \E from \in Bijection(DOMAIN s, DOMAIN s) :
               /\ StableSort(s, keys) = [k \in DOMAIN s |-> s[from[k]]]
               /\ \A k, m \in DOMAIN s : k < m =>
                      \/ Precedes(keys[from[k]], keys[from[m]])
                      \/ keys[from[k]] = keys[from[m]] /\ from[k] < from[m]
<1> DEFINE from == [k \in DOMAIN s |-> Source(keys, k)]
<1>1. \A k \in DOMAIN s : from[k] \in DOMAIN s /\ SortedPlace(keys, from[k]) = k
  BY SourceIsThePlace
<1>2. from \in Injection(DOMAIN s, DOMAIN s)
  BY <1>1 DEF Injection, IsInjective
<1>3. from \in Surjection(DOMAIN s, DOMAIN s)
  <2> SUFFICES ASSUME NEW i \in DOMAIN s PROVE \E k \in DOMAIN s : from[k] = i
    BY <1>1 DEF Surjection
  <2>1. SortedPlace(keys, i) \in DOMAIN s
    BY SortedPlacesIncrease
  <2> QED
    BY <2>1, SourceIsThePlace
<1>4. StableSort(s, keys) = [k \in DOMAIN s |-> s[from[k]]]
  BY DEF StableSort, Source
<1>5. ASSUME NEW k \in DOMAIN s, NEW m \in DOMAIN s, k < m
      PROVE  GoesBefore(keys, from[k], from[m])
  <2>1. from[k] # from[m]
    BY <1>1, <1>5
  <2>2. k \in Nat /\ m \in Nat
    OBVIOUS
  <2>3. ~GoesBefore(keys, from[m], from[k])
    <3> SUFFICES ASSUME GoesBefore(keys, from[m], from[k]) PROVE FALSE
      OBVIOUS
    <3>1. SortedPlace(keys, from[m]) < SortedPlace(keys, from[k])
      BY <1>1, SortedPlacesIncrease
    <3> QED
      BY <3>1, <1>1, <1>5, <2>2
  <2> QED
    BY <2>1, <2>3, <1>1, PlacesAreOrdered
<1> QED
  BY <1>2, <1>3, <1>4, <1>5 DEF Bijection, GoesBefore

\* Two orders of the items that both follow the keys have, at each place, the
\* same key: one cannot have the smaller.
LEMMA OneSortedOrder ==
    ASSUME NEW n \in Nat, NEW keys \in [1 .. n -> Texts],
           NEW f \in Bijection(1 .. n, 1 .. n), NEW h \in Bijection(1 .. n, 1 .. n),
           \A k, m \in 1 .. n : k < m => ~Precedes(keys[f[m]], keys[f[k]]),
           \A k, m \in 1 .. n : k < m => ~Precedes(keys[h[m]], keys[h[k]]),
           NEW k \in 1 .. n
    PROVE  ~Precedes(keys[h[k]], keys[f[k]])
<1> SUFFICES ASSUME Precedes(keys[h[k]], keys[f[k]]) PROVE FALSE
  OBVIOUS
<1> DEFINE Low == {i \in 1 .. n : ~Precedes(keys[h[k]], keys[i])}
<1>0. /\ \A m \in 1 .. n : f[m] \in 1 .. n /\ h[m] \in 1 .. n
      /\ \A m, l \in 1 .. n : f[m] = f[l] => m = l
      /\ \A m, l \in 1 .. n : h[m] = h[l] => m = l
      /\ \A i \in 1 .. n : \E m \in 1 .. n : f[m] = i
  BY DEF Bijection, Injection, Surjection, IsInjective
<1>1. IsFiniteSet(Low) /\ Cardinality(Low) \in Nat
  <2>1. IsFiniteSet(1 .. n) /\ Low \in SUBSET (1 .. n)
    BY FS_Interval
  <2> HIDE DEF Low
  <2>2. IsFiniteSet(Low)
    BY <2>1, FS_Subset
  <2> QED
    BY <2>2, FS_CardinalityType
<1>2. k <= Cardinality(Low)
  <2> DEFINE first == [m \in 1 .. k |-> h[m]]
  <2>1. ASSUME NEW m \in 1 .. k PROVE h[m] \in Low /\ m \in 1 .. n
    <3>0. m \in 1 .. n /\ (m < k \/ m = k)
      OBVIOUS
    <3>1. m \in 1 .. n /\ (m < k \/ m = k) /\ keys[h[k]] \in Texts
      BY <3>0, <1>0
    <3>2. ~Precedes(keys[h[k]], keys[h[m]])
      BY <3>1, NoTextPrecedesItself
    <3> QED
      BY <3>1, <3>2, <1>0
  <2>2. first \in Injection(1 .. k, Low)
    <3>1. first \in [1 .. k -> Low]
      BY <2>1
    <3>2. \A m, l \in 1 .. k : first[m] = first[l] => m = l
      BY <2>1, <1>0
    <3> HIDE DEF first, Low
    <3> QED
      BY <3>1, <3>2 DEF Injection, IsInjective
  <2>3. Cardinality(1 .. k) <= Cardinality(Low)
    <3> HIDE DEF first, Low
    <3> QED
      BY <2>2, <1>1, FS_Injection
  <2> QED
    BY <2>3, FS_Interval
<1>3. Cardinality(Low) <= k - 1
  <2> DEFINE at == [i \in Low |-> CHOOSE m \in 1 .. n : f[m] = i]
  <2>1. \A i \in Low : at[i] \in 1 .. n /\ f[at[i]] = i
    BY <1>0
  <2>2. ASSUME NEW i \in Low PROVE at[i] \in 1 .. k - 1
    <3> DEFINE m == at[i]
    <3>1. m \in 1 .. n /\ f[m] = i
      BY <2>1
    <3> HIDE DEF m
    <3>2. SUFFICES ASSUME k <= m PROVE FALSE
      BY <3>1 DEF m
    <3>3. /\ keys[i] \in Texts /\ keys[f[k]] \in Texts /\ keys[h[k]] \in Texts
          /\ ~Precedes(keys[h[k]], keys[i])
      BY <1>0
    <3>4. ~Precedes(keys[i], keys[f[k]])
      <4>1. k < m \/ k = m
        BY <3>1, <3>2
      <4> QED
        BY <4>1, <3>1, <3>3, NoTextPrecedesItself
    <3>5. Precedes(keys[f[k]], keys[i]) \/ keys[f[k]] = keys[i]
      BY <3>3, <3>4, TextsAreOrdered
    <3> QED
      BY <3>3, <3>5, PrecedesIsTransitive
  <2>3. at \in Injection(Low, 1 .. k - 1)
    <3>1. \A i, j \in Low : at[i] = at[j] => i = j
      BY <2>1
    <3>2. at \in [Low -> 1 .. k - 1]
      BY <2>2
    <3> HIDE DEF at, Low
    <3> QED
      BY <3>1, <3>2 DEF Injection, IsInjective
  <2>4. IsFiniteSet(1 .. k - 1) /\ Cardinality(1 .. k - 1) = k - 1
    BY FS_Interval
  <2> HIDE DEF at, Low
  <2> QED
    BY <2>3, <2>4, FS_Injection
<1> HIDE DEF Low
<1> QED
  BY <1>1, <1>2, <1>3

\* sort_openai_tool_calls_in_messages: the lists it makes of two lists in which
\* the same calls came in different orders are the same, unless two calls that
\* differ have the same key: then the order of arrival is kept.
THEOREM ArrivalOrderIsLost ==
    ASSUME NEW keys \in Seq(Texts), NEW s, DOMAIN s = DOMAIN keys,
           \A i, j \in DOMAIN s : keys[i] = keys[j] => s[i] = s[j],
           NEW p \in Bijection(DOMAIN s, DOMAIN s)
    PROVE  StableSort([i \in DOMAIN s |-> s[p[i]]], [i \in DOMAIN s |-> keys[p[i]]])
               = StableSort(s, keys)
<1> DEFINE D == DOMAIN s
           n == Len(keys)
           t == [i \in D |-> s[p[i]]]
           other == [i \in D |-> keys[p[i]]]
<1>0. D = 1 .. n /\ n \in Nat /\ keys \in [1 .. n -> Texts]
  OBVIOUS
<1>1. \A i \in D : p[i] \in D
  BY DEF Bijection, Injection
<1>2. other \in Seq(Texts) /\ DOMAIN other = D /\ DOMAIN t = D
  BY <1>0, <1>1
<1>3. PICK f \in Bijection(D, D) :
          /\ StableSort(s, keys) = [k \in D |-> s[f[k]]]
          /\ \A k, m \in D : k < m =>
                 \/ Precedes(keys[f[k]], keys[f[m]])
                 \/ keys[f[k]] = keys[f[m]] /\ f[k] < f[m]
  BY SortIsStable
<1>4. PICK g \in Bijection(D, D) :
          /\ StableSort(t, other) = [k \in D |-> t[g[k]]]
          /\ \A k, m \in D : k < m =>
                 \/ Precedes(other[g[k]], other[g[m]])
                 \/ other[g[k]] = other[g[m]] /\ g[k] < g[m]
  <2> HIDE DEF t, other
  <2> QED
    BY <1>2, SortIsStable
<1> DEFINE h == [k \in D |-> p[g[k]]]
<1>5. h \in Bijection(D, D)
  <2>1. /\ \A i \in D : p[i] \in D /\ g[i] \in D
        /\ \A i, j \in D : p[i] = p[j] => i = j
        /\ \A i, j \in D : g[i] = g[j] => i = j
        /\ \A j \in D : \E i \in D : p[i] = j
        /\ \A j \in D : \E i \in D : g[i] = j
    BY DEF Bijection, Injection, Surjection, IsInjective
  <2>2. h \in [D -> D]
    BY <2>1
  <2>3. \A i, j \in D : h[i] = h[j] => i = j
    BY <2>1
  <2>4. \A j \in D : \E i \in D : h[i] = j
    <3> TAKE j \in D
    <3>1. PICK i \in D : p[i] = j
      BY <2>1
    <3>2. PICK k \in D : g[k] = i
      BY <2>1
    <3> QED
      BY <3>1, <3>2
  <2> HIDE DEF D, h
  <2> QED
    BY <2>2, <2>3, <2>4 DEF Bijection, Injection, Surjection, IsInjective
<1>6. \A k \in D : /\ f[k] \in D /\ g[k] \in D /\ h[k] \in D
                   /\ keys[f[k]] \in Texts /\ keys[h[k]] \in Texts
                   /\ other[g[k]] = keys[h[k]] /\ t[g[k]] = s[h[k]]
  <2>1. \A k \in D : f[k] \in D /\ g[k] \in D /\ h[k] \in D
    BY <1>5 DEF Bijection, Injection
  <2>2. \A k \in D : h[k] = p[g[k]]
    OBVIOUS
  <2>3. \A i \in D : keys[i] \in Texts
    BY <1>0
  <2>4. \A i \in D : other[i] = keys[p[i]] /\ t[i] = s[p[i]]
    OBVIOUS
  <2> HIDE DEF D, h, t, other
  <2> QED
    BY <2>1, <2>2, <2>3, <2>4
<1>7. \A k, m \in D : k < m => ~Precedes(keys[f[m]], keys[f[k]])
  <2> SUFFICES ASSUME NEW k \in D, NEW m \in D, k < m, Precedes(keys[f[m]], keys[f[k]])
               PROVE  FALSE
    OBVIOUS
  <2>1. Precedes(keys[f[k]], keys[f[m]]) \/ keys[f[k]] = keys[f[m]]
    BY <1>3
  <2> QED
    BY <2>1, <1>6, NoTextPrecedesItself, PrecedesIsTransitive
<1>8. \A k, m \in D : k < m => ~Precedes(keys[h[m]], keys[h[k]])
  <2> SUFFICES ASSUME NEW k \in D, NEW m \in D, k < m, Precedes(keys[h[m]], keys[h[k]])
               PROVE  FALSE
    OBVIOUS
  <2>1. Precedes(other[g[k]], other[g[m]]) \/ other[g[k]] = other[g[m]]
    BY <1>4
  <2>2. Precedes(keys[h[k]], keys[h[m]]) \/ keys[h[k]] = keys[h[m]]
    <3> HIDE DEF h, other
    <3> QED
      BY <2>1, <1>6
  <2> HIDE DEF h
  <2> QED
    BY <2>2, <1>6, NoTextPrecedesItself, PrecedesIsTransitive
<1>9. \A k \in D : keys[h[k]] = keys[f[k]]
  <2> TAKE k \in D
  <2> HIDE DEF h, t, other
  <2>1. ~Precedes(keys[h[k]], keys[f[k]])
    BY <1>0, <1>5, <1>7, <1>8, OneSortedOrder
  <2>2. ~Precedes(keys[f[k]], keys[h[k]])
    BY <1>0, <1>5, <1>7, <1>8, OneSortedOrder
  <2> QED
    BY <2>1, <2>2, <1>6, TextsAreOrdered
<1>10. \A k \in D : s[h[k]] = s[f[k]]
  <2> HIDE DEF h
  <2> QED
    BY <1>6, <1>9
<1>11. [k \in D |-> t[g[k]]] = [k \in D |-> s[f[k]]]
  <2> HIDE DEF h, t, other, D
  <2> QED
    BY <1>6, <1>10
<1> QED
  BY <1>3, <1>4, <1>11

\* No list of one conversation becomes the list of another: lists that are the
\* same when sorted, by whatever keys, have the same blocks, each as often.
THEOREM SortingKeepsBlocks ==
    ASSUME NEW keys \in Seq(Texts), NEW s, DOMAIN s = DOMAIN keys,
           NEW others \in Seq(Texts), NEW t, DOMAIN t = DOMAIN others,
           StableSort(s, keys) = StableSort(t, others)
    PROVE  /\ DOMAIN s = DOMAIN t
           /\ \E p \in Bijection(DOMAIN s, DOMAIN s) : \A i \in DOMAIN s : t[i] = s[p[i]]
<1> DEFINE D == DOMAIN s
<1>1. DOMAIN StableSort(s, keys) = D /\ DOMAIN StableSort(t, others) = DOMAIN t
  BY DEF StableSort
<1>2. DOMAIN t = D
  BY <1>1
<1>3. PICK f \in Bijection(D, D) : StableSort(s, keys) = [k \in D |-> s[f[k]]]
  BY SortIsStable
<1>4. PICK g \in Bijection(D, D) : StableSort(t, others) = [k \in D |-> t[g[k]]]
  <2>1. \E g \in Bijection(DOMAIN t, DOMAIN t) :
            StableSort(t, others) = [k \in DOMAIN t |-> t[g[k]]]
    BY SortIsStable
  <2> QED
    BY <2>1, <1>2
<1>5. /\ \A i \in D : f[i] \in D /\ g[i] \in D
      /\ \A i, j \in D : f[i] = f[j] => i = j
      /\ \A i, j \in D : g[i] = g[j] => i = j
      /\ \A j \in D : \E i \in D : f[i] = j
      /\ \A j \in D : \E i \in D : g[i] = j
  BY DEF Bijection, Injection, Surjection, IsInjective
<1>6. \A k \in D : s[f[k]] = t[g[k]]
  BY <1>3, <1>4
<1> DEFINE back == [j \in D |-> CHOOSE i \in D : g[i] = j]
           p == [j \in D |-> f[back[j]]]
<1>7. \A j \in D : back[j] \in D /\ g[back[j]] = j
  BY <1>5
<1>8. \A i \in D : back[g[i]] = i
  <2> HIDE DEF back, D
  <2> TAKE i \in D
  <2>1. g[i] \in D
    BY <1>5
  <2>2. back[g[i]] \in D /\ g[back[g[i]]] = g[i]
    BY <2>1, <1>7
  <2>3. \A j, k \in D : g[j] = g[k] => j = k
    BY <1>5
  <2> QED
    BY <2>2, <2>3
<1>9. p \in Bijection(D, D)
  <2>0. \A j \in D : p[j] = f[back[j]]
    OBVIOUS
  <2>1. \A j \in D : p[j] \in D
    <3> HIDE DEF back, p, D
    <3> QED
      BY <2>0, <1>5, <1>7
  <2>2. \A i, j \in D : p[i] = p[j] => i = j
    <3> SUFFICES ASSUME NEW i \in D, NEW j \in D, p[i] = p[j] PROVE i = j
      OBVIOUS
    <3> HIDE DEF back, p, D
    <3>1. back[i] \in D /\ back[j] \in D /\ f[back[i]] = f[back[j]]
      BY <2>0, <1>7
    <3>2. \A k, m \in D : f[k] = f[m] => k = m
      BY <1>5
    <3>3. back[i] = back[j]
      BY <3>1, <3>2
    <3> QED
      BY <3>3, <1>7
  <2>3. \A j \in D : \E i \in D : p[i] = j
    <3> TAKE j \in D
    <3>1. PICK k \in D : f[k] = j
      BY <1>5
    <3> HIDE DEF back, p, D
    <3>2. g[k] \in D /\ p[g[k]] = j
      BY <2>0, <3>1, <1>5, <1>8
    <3> QED
      BY <3>2
  <2>4. p \in [D -> D]
    BY <2>1
  <2> HIDE DEF p, D
  <2> QED
    BY <2>2, <2>3, <2>4 DEF Bijection, Injection, Surjection, IsInjective
<1>10. \A j \in D : t[j] = s[p[j]]
  <2>1. \A j \in D : p[j] = f[back[j]]
    OBVIOUS
  <2> HIDE DEF back, p, D
  <2> QED
    BY <2>1, <1>6, <1>7
<1> HIDE DEF p
<1> QED
  BY <1>2, <1>9, <1>10

-----------------------------------------------------------------------------
(* The order of parallel tool blocks: runs *)

\* The run of a place begins at a place of it, no later, and the places between
\* are of the run.
LEMMA RunHasStart ==
    ASSUME NEW n \in Nat, NEW places, places \subseteq 1 .. n, NEW i \in places
    PROVE  /\ RunStart(places, i) \in 1 .. i
           /\ RunStart(places, i) .. i \subseteq places
           /\ RunStart(places, i) - 1 \notin places
<1> DEFINE Starts == {j \in 1 .. i : j .. i \subseteq places}
<1>1. i \in Nat /\ 1 <= i /\ 0 \notin places
  OBVIOUS
<1>2. Starts \subseteq Nat /\ i \in Starts
  <2>1. i .. i = {i}
    BY <1>1
  <2> QED
    BY <2>1, <1>1
<1>3. PICK j \in Starts : \A m \in Starts : j <= m
  <2> HIDE DEF Starts
  <2> QED
    BY <1>2, LeastNatural
<1>4. j - 1 \notin places
  <2> SUFFICES ASSUME j - 1 \in places PROVE FALSE
    OBVIOUS
  <2>1. j \in Nat /\ 1 <= j /\ j <= i /\ j - 1 # 0
    BY <1>1
  <2>2. (j - 1) .. i = {j - 1} \cup (j .. i)
    BY <1>1, <2>1
  <2>3. j - 1 \in Starts
    BY <2>1, <2>2, <1>1
  <2>4. j <= j - 1
    BY <2>3, <1>3
  <2> QED
    BY <2>1, <2>4
<1>5. \E m \in 1 .. i : m .. i \subseteq places /\ m - 1 \notin places
  BY <1>4
<1> QED
  BY <1>5 DEF RunStart

\* What comes first at a place when runs are sorted: its run, or itself.
Group(places, i) == IF i \in places THEN RunStart(places, i) ELSE i

\* Places have groups that do not decrease, a place outside the runs has one of
\* its own, and a run has its start's.
LEMMA GroupsIncrease ==
    ASSUME NEW n \in Nat, NEW places, places \subseteq 1 .. n
    PROVE  /\ \A i \in 1 .. n : Group(places, i) \in 1 .. i
           /\ \A i, j \in 1 .. n : i < j => Group(places, i) <= Group(places, j)
           /\ \A i \in 1 .. n : Group(places, i) \in places <=> i \in places
<1>1. ASSUME NEW i \in 1 .. n
      PROVE  Group(places, i) \in 1 .. i /\ (Group(places, i) \in places <=> i \in places)
  <2>1. CASE i \in places
    <3>1. /\ RunStart(places, i) \in 1 .. i
          /\ RunStart(places, i) .. i \subseteq places
      BY <2>1, RunHasStart
    <3>2. RunStart(places, i) \in RunStart(places, i) .. i
      BY <3>1
    <3> QED
      BY <2>1, <3>1, <3>2 DEF Group
  <2>2. CASE i \notin places
    BY <2>2 DEF Group
  <2> QED
    BY <2>1, <2>2
<1>2. ASSUME NEW i \in 1 .. n, NEW j \in 1 .. n, i < j
      PROVE  Group(places, i) <= Group(places, j)
  <2>1. Group(places, i) \in 1 .. i
    BY <1>1
  <2>2. CASE j \notin places
    BY <2>1, <2>2, <1>2 DEF Group
  <2>3. CASE j \in places
    <3> DEFINE b == RunStart(places, j)
    <3>1. /\ b \in 1 .. j
          /\ b .. j \subseteq places
          /\ b - 1 \notin places
      BY <2>3, RunHasStart
    <3> HIDE DEF b
    <3>2. Group(places, j) = b
      BY <2>3 DEF Group, b
    <3>3. CASE i <= b
      BY <2>1, <3>1, <3>2, <3>3
    <3>4. CASE b < i
      <4> DEFINE a == RunStart(places, i)
      <4>1. i \in places
        BY <3>1, <3>4, <1>2
      <4>2. a \in 1 .. i /\ a .. i \subseteq places
        BY <4>1, RunHasStart
      <4>3. Group(places, i) = a
        BY <4>1 DEF Group
      <4> HIDE DEF a
      <4>4. SUFFICES ASSUME b < a PROVE FALSE
        BY <2>1, <3>1, <3>2, <4>2, <4>3
      <4>5. a - 1 \in b .. j
        BY <4>2, <4>4, <3>1, <1>2
      <4>6. a - 1 \notin places
        BY <4>1, RunHasStart DEF a
      <4> QED
        BY <4>5, <4>6, <3>1
    <3> QED
      BY <3>1, <3>3, <3>4
  <2> QED
    BY <2>2, <2>3
<1> QED
  BY <1>1, <1>2

\* The keys of the sort by runs: a group, and for the places of the runs a text.
LEMMA RunKeysAreTexts ==
    ASSUME NEW texts \in Seq(Texts), NEW places, places \subseteq DOMAIN texts
    PROVE  /\ RunKeys(places, texts) \in Seq(Texts)
           /\ DOMAIN RunKeys(places, texts) = DOMAIN texts
           /\ \A i \in DOMAIN texts :
                  /\ RunKeys(places, texts)[i][1] = Group(places, i)
                  /\ Len(RunKeys(places, texts)[i]) >= 1
                  /\ i \in places =>
                        RunKeys(places, texts)[i] = <<Group(places, i)>> \o texts[i]
                  /\ i \notin places => RunKeys(places, texts)[i] = <<Group(places, i)>>
<1> DEFINE n == Len(texts)
<1>1. n \in Nat /\ DOMAIN texts = 1 .. n
  OBVIOUS
<1>2. ASSUME NEW i \in DOMAIN texts
      PROVE  /\ Group(places, i) \in Nat
             /\ texts[i] \in Texts
             /\ i \in places =>
                   RunKeys(places, texts)[i] = <<Group(places, i)>> \o texts[i]
             /\ i \notin places => RunKeys(places, texts)[i] = <<Group(places, i)>>
  <2>1. i \in 1 .. n /\ places \subseteq 1 .. n
    BY <1>1
  <2>2. Group(places, i) \in 1 .. i
    BY <2>1, <1>1, GroupsIncrease
  <2>3. Group(places, i) \in Nat
    BY <2>1, <2>2
  <2>4. texts[i] \in Texts
    OBVIOUS
  <2>5. RunKeys(places, texts)[i] =
            IF i \in places THEN <<RunStart(places, i)>> \o texts[i] ELSE <<i>>
    BY DEF RunKeys
  <2> QED
    BY <2>3, <2>4, <2>5 DEF Group
<1>3. \A g \in Nat : \A x \in Texts :
          /\ <<g>> \o x \in Texts /\ (<<g>> \o x)[1] = g /\ Len(<<g>> \o x) >= 1
          /\ <<g>> \in Texts /\ <<g>>[1] = g /\ Len(<<g>>) >= 1
  BY DEF Texts
<1>4. \A i \in DOMAIN texts :
          /\ RunKeys(places, texts)[i] \in Texts
          /\ RunKeys(places, texts)[i][1] = Group(places, i)
          /\ Len(RunKeys(places, texts)[i]) >= 1
  <2> TAKE i \in DOMAIN texts
  <2> DEFINE key == RunKeys(places, texts)[i]
             g == Group(places, i)
  <2>1. g \in Nat /\ texts[i] \in Texts
    BY <1>2
  <2>2. key = <<g>> \o texts[i] \/ key = <<g>>
    BY <1>2
  <2> HIDE DEF key, g
  <2>3. key \in Texts /\ key[1] = g /\ Len(key) >= 1
    BY <2>1, <2>2, <1>3
  <2> QED
    BY <2>3 DEF key, g
<1>5. DOMAIN RunKeys(places, texts) = 1 .. n
  BY <1>1 DEF RunKeys
<1>6. RunKeys(places, texts) \in [1 .. n -> Texts]
  BY <1>1, <1>4, <1>5 DEF RunKeys
<1>7. RunKeys(places, texts) \in Seq(Texts)
  BY <1>1, <1>6
<1> QED
  BY <1>1, <1>2, <1>4, <1>5, <1>7

\* Of two texts, one with the smaller first code point comes first; and only
\* the first of them can.
LEMMA HeadsDecide ==
    ASSUME NEW a \in Texts, NEW b \in Texts, Len(a) >= 1, Len(b) >= 1
    PROVE  /\ Precedes(a, b) => a[1] <= b[1]
           /\ a[1] < b[1] => Precedes(a, b)
<1>0. /\ Len(a) \in Nat /\ Len(b) \in Nat /\ DOMAIN b = 1 .. Len(b)
      /\ a[1] \in Nat /\ b[1] \in Nat
  BY DEF Texts
<1>1. ASSUME Precedes(a, b) PROVE a[1] <= b[1]
  <2>1. PICK i \in DOMAIN b :
            /\ i <= Len(a) + 1
            /\ \A j \in 1 .. i - 1 : a[j] = b[j]
            /\ i <= Len(a) => a[i] < b[i]
    BY <1>1 DEF Precedes
  <2>2. CASE i = 1
    BY <2>1, <2>2, <1>0
  <2>3. CASE i # 1
    <3>1. 1 \in 1 .. i - 1
      BY <2>3, <1>0
    <3> QED
      BY <2>1, <3>1, <1>0
  <2> QED
    BY <2>2, <2>3
<1>2. ASSUME a[1] < b[1] PROVE Precedes(a, b)
  <2>1. 1 \in DOMAIN b /\ 1 <= Len(a) + 1 /\ 1 .. 1 - 1 = {}
    BY <1>0
  <2> QED
    BY <2>1, <1>2 DEF Precedes
<1> QED
  BY <1>1, <1>2

\* Texts after one and the same code point are ordered as they are.
LEMMA TailsDecide ==
    ASSUME NEW g \in Nat, NEW a \in Texts, NEW b \in Texts
    PROVE  /\ Precedes(<<g>> \o a, <<g>> \o b) => Precedes(a, b)
           /\ <<g>> \o a = <<g>> \o b => a = b
<1> DEFINE c == <<g>> \o a
           d == <<g>> \o b
<1>0. /\ Len(a) \in Nat /\ Len(b) \in Nat
      /\ DOMAIN a = 1 .. Len(a) /\ DOMAIN b = 1 .. Len(b)
  BY DEF Texts
<1>1. /\ c \in Texts /\ Len(c) = Len(a) + 1 /\ c[1] = g
      /\ \A j \in 1 .. Len(a) : c[j + 1] = a[j]
  BY DEF Texts
<1>2. /\ d \in Texts /\ Len(d) = Len(b) + 1 /\ d[1] = g
      /\ \A j \in 1 .. Len(b) : d[j + 1] = b[j]
  BY DEF Texts
<1> HIDE DEF c, d
<1>3. ASSUME Precedes(c, d) PROVE Precedes(a, b)
  <2>1. PICK i \in DOMAIN d :
            /\ i <= Len(c) + 1
            /\ \A j \in 1 .. i - 1 : c[j] = d[j]
            /\ i <= Len(c) => c[i] < d[i]
    BY <1>3 DEF Precedes
  <2>2. DOMAIN d = 1 .. Len(b) + 1
    BY <1>2 DEF Texts
  <2>3. i # 1
    <3> SUFFICES ASSUME i = 1 PROVE FALSE
      OBVIOUS
    <3>1. g < g
      BY <2>1, <1>0, <1>1, <1>2
    <3> QED
      BY <3>1
  <2> DEFINE m == i - 1
  <2>4. m \in 1 .. Len(b) /\ m + 1 = i
    BY <2>2, <2>3, <1>0
  <2> HIDE DEF m
  <2>5. m <= Len(a) + 1
    BY <2>1, <2>4, <1>0, <1>1
  <2>6. \A j \in 1 .. m - 1 : a[j] = b[j]
    <3> TAKE j \in 1 .. m - 1
    <3>1. j \in 1 .. Len(a) /\ j \in 1 .. Len(b) /\ j + 1 \in 1 .. i - 1
      BY <2>4, <2>5, <1>0
    <3>2. c[j + 1] = d[j + 1]
      BY <3>1, <2>1
    <3> QED
      BY <3>1, <3>2, <1>1, <1>2
  <2>7. m <= Len(a) => a[m] < b[m]
    <3> SUFFICES ASSUME m <= Len(a) PROVE a[m] < b[m]
      OBVIOUS
    <3>1. i <= Len(c) /\ m \in 1 .. Len(a)
      BY <2>4, <1>0, <1>1
    <3>2. c[m + 1] < d[m + 1]
      BY <3>1, <2>1, <2>4
    <3> QED
      BY <3>1, <3>2, <2>4, <1>1, <1>2
  <2> QED
    BY <2>4, <2>5, <2>6, <2>7, <1>0 DEF Precedes
<1>4. ASSUME c = d PROVE a = b
  <2>0. Len(c) = Len(d)
    BY <1>4
  <2>a. /\ Len(c) = Len(a) + 1 /\ Len(a) \in Nat
        /\ Len(d) = Len(b) + 1 /\ Len(b) \in Nat
    BY <1>0, <1>1, <1>2, Zenon
  <2>b. \A x, y \in Nat : x + 1 = y + 1 => x = y
    OBVIOUS
  <2>1. Len(a) = Len(b)
    BY <2>0, <2>a, <2>b, Zenon
  <2>2. \A j \in 1 .. Len(a) : a[j] = b[j]
    BY <2>1, <1>1, <1>2, <1>4
  <2> QED
    BY <2>1, <2>2 DEF Texts
<1> QED
  BY <1>3, <1>4 DEF c, d

\* sort_openai_tool_message_runs, sort_responses_function_outputs: an item
\* outside the runs stays where it is, an item of a run stays in its run, and
\* each run is in the order of its texts, equal ones as they came.
THEOREM RunsAreSorted ==
    ASSUME NEW texts \in Seq(Texts), NEW s, DOMAIN s = DOMAIN texts,
           NEW places, places \subseteq DOMAIN s
    PROVE  \E from \in Bijection(DOMAIN s, DOMAIN s) :
               /\ SortRuns(s, places, texts) = [k \in DOMAIN s |-> s[from[k]]]
               /\ \A k \in DOMAIN s \ places : from[k] = k
               /\ \A k \in places :
                      from[k] \in places /\ RunStart(places, from[k]) = RunStart(places, k)
               /\ \A k, m \in places :
                      k < m /\ RunStart(places, k) = RunStart(places, m) =>
                          \/ Precedes(texts[from[k]], texts[from[m]])
                          \/ texts[from[k]] = texts[from[m]] /\ from[k] < from[m]
<1> DEFINE D == DOMAIN s
           n == Len(texts)
           rk == RunKeys(places, texts)
           G(i) == Group(places, i)
<1>1. n \in Nat /\ D = 1 .. n /\ places \subseteq 1 .. n
  OBVIOUS
<1>2. rk \in Seq(Texts) /\ DOMAIN rk = D
  BY RunKeysAreTexts
<1>3. \A i \in D : /\ rk[i] \in Texts /\ rk[i][1] = G(i) /\ Len(rk[i]) >= 1
                   /\ i \in places => rk[i] = <<G(i)>> \o texts[i]
                   /\ texts[i] \in Texts
  BY <1>1, <1>2, RunKeysAreTexts
<1>4. /\ \A i \in D : G(i) \in Nat /\ (G(i) \in places <=> i \in places)
      /\ \A i, j \in D : i < j => G(i) <= G(j)
  <2>1. \A i \in D : G(i) \in 1 .. i /\ (G(i) \in places <=> i \in places)
    BY <1>1, GroupsIncrease
  <2> QED
    BY <2>1, <1>1, GroupsIncrease
<1>5. PICK from \in Bijection(D, D) :
          /\ StableSort(s, rk) = [k \in D |-> s[from[k]]]
          /\ \A k, m \in D : k < m =>
                 \/ Precedes(rk[from[k]], rk[from[m]])
                 \/ rk[from[k]] = rk[from[m]] /\ from[k] < from[m]
  <2> HIDE DEF rk
  <2> QED
    BY <1>2, SortIsStable
<1>6. \A k \in D : from[k] \in D
  BY DEF Bijection, Injection
<1> HIDE DEF rk, G
<1>7. \A k \in D : G(from[k]) = G(k)
  <2> DEFINE groups == [i \in 1 .. n |-> <<G(i)>>]
             same == [i \in 1 .. n |-> i]
  <2>1. groups \in [1 .. n -> Texts]
    BY <1>1, <1>4 DEF Texts
  <2>2. same \in Bijection(1 .. n, 1 .. n) /\ from \in Bijection(1 .. n, 1 .. n)
    BY <1>1 DEF Bijection, Injection, Surjection, IsInjective
  <2>3. \A i, j \in 1 .. n : Precedes(groups[i], groups[j]) <=> G(i) < G(j)
    <3> SUFFICES ASSUME NEW i \in 1 .. n, NEW j \in 1 .. n
                 PROVE  Precedes(groups[i], groups[j]) <=> G(i) < G(j)
      OBVIOUS
    <3>1. /\ groups[i] \in Texts /\ Len(groups[i]) >= 1 /\ groups[i][1] = G(i)
          /\ groups[j] \in Texts /\ Len(groups[j]) >= 1 /\ groups[j][1] = G(j)
      BY <2>1
    <3>2. G(i) = G(j) => groups[i] = groups[j]
      OBVIOUS
    <3>3. G(i) \in Nat /\ G(j) \in Nat
      BY <1>1, <1>4
    <3> HIDE DEF groups
    <3> QED
      BY <3>1, <3>2, <3>3, HeadsDecide, NoTextPrecedesItself
  <2>4. \A k, m \in 1 .. n : k < m => ~Precedes(groups[same[m]], groups[same[k]])
    <3> SUFFICES ASSUME NEW k \in 1 .. n, NEW m \in 1 .. n, k < m
                 PROVE  ~Precedes(groups[same[m]], groups[same[k]])
      OBVIOUS
    <3>1. G(k) <= G(m) /\ G(k) \in Nat /\ G(m) \in Nat
      BY <1>1, <1>4
    <3>2. ~Precedes(groups[m], groups[k])
      <4> HIDE DEF groups
      <4> QED
        BY <3>1, <2>3
    <3> QED
      BY <3>2
  <2>5. \A k, m \in 1 .. n : k < m => ~Precedes(groups[from[m]], groups[from[k]])
    <3> SUFFICES ASSUME NEW k \in 1 .. n, NEW m \in 1 .. n, k < m
                 PROVE  ~Precedes(groups[from[m]], groups[from[k]])
      OBVIOUS
    <3>1. from[k] \in 1 .. n /\ from[m] \in 1 .. n
      BY <1>1, <1>6
    <3>2. Precedes(rk[from[k]], rk[from[m]]) \/ rk[from[k]] = rk[from[m]]
      BY <1>1, <1>5
    <3>a. /\ rk[from[k]] \in Texts /\ Len(rk[from[k]]) >= 1 /\ rk[from[k]][1] = G(from[k])
          /\ rk[from[m]] \in Texts /\ Len(rk[from[m]]) >= 1 /\ rk[from[m]][1] = G(from[m])
      BY <3>1, <1>1, <1>3
    <3>b. G(from[k]) \in Nat /\ G(from[m]) \in Nat
      BY <3>1, <1>1, <1>4
    <3>c. Precedes(rk[from[k]], rk[from[m]]) => rk[from[k]][1] <= rk[from[m]][1]
      BY <3>a, HeadsDecide
    <3>3. G(from[k]) <= G(from[m]) /\ G(from[k]) \in Nat /\ G(from[m]) \in Nat
      BY <3>2, <3>a, <3>b, <3>c
    <3> HIDE DEF groups
    <3> QED
      BY <3>1, <3>3, <2>3
  <2> SUFFICES ASSUME NEW k \in 1 .. n PROVE G(from[k]) = G(k)
    BY <1>1
  <2>6. ~Precedes(groups[same[k]], groups[from[k]])
    <3> HIDE DEF groups, same
    <3> QED
      BY <2>1, <2>2, <2>4, <2>5, <1>1, OneSortedOrder
  <2>7. ~Precedes(groups[from[k]], groups[same[k]])
    <3> HIDE DEF groups, same
    <3> QED
      BY <2>1, <2>2, <2>4, <2>5, <1>1, OneSortedOrder
  <2>8. from[k] \in 1 .. n /\ same[k] = k /\ G(k) \in Nat /\ G(from[k]) \in Nat
    BY <1>1, <1>4, <1>6
  <2> HIDE DEF groups, same
  <2> QED
    BY <2>3, <2>6, <2>7, <2>8
<1>8. ASSUME NEW k \in D \ places PROVE from[k] = k
  <2>1. from[k] \notin places
    BY <1>4, <1>6, <1>7
  <2> QED
    BY <2>1, <1>7 DEF G, Group
<1>9. ASSUME NEW k \in places
      PROVE  from[k] \in places /\ RunStart(places, from[k]) = RunStart(places, k)
  <2>1. from[k] \in places
    BY <1>4, <1>6, <1>7
  <2> QED
    BY <2>1, <1>7 DEF G, Group
<1>10. ASSUME NEW k \in places, NEW m \in places, k < m,
              RunStart(places, k) = RunStart(places, m)
       PROVE  \/ Precedes(texts[from[k]], texts[from[m]])
              \/ texts[from[k]] = texts[from[m]] /\ from[k] < from[m]
  <2>1. /\ from[k] \in places /\ from[m] \in places
        /\ G(from[k]) = G(from[m])
    BY <1>9, <1>10 DEF G, Group
  <2> DEFINE g == G(from[k])
  <2>2. g \in Nat /\ texts[from[k]] \in Texts /\ texts[from[m]] \in Texts
    BY <2>1, <1>3, <1>4
  <2>3. rk[from[k]] = <<g>> \o texts[from[k]] /\ rk[from[m]] = <<g>> \o texts[from[m]]
    BY <2>1, <1>3
  <2>4. \/ Precedes(rk[from[k]], rk[from[m]])
        \/ rk[from[k]] = rk[from[m]] /\ from[k] < from[m]
    BY <1>5, <1>10
  <2> HIDE DEF g
  <2>5. /\ Precedes(<<g>> \o texts[from[k]], <<g>> \o texts[from[m]])
            => Precedes(texts[from[k]], texts[from[m]])
        /\ <<g>> \o texts[from[k]] = <<g>> \o texts[from[m]]
            => texts[from[k]] = texts[from[m]]
    BY <2>2, TailsDecide
  <2> QED
    BY <2>3, <2>4, <2>5, Zenon
<1>11. SortRuns(s, places, texts) = [k \in D |-> s[from[k]]]
  BY <1>5 DEF SortRuns, rk
<1> QED
  BY <1>8, <1>9, <1>10, <1>11

\* Results of one turn that came in another order do not change the list: when
\* a permutation moves items only within their runs, the sorted lists are the
\* same, unless two items of a run that differ have the same text.
THEOREM ArrivalOrderInRunsIsLost ==
    ASSUME NEW texts \in Seq(Texts), NEW s, DOMAIN s = DOMAIN texts,
           NEW places, places \subseteq DOMAIN s,
           \A i, j \in places :
               RunStart(places, i) = RunStart(places, j) /\ texts[i] = texts[j] => s[i] = s[j],
           NEW p \in Bijection(DOMAIN s, DOMAIN s),
           \A i \in DOMAIN s \ places : p[i] = i,
           \A i \in places : p[i] \in places /\ RunStart(places, p[i]) = RunStart(places, i)
    PROVE  SortRuns([i \in DOMAIN s |-> s[p[i]]], places, [i \in DOMAIN s |-> texts[p[i]]])
               = SortRuns(s, places, texts)
<1> DEFINE D == DOMAIN s
           rk == RunKeys(places, texts)
           G(i) == Group(places, i)
<1>1. \A i \in D : p[i] \in D
  BY DEF Bijection, Injection
<1>2. rk \in Seq(Texts) /\ DOMAIN rk = D
  BY RunKeysAreTexts
<1>3. \A i \in D : /\ rk[i][1] = G(i)
                   /\ i \in places => rk[i] = <<G(i)>> \o texts[i]
                   /\ texts[i] \in Texts
  BY RunKeysAreTexts
<1>4. \A i \in D : G(i) \in Nat /\ (G(i) \in places <=> i \in places)
  <2>1. D = 1 .. Len(texts) /\ Len(texts) \in Nat /\ places \subseteq 1 .. Len(texts)
    OBVIOUS
  <2>2. \A i \in D : G(i) \in 1 .. i /\ (G(i) \in places <=> i \in places)
    BY <2>1, GroupsIncrease
  <2> QED
    BY <2>1, <2>2
<1>5. RunKeys(places, [i \in D |-> texts[p[i]]]) = [i \in D |-> rk[p[i]]]
  <2>1. \A i \in D :
            (IF i \in places THEN <<RunStart(places, i)>> \o texts[p[i]] ELSE <<i>>) = rk[p[i]]
    <3> TAKE i \in D
    <3>1. CASE i \in places
      BY <3>1, <1>1 DEF RunKeys
    <3>2. CASE i \notin places
      <4>1. p[i] = i
        BY <3>2
      <4> QED
        BY <3>2, <4>1 DEF RunKeys
    <3> QED
      BY <3>1, <3>2
  <2>2. RunKeys(places, [i \in D |-> texts[p[i]]]) =
            [i \in D |-> IF i \in places THEN <<RunStart(places, i)>> \o texts[p[i]] ELSE <<i>>]
    BY DEF RunKeys
  <2> HIDE DEF rk
  <2> QED
    BY <2>1, <2>2
<1>6. ASSUME NEW i \in D, NEW j \in D, rk[i] = rk[j] PROVE s[i] = s[j]
  <2>1. G(i) = G(j)
    <3> HIDE DEF rk, G
    <3> QED
      BY <1>3, <1>6
  <2>2. CASE i \in places
    <3>1. j \in places
      BY <2>1, <2>2, <1>4
    <3>2. texts[i] = texts[j]
      <4> HIDE DEF rk, G
      <4>1. /\ G(i) \in Nat /\ texts[i] \in Texts /\ texts[j] \in Texts
            /\ rk[i] = <<G(i)>> \o texts[i] /\ rk[j] = <<G(j)>> \o texts[j]
        BY <2>2, <3>1, <1>3, <1>4
      <4>2. <<G(i)>> \o texts[i] = <<G(i)>> \o texts[j]
        BY <4>1, <2>1, <1>6, Zenon
      <4> QED
        BY <4>1, <4>2, TailsDecide
    <3> QED
      BY <2>1, <2>2, <3>1, <3>2 DEF Group
  <2>3. CASE i \notin places
    <3>1. j \notin places
      BY <2>1, <2>3, <1>4
    <3> QED
      BY <2>1, <2>3, <3>1 DEF Group
  <2> QED
    BY <2>2, <2>3
<1>7. StableSort([i \in D |-> s[p[i]]], [i \in D |-> rk[p[i]]]) = StableSort(s, rk)
  <2> HIDE DEF rk
  <2> QED
    BY <1>2, <1>6, ArrivalOrderIsLost
<1> QED
  BY <1>5, <1>7 DEF SortRuns

-----------------------------------------------------------------------------
(* The order of parallel tool blocks: what goes last *)

\* Keys that put the places of a list in the same order sort it alike.
LEMMA SameOrderSameSort ==
    ASSUME NEW s, NEW keys \in Seq(Texts), NEW others \in Seq(Texts),
           DOMAIN keys = DOMAIN s, DOMAIN others = DOMAIN s,
           \A i, j \in DOMAIN s : GoesBefore(keys, i, j) <=> GoesBefore(others, i, j)
    PROVE  StableSort(s, keys) = StableSort(s, others)
<1>1. \A i \in DOMAIN s : SortedPlace(keys, i) = SortedPlace(others, i)
  <2> TAKE i \in DOMAIN s
  <2>1. {j \in DOMAIN keys : GoesBefore(keys, j, i)}
            = {j \in DOMAIN others : GoesBefore(others, j, i)}
    OBVIOUS
  <2> QED
    BY <2>1 DEF SortedPlace
<1> DEFINE here(k) == CHOOSE i \in DOMAIN s : SortedPlace(keys, i) = k
           there(k) == CHOOSE i \in DOMAIN s : SortedPlace(others, i) = k
<1>2. \A k \in DOMAIN s : here(k) = there(k)
  <2> TAKE k \in DOMAIN s
  <2>1. \A i : (i \in DOMAIN s /\ SortedPlace(keys, i) = k)
                   <=> (i \in DOMAIN s /\ SortedPlace(others, i) = k)
    BY <1>1
  <2> QED
    BY <2>1
<1>3. /\ StableSort(s, keys) = [k \in DOMAIN s |-> s[here(k)]]
      /\ StableSort(s, others) = [k \in DOMAIN s |-> s[there(k)]]
  BY DEF StableSort
<1> HIDE DEF here, there
<1>4. [k \in DOMAIN s |-> s[here(k)]] = [k \in DOMAIN s |-> s[there(k)]]
  BY <1>2
<1> QED
  BY <1>3, <1>4

\* The keys of what does not go last, with a number that grows with the place.
Numbered(places, texts, number) ==
    [i \in DOMAIN texts |-> IF i \in places THEN <<1>> \o texts[i] ELSE <<0, number[i]>>]

\* The numbers change nothing: what does not go last keeps its order anyway.
LEMMA NumbersDoNotMatter ==
    ASSUME NEW texts \in Seq(Texts), NEW s, DOMAIN s = DOMAIN texts,
           NEW places, NEW number \in [DOMAIN s -> Nat],
           \A i, j \in DOMAIN s \ places : i < j => number[i] < number[j]
    PROVE  /\ Numbered(places, texts, number) \in Seq(Texts)
           /\ SortLast(s, places, texts) = StableSort(s, Numbered(places, texts, number))
<1> DEFINE D == DOMAIN s
           plain == LastKeys(places, texts)
           full == Numbered(places, texts, number)
<1>1. \A g, x \in Nat : \A y \in Texts :
          /\ <<g>> \o y \in Texts /\ (<<g>> \o y)[1] = g /\ Len(<<g>> \o y) >= 1
          /\ <<g>> \in Texts /\ <<g>>[1] = g /\ Len(<<g>>) >= 1
          /\ <<g, x>> \in Texts /\ <<g, x>>[1] = g /\ Len(<<g, x>>) >= 1
  BY DEF Texts
<1>2. \A i \in D : /\ texts[i] \in Texts /\ number[i] \in Nat
                   /\ i \in places => plain[i] = <<1>> \o texts[i] /\ full[i] = <<1>> \o texts[i]
                   /\ i \notin places => plain[i] = <<0>> /\ full[i] = <<0, number[i]>>
  BY DEF LastKeys, Numbered
<1>3. ASSUME NEW i \in D
      PROVE  /\ plain[i] \in Texts /\ Len(plain[i]) >= 1
             /\ plain[i][1] = IF i \in places THEN 1 ELSE 0
             /\ full[i] \in Texts /\ Len(full[i]) >= 1
             /\ full[i][1] = IF i \in places THEN 1 ELSE 0
  <2> HIDE DEF plain, full
  <2> DEFINE x == number[i]
             y == texts[i]
  <2>0. x \in Nat /\ y \in Texts
    BY <1>2
  <2>1. CASE i \in places
    <3>1. plain[i] = <<1>> \o y /\ full[i] = <<1>> \o y
      BY <2>1, <1>2
    <3> HIDE DEF x, y
    <3>2. <<1>> \o y \in Texts /\ (<<1>> \o y)[1] = 1 /\ Len(<<1>> \o y) >= 1
      BY <2>0, <1>1
    <3> QED
      BY <2>1, <3>1, <3>2
  <2>2. CASE i \notin places
    <3>1. plain[i] = <<0>> /\ full[i] = <<0, x>>
      BY <2>2, <1>2
    <3> HIDE DEF x, y
    <3>2. /\ <<0>> \in Texts /\ <<0>>[1] = 0 /\ Len(<<0>>) >= 1
          /\ <<0, x>> \in Texts /\ <<0, x>>[1] = 0 /\ Len(<<0, x>>) >= 1
      BY <2>0, <1>1
    <3> QED
      BY <2>2, <3>1, <3>2
  <2> QED
    BY <2>1, <2>2
<1>4. plain \in Seq(Texts) /\ full \in Seq(Texts) /\ DOMAIN plain = D /\ DOMAIN full = D
  <2>1. DOMAIN plain = D /\ DOMAIN full = D
    BY DEF LastKeys, Numbered
  <2>2. plain = [i \in D |-> plain[i]] /\ full = [i \in D |-> full[i]]
    BY DEF LastKeys, Numbered
  <2>3. Len(texts) \in Nat /\ D = 1 .. Len(texts)
    OBVIOUS
  <2> HIDE DEF plain, full, D
  <2>4. plain \in [D -> Texts] /\ full \in [D -> Texts]
    BY <2>2, <1>3
  <2>5. \A n \in Nat : \A f \in [1 .. n -> Texts] : f \in Seq(Texts)
    OBVIOUS
  <2>6. plain \in [1 .. Len(texts) -> Texts] /\ full \in [1 .. Len(texts) -> Texts]
    BY <2>3, <2>4, Zenon
  <2> QED
    BY <2>1, <2>3, <2>5, <2>6
<1> HIDE DEF plain, full
<1>5. \A i, j \in D : i \in Nat /\ j \in Nat
  OBVIOUS
<1>6. ASSUME NEW i \in D, NEW j \in D
      PROVE  GoesBefore(plain, i, j) <=> GoesBefore(full, i, j)
  <2>1. CASE i \in places /\ j \in places
    BY <2>1, <1>2 DEF GoesBefore
  <2>2. CASE i \in places /\ j \notin places
    <3>1. plain[i][1] = 1 /\ plain[j][1] = 0 /\ full[i][1] = 1 /\ full[j][1] = 0
      BY <2>2, <1>3
    <3>2. plain[i] # plain[j] /\ full[i] # full[j]
      BY <3>1
    <3>3. ~Precedes(plain[i], plain[j])
      BY <3>1, <1>3, HeadsDecide
    <3>4. ~Precedes(full[i], full[j])
      BY <3>1, <1>3, HeadsDecide
    <3> QED
      BY <3>2, <3>3, <3>4 DEF GoesBefore
  <2>3. CASE i \notin places /\ j \in places
    <3>1. plain[i][1] = 0 /\ plain[j][1] = 1 /\ full[i][1] = 0 /\ full[j][1] = 1
      BY <2>3, <1>3
    <3>2. Precedes(plain[i], plain[j])
      BY <3>1, <1>3, HeadsDecide
    <3>3. Precedes(full[i], full[j])
      BY <3>1, <1>3, HeadsDecide
    <3> QED
      BY <3>2, <3>3 DEF GoesBefore
  <2>4. CASE i \notin places /\ j \notin places
    <3>1. plain[i] = plain[j] /\ ~Precedes(plain[i], plain[j])
      BY <2>4, <1>2, <1>3, NoTextPrecedesItself
    <3>2. \A k, m \in D \ places : k < m => Precedes(full[k], full[m])
      <4> SUFFICES ASSUME NEW k \in D \ places, NEW m \in D \ places, k < m
                   PROVE  Precedes(full[k], full[m])
        OBVIOUS
      <4> DEFINE x == number[k]
                 y == number[m]
      <4>1. x \in Nat /\ y \in Nat /\ x < y /\ full[k] = <<0, x>> /\ full[m] = <<0, y>>
        BY <1>2
      <4> HIDE DEF x, y
      <4>2. 2 \in DOMAIN <<0, y>> /\ 2 <= Len(<<0, x>>) + 1 /\ 1 .. 2 - 1 = {1}
            /\ <<0, x>>[1] = <<0, y>>[1] /\ <<0, x>>[2] < <<0, y>>[2]
        BY <4>1
      <4>3. Precedes(<<0, x>>, <<0, y>>)
        BY <4>2 DEF Precedes
      <4> QED
        BY <4>1, <4>3
    <3>3. CASE i < j
      BY <2>4, <3>1, <3>2, <3>3 DEF GoesBefore
    <3>4. CASE ~(i < j)
      <4>1. ~GoesBefore(plain, i, j)
        BY <3>1, <3>4 DEF GoesBefore
      <4>2. ~GoesBefore(full, i, j)
        <5>1. i = j \/ Precedes(full[j], full[i])
          BY <2>4, <3>2, <3>4, <1>5
        <5>2. ~Precedes(full[i], full[j])
          BY <5>1, <1>3, NoTextPrecedesItself, PrecedesIsTransitive
        <5> QED
          BY <5>2, <3>4 DEF GoesBefore
      <4> QED
        BY <4>1, <4>2
    <3> QED
      BY <3>3, <3>4
  <2> QED
    BY <2>1, <2>2, <2>3, <2>4
<1>7. StableSort(s, plain) = StableSort(s, full)
  BY <1>4, <1>6, SameOrderSameSort
<1> QED
  BY <1>4, <1>7 DEF SortLast, plain, full

\* sort_tool_blocks: calls that came in another order, among themselves and
\* among the other blocks of the message, do not change the message; the other
\* blocks have to come in the same order, and calls that differ have to have
\* different texts.
THEOREM ArrivalOrderOfCallsIsLost ==
    ASSUME NEW texts \in Seq(Texts), NEW s, DOMAIN s = DOMAIN texts,
           NEW places, places \subseteq DOMAIN s,
           \A i, j \in places : texts[i] = texts[j] => s[i] = s[j],
           NEW p \in Bijection(DOMAIN s, DOMAIN s),
           \A i, j \in DOMAIN s :
               p[i] \notin places /\ p[j] \notin places /\ i < j => p[i] < p[j]
    PROVE  SortLast([i \in DOMAIN s |-> s[p[i]]],
                    {i \in DOMAIN s : p[i] \in places},
                    [i \in DOMAIN s |-> texts[p[i]]])
               = SortLast(s, places, texts)
<1> DEFINE D == DOMAIN s
           n == Len(texts)
           t == [i \in D |-> s[p[i]]]
           there == {i \in D : p[i] \in places}
           moved == [i \in D |-> texts[p[i]]]
           same == [i \in D |-> i]
           full == Numbered(places, texts, same)
<1>1. D = 1 .. n /\ n \in Nat
  OBVIOUS
<1>2. p \in [D -> D] /\ p \in [D -> Nat] /\ same \in [D -> Nat]
  <2>1. p \in [D -> D]
    BY DEF Bijection, Injection
  <2> QED
    BY <2>1, <1>1
<1>3. moved \in Seq(Texts) /\ DOMAIN moved = D /\ DOMAIN t = D
  <2>1. moved \in [1 .. n -> Texts]
    BY <1>1, <1>2
  <2> QED
    BY <2>1, <1>1
<1>4. /\ full \in Seq(Texts)
      /\ SortLast(s, places, texts) = StableSort(s, full)
  <2>1. \A i, j \in D \ places : i < j => same[i] < same[j]
    OBVIOUS
  <2> HIDE DEF same
  <2> QED
    BY <2>1, <1>2, NumbersDoNotMatter
<1>5. SortLast(t, there, moved) = StableSort(t, Numbered(there, moved, p))
  <2>1. \A i, j \in D \ there : i < j => p[i] < p[j]
    OBVIOUS
  <2> HIDE DEF t, there, moved
  <2> QED
    BY <2>1, <1>2, <1>3, NumbersDoNotMatter
<1>6. Numbered(there, moved, p) = [i \in D |-> full[p[i]]]
  BY <1>2 DEF Numbered
<1>7. DOMAIN full = D
  BY DEF Numbered
<1>8. ASSUME NEW i \in D, NEW j \in D, full[i] = full[j] PROVE s[i] = s[j]
  <2>1. \A k \in D : /\ texts[k] \in Texts /\ k \in Nat
                     /\ k \in places => full[k] = <<1>> \o texts[k]
                     /\ k \notin places => full[k] = <<0, k>>
    BY <1>1 DEF Numbered
  <2>2. \A x \in Nat : \A y \in Texts : (<<1>> \o y)[1] = 1 /\ <<0, x>>[1] = 0
    BY DEF Texts
  <2> HIDE DEF full
  <2>3. CASE i \in places /\ j \in places
    <3>1. texts[i] \in Texts /\ texts[j] \in Texts /\ <<1>> \o texts[i] = <<1>> \o texts[j]
      BY <2>1, <2>3, <1>8
    <3>2. texts[i] = texts[j]
      BY <3>1, TailsDecide
    <3> QED
      BY <2>3, <3>2
  <2>4. CASE i \notin places /\ j \notin places
    <3>1. <<0, i>> = <<0, j>>
      BY <2>1, <2>4, <1>8
    <3> QED
      BY <3>1
  <2>5. CASE (i \in places /\ j \notin places) \/ (i \notin places /\ j \in places)
    <3>1. full[i][1] # full[j][1]
      BY <2>1, <2>2, <2>5
    <3> QED
      BY <3>1, <1>8
  <2> QED
    BY <2>3, <2>4, <2>5
<1>9. StableSort(t, [i \in D |-> full[p[i]]]) = StableSort(s, full)
  <2> HIDE DEF full
  <2> QED
    BY <1>4, <1>7, <1>8, ArrivalOrderIsLost
<1> QED
  BY <1>4, <1>5, <1>6, <1>9

=============================================================================
