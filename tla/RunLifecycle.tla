---------------------------- MODULE RunLifecycle -----------------------------
(***************************************************************************)
(* `llmreplay run` and `llmreplay demo`, cli/run_cmd.py and                *)
(* cli/demo_cmd.py: command-line processes that start a proxy in a thread, *)
(* wait for its health check, run a child that talks to it, and stop it,   *)
(* over the handlers and the cassette of Proxy.                            *)
(*                                                                         *)
(* A member of Proxies is here the application of one run_with_proxy call. *)
(* A demo makes two or three such calls in one process, so that the thread *)
(* of one that did not stop in time runs on beside the next.  `run --free  *)
(* record`, whose application writes the manifest before its server        *)
(* starts, is left to Proxy.                                               *)
(***************************************************************************)
EXTENDS Proxy

CONSTANTS
    Mains,          \* command-line processes
    Ports,          \* TCP ports
    DefaultPort,    \* the default of --port
    RunPorts,       \* what --port may be
    AnyPort,        \* port 0: the operating system picks one
    NoProxy,        \* nobody listens on the port, or no run has begun
    NoSlot,         \* the child waits for no answer
    DemoRecord, DemoReplay,     \* the configurations of the demo
    MaxEffort       \* bound: how many processes and proxies there are in all

ASSUME LifecycleAssumption ==
    /\ DefaultPort \in Ports /\ RunPorts \subseteq Ports \cup {AnyPort} /\ AnyPort \notin Ports
    /\ NoProxy \notin Proxies /\ NoSlot \notin Slots
    /\ {DemoRecord, DemoReplay} \subseteq Configs
    /\ \A c \in Configs : ~Stamps(c)
    /\ MaxEffort \in Nat

VARIABLES
    main,           \* of each process: what it is doing
    thread,         \* of each proxy: its server thread
    listener,       \* of each port: the proxy that accepts on it
    owner,          \* of each proxy: the process it last ran in
    launches        \* how many processes were launched

proxyVars == <<cassette, config, hmac, stamping, index, slot, source, recorded, severed, starts, sends>>
ownVars == <<main, thread, listener, owner, launches>>
allVars == <<proxyVars, ownVars>>

Waiting == [job |-> "none", stage |-> "idle", conf |-> DemoRecord, wanted |-> AnyPort,
            port |-> AnyPort, proxy |-> NoProxy, recordings |-> 0, asks |-> NoSlot,
            heard |-> "nothing", code |-> "none"]

\* The try block of run_with_proxy.
Trying == {"port", "alive", "get", "child"}

Alive(p) == thread[p] # "none"
Own(m) == main[m].proxy
At(m, stage) == main[m].stage = stage
Goes(m, stage) == main' = [main EXCEPT ![m].stage = stage]

\* server.should_exit, which the finally block sets.
ShouldExit(p) == ~\E m \in Mains : Own(m) = p /\ main[m].stage \in Trying

\* (mutant) The port is chosen before it is bound, by free_port.
PicksFirst(job, wanted) == IF job = "demo" THEN DefaultPort ELSE wanted

\* The port in the configuration of a run: the demo leaves it to the system.
PortWanted(job, wanted) == IF job = "demo" THEN AnyPort ELSE wanted

WithoutListener(p) == [port \in Ports |-> IF listener[port] = p THEN NoProxy ELSE listener[port]]

InitLifecycle ==
    /\ Init
    /\ main = [m \in Mains |-> Waiting]
    /\ thread = [p \in Proxies |-> "none"]
    /\ listener = [port \in Ports |-> NoProxy]
    /\ owner = [p \in Proxies |-> NoProxy]
    /\ launches = 0

-----------------------------------------------------------------------------
(* The main thread *)

\* Names do not matter: the next process, like the next slot, is the first one.
IsNext(m) ==
    /\ At(m, "idle")
    /\ m = CHOOSE n \in Mains : At(n, "idle")
    /\ launches + starts + 1 < MaxEffort

\* `llmreplay run` with a configuration and a port.
LaunchRun(m, c, wanted) ==
    /\ IsNext(m)
    /\ launches' = launches + 1
    /\ Legal(c)
    /\ main' = [main EXCEPT ![m] = [Waiting EXCEPT
                  !.job = "run", !.stage = "begin", !.conf = c,
                  !.wanted = PortWanted("run", wanted)]]
    /\ UNCHANGED <<proxyVars, thread, listener, owner>>

\* `llmreplay demo` removes the cassette it finds and starts its stub.
LaunchDemo(m) ==
    /\ IsNext(m)
    /\ launches' = launches + 1
    /\ main' = [main EXCEPT ![m] = [Waiting EXCEPT
                  !.job = "demo", !.stage = "begin", !.recordings = 1,
                  !.wanted = PortWanted("demo", AnyPort)]]
    /\ cassette' = << >>
    /\ severed' = (severed \/ cassette # << >> \/ \E p \in Proxies : config[p] # Down)
    /\ UNCHANGED <<config, hmac, stamping, index, slot, source, recorded, starts, sends,
                   thread, listener, owner>>

\* run_with_proxy builds the application and starts the server thread.
Begin(m) ==
    LET unused == {p \in Proxies : config[p] = Down /\ \A n \in Mains : Own(n) # p}
        p == CHOOSE p \in unused : TRUE
    IN  /\ At(m, "begin")
        /\ unused # {}
        /\ launches + starts < MaxEffort
        /\ Start(p, main[m].conf)
        /\ thread' = [thread EXCEPT ![p] = "binding"]
        /\ owner' = [owner EXCEPT ![p] = m]
        /\ main' = [main EXCEPT ![m].stage = "port", ![m].proxy = p]
        /\ UNCHANGED <<listener, launches>>

\* The port of the configuration, or the one that was bound.
PortKnown(m) ==
    /\ At(m, "port")
    /\ \/ /\ main[m].wanted # AnyPort
          /\ main' = [main EXCEPT ![m].stage = "alive", ![m].port = main[m].wanted]
       \/ /\ main[m].wanted = AnyPort
          /\ \E port \in Ports :
                /\ listener[port] = Own(m)
                /\ main' = [main EXCEPT ![m].stage = "alive", ![m].port = port]
    /\ UNCHANGED <<proxyVars, thread, listener, owner, launches>>

\* The try block ends and the server is to stop.  A demo looks at the exit
\* code; a run hands it on, and what its child heard is nobody's business.
Leaves(m, code) ==
    LET demo == main[m].job = "demo" IN
    main' = [main EXCEPT ![m].stage = "join", ![m].asks = NoSlot,
                         ![m].code = IF demo THEN code ELSE "none",
                         ![m].heard = IF demo THEN @ ELSE "nothing"]

\* A round of _wait_for_healthz first looks whether the thread is alive.
SeesThread(m) ==
    /\ At(m, "alive")
    /\ IF Alive(Own(m)) THEN Goes(m, "get") ELSE Leaves(m, "raised")
    /\ UNCHANGED <<proxyVars, thread, listener, owner, launches>>

\* The round then asks whoever listens on the port.  When somebody answers,
\* subprocess.run starts the child, or cannot, which is exit code 9.
GetsHealth(m) ==
    LET healthy == listener[main[m].port] # NoProxy IN
    /\ At(m, "get")
    /\ \/ ~healthy /\ Goes(m, "alive")
       \/ healthy /\ Goes(m, "child")
       \/ healthy /\ main[m].job = "run" /\ Leaves(m, "nonzero")
    /\ UNCHANGED <<proxyVars, thread, listener, owner, launches>>

\* (mutant) No deadline.
NoDeadline(m) == FALSE

\* A deadline is over before the port is bound or healthy.
DeadlineOver(m) == main[m].stage \in {"port", "alive", "get"}
GivesUp(m) ==
    /\ DeadlineOver(m)
    /\ Leaves(m, "raised")
    /\ UNCHANGED <<proxyVars, thread, listener, owner, launches>>

\* Ctrl-C before the child runs; later it ends the child as well.
Interrupt(m) ==
    /\ main[m].stage \in Trying \ {"child"}
    /\ Leaves(m, "nonzero")
    /\ UNCHANGED <<proxyVars, thread, listener, owner, launches>>

\* All that is left to do is to end the process.
Ending(m) == main' = [main EXCEPT ![m] = [Waiting EXCEPT !.stage = "ending", !.wanted = main[m].wanted]]

\* The thread is joined, or five seconds are over.  A demo replays after a
\* recording and records once more after the first failure when its stub
\* answers; it ends otherwise, and with what run_with_proxy raises.
Join(m) ==
    LET recording == main[m].job = "demo" /\ main[m].conf = DemoRecord
        Again(conf, more) ==
            main' = [main EXCEPT ![m].stage = "begin", ![m].conf = conf, ![m].recordings = @ + more,
                                 ![m].heard = "nothing", ![m].code = "none"]
    IN  /\ At(m, "join")
        /\ \/ recording /\ main[m].code = "zero" /\ Again(DemoReplay, 0)
           \/ /\ recording /\ main[m].code = "nonzero" /\ main[m].recordings < 2
              /\ Again(DemoRecord, 1)
           \/ ~(recording /\ main[m].code = "zero") /\ Ending(m)
        /\ UNCHANGED <<proxyVars, thread, listener, owner, launches>>

\* The process ends and takes its daemon threads with it.
Reap(m, p) ==
    /\ At(m, "ending")
    /\ owner[p] = m /\ config[p] # Down
    /\ Stop(p)
    /\ thread' = [thread EXCEPT ![p] = "none"]
    /\ listener' = WithoutListener(p)
    /\ UNCHANGED <<main, owner, launches>>

Ends(m) ==
    /\ At(m, "ending")
    /\ \A p \in Proxies : owner[p] = m => config[p] = Down
    /\ main' = [main EXCEPT ![m] = [Waiting EXCEPT !.stage = "done"]]
    /\ UNCHANGED <<proxyVars, thread, listener, owner, launches>>

-----------------------------------------------------------------------------
(* The server thread *)

\* uvicorn binds its port, or ends because it is taken.
Bind(p) ==
    LET m == owner[p]
        free == {port \in Ports : listener[port] = NoProxy}
        port == IF main[m].wanted # AnyPort THEN main[m].wanted
                ELSE CHOOSE port \in free \ {DefaultPort} : TRUE
    IN  /\ thread[p] = "binding"
        /\ IF port \in free
           THEN /\ listener' = [listener EXCEPT ![port] = p]
                /\ thread' = [thread EXCEPT ![p] = "serving"]
                /\ UNCHANGED proxyVars
           ELSE /\ Stop(p)
                /\ thread' = [thread EXCEPT ![p] = "none"]
                /\ UNCHANGED listener
        /\ UNCHANGED <<main, owner, launches>>

HasHandler(p) ==
    \E s \in Slots : slot[s] # Free /\ slot[s].proxy = p /\ slot[s].phase # "answered"

\* The event loop sees should_exit: it accepts no more and waits for handlers.
StopsListening(p) ==
    /\ thread[p] = "serving" /\ ShouldExit(p) /\ ~Blocked(p) /\ HasHandler(p)
    /\ thread' = [thread EXCEPT ![p] = "closing"]
    /\ listener' = WithoutListener(p)
    /\ UNCHANGED <<proxyVars, main, owner, launches>>

\* The thread ends when no handler is left.
ThreadEnds(p) ==
    /\ thread[p] \in {"serving", "closing"} /\ ShouldExit(p) /\ ~HasHandler(p)
    /\ Stop(p)
    /\ thread' = [thread EXCEPT ![p] = "none"]
    /\ listener' = WithoutListener(p)
    /\ UNCHANGED <<main, owner, launches>>

-----------------------------------------------------------------------------
(* The child *)

\* The one request of the child goes to whoever listens on the port the child
\* was told; when nobody does, the connection is refused.
ChildAsks(m, s, r) ==
    LET p == listener[main[m].port] IN
    /\ At(m, "child")
    /\ main[m].asks = NoSlot
    /\ main[m].heard = "nothing"
    /\ IF p = NoProxy
       THEN main' = [main EXCEPT ![m].heard = "bad"] /\ UNCHANGED proxyVars
       ELSE /\ slot[s] = Free
            /\ s = CHOOSE t \in Slots : slot[t] = Free
            /\ Send(s, p, r)
            /\ main' = [main EXCEPT ![m].asks = s]
    /\ UNCHANGED <<thread, listener, owner, launches>>

\* The answer, or the end of the connection.
ChildHears(m) ==
    LET s == main[m].asks
        lost == slot[s] = Free
        heard == IF main[m].job = "run" THEN "something"
                 ELSE IF lost \/ slot[s].answer.status # "ok" THEN "bad"
                 ELSE slot[s].answer.from
    IN  /\ At(m, "child")
        /\ s # NoSlot
        /\ lost \/ InPhase(s, "answered")
        /\ main' = [main EXCEPT ![m].asks = NoSlot,
                                ![m].heard = heard]
        /\ IF lost THEN UNCHANGED proxyVars ELSE Collect(s)
        /\ UNCHANGED <<thread, listener, owner, launches>>

\* (mutant) The agent does not look at what it was answered.
SucceedsAnyway(m) == main[m].asks = NoSlot

\* A child succeeds after its answer; the demo's agent only on a good one.
MaySucceed(m) ==
    /\ main[m].asks = NoSlot
    /\ main[m].job = "demo" => main[m].heard # "bad"

\* The child ends once it has asked.  It may fail, or be interrupted while it
\* waits for the answer.
ChildExits(m, code) ==
    /\ At(m, "child")
    /\ main[m].asks # NoSlot \/ main[m].heard # "nothing"
    /\ code = "zero" => MaySucceed(m)
    /\ Leaves(m, code)
    /\ UNCHANGED <<proxyVars, thread, listener, owner, launches>>

\* The answer of a child that went away is dropped.
Dropped(s) ==
    /\ \A m \in Mains : main[m].asks # s
    /\ Collect(s)
    /\ UNCHANGED ownVars

-----------------------------------------------------------------------------

Advance(m) ==
    \/ Begin(m)
    \/ PortKnown(m)
    \/ SeesThread(m)
    \/ GetsHealth(m)
    \/ Join(m)
    \/ \E p \in Proxies : Reap(m, p)
    \/ Ends(m)

ServerThread(p) == Bind(p) \/ StopsListening(p) \/ ThreadEnds(p)

Handlers ==
    /\ \E s \in Slots : Progress(s) \/ \E u \in Replies : UpstreamReplies(s, u)
    /\ UNCHANGED ownVars

NextLifecycle ==
    \/ \E m \in Mains :
          \/ LaunchDemo(m)
          \/ \E c \in Configs, wanted \in RunPorts : LaunchRun(m, c, wanted)
          \/ Advance(m)
          \/ GivesUp(m)
          \/ Interrupt(m)
          \/ \E s \in Slots, r \in Requests : ChildAsks(m, s, r)
          \/ ChildHears(m)
          \/ \E code \in {"zero", "nonzero"} : ChildExits(m, code)
    \/ \E p \in Proxies : ServerThread(p)
    \/ Handlers
    \/ \E s \in Slots : Dropped(s)

SpecLifecycle == InitLifecycle /\ [][NextLifecycle]_allVars

\* The main thread is scheduled and its deadlines pass.  Nothing is assumed of
\* the server thread and its handlers, the child or the upstream.
FairLifecycle ==
    /\ SpecLifecycle
    /\ \A m \in Mains : WF_allVars(Advance(m)) /\ WF_allVars(GivesUp(m))

-----------------------------------------------------------------------------
(* Properties *)

\* The child of a demo never talks to the proxy of another process; that of a
\* run, on its fixed port, does so only as long as its own proxy has not bound
\* the port, or when it could not.
ChildMeetsOwnProxy ==
    \A m \in Mains : At(m, "child") =>
        LET p == listener[main[m].port]
        IN  p \notin {NoProxy, Own(m)} =>
                main[m].job = "run" /\ thread[Own(m)] \in {"none", "binding"}

\* A demo that nobody else disturbs: when its first recording succeeded, its
\* replay never misses, and it ends with one transaction per recording at most
\* and with what it replayed among them, though threads of a failed recording
\* may still append while it replays.
DemoReplays ==
    \A m \in Mains : main[m].job = "demo" /\ main[m].conf = DemoReplay /\ launches = 1 =>
        /\ Len(cassette) <= main[m].recordings
        /\ main[m].recordings = 1 =>
              /\ main[m].heard \in {"nothing", "cassette"}
              /\ Len(cassette) = 1
        /\ main[m].code = "zero" => main[m].heard = "cassette"

\* Every run gets to its child, and from there to its end or the demo's next
\* run: a port that is never bound, a health check nobody answers and a server
\* that does not stop do not hang it.
RunEnds ==
    \A m \in Mains :
        main[m].stage \in {"port", "alive", "get", "join", "ending"}
            ~> main[m].stage \in {"begin", "child", "done"}

=============================================================================
