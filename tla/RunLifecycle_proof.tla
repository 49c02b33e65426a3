------------------------- MODULE RunLifecycle_proof --------------------------
(***************************************************************************)
(* Proofs about RunLifecycle: the commands that start and stop proxies in  *)
(* threads keep what Proxy promises, the abstract session included, a      *)
(* child talks to another proxy than its own only on a fixed port that its *)
(* own has not bound, and a demo that nobody disturbs replays what it      *)
(* recorded.                                                               *)
(***************************************************************************)
EXTENDS RunLifecycle, Proxy_proof, FiniteSetTheorems

-----------------------------------------------------------------------------
(* The inductive invariant *)

Jobs == {"none", "run", "demo"}
Stages == Trying \cup {"idle", "begin", "join", "ending", "done"}
MainType == [job : Jobs, stage : Stages, conf : Configs,
             wanted : Ports \cup {AnyPort}, port : Ports \cup {AnyPort},
             proxy : Proxies \cup {NoProxy}, recordings : Nat,
             asks : Slots \cup {NoSlot},
             heard : {"nothing", "bad", "something"} \cup Origins,
             code : {"none", "raised", "zero", "nonzero"}]

\* Every variable of RunLifecycle has its type.
OwnTypeOK ==
    /\ main \in [Mains -> MainType]
    /\ thread \in [Proxies -> {"none", "binding", "serving", "closing"}]
    /\ listener \in [Ports -> Proxies \cup {NoProxy}]
    /\ owner \in [Proxies -> Mains \cup {NoProxy}]

\* A demo leaves its port to the system, and whoever runs does so for a job.
JobWell(m) ==
    /\ main[m].job = "demo" => main[m].wanted = AnyPort
    /\ main[m].stage \in Trying \cup {"begin", "join"} => main[m].job # "none"

\* Inside the try block the server belongs to the process and does not close; on
\* a fixed port it listens once it serves, and a port of the system's choice is
\* known only once the server listens on it.
TriesWell(m) ==
    main[m].stage \in Trying =>
        /\ Own(m) \in Proxies
        /\ owner[Own(m)] = m
        /\ thread[Own(m)] # "closing"
        /\ main[m].wanted # AnyPort /\ thread[Own(m)] = "serving" =>
              listener[main[m].wanted] = Own(m)
        /\ main[m].stage # "port" =>
              /\ main[m].port \in Ports
              /\ main[m].wanted # AnyPort => main[m].port = main[m].wanted
              /\ main[m].wanted = AnyPort => listener[main[m].port] = Own(m)

OwnInv ==
    /\ OwnTypeOK
    /\ \A m \in Mains : JobWell(m) /\ TriesWell(m)

-----------------------------------------------------------------------------
(* Steps of a main thread *)

\* A step that changes the record of one process and nothing of its servers.
LEMMA OneMain ==
    ASSUME OwnInv, NEW m \in Mains, NEW r \in MainType,
           main' = [main EXCEPT ![m] = r],
           UNCHANGED <<thread, listener, owner>>,
           r.job = "demo" => r.wanted = AnyPort,
           r.stage \in Trying \cup {"begin", "join"} => r.job # "none",
           TriesWell(m)'
    PROVE  OwnInv'
<1>1. OwnTypeOK' /\ main'[m] = r /\ \A n \in Mains \ {m} : main'[n] = main[n]
  BY DEF OwnInv, OwnTypeOK
<1>2. ASSUME NEW n \in Mains PROVE JobWell(n)' /\ TriesWell(n)'
  <2>1. CASE n = m
    BY <1>1, <2>1 DEF JobWell
  <2>2. CASE n # m
    BY <1>1, <2>2 DEF OwnInv, JobWell, TriesWell, Own
  <2> QED
    BY <2>1, <2>2
<1> QED
  BY <1>1, <1>2 DEF OwnInv

\* A record in which one stage replaces another.
LEMMA GoesFacts ==
    ASSUME OwnTypeOK, NEW m \in Mains, NEW stage \in Stages, Goes(m, stage)
    PROVE  \E r \in MainType :
               /\ main' = [main EXCEPT ![m] = r] /\ main'[m] = r
               /\ r.stage = stage /\ r.job = main[m].job /\ r.wanted = main[m].wanted
               /\ r.port = main[m].port /\ r.proxy = main[m].proxy
<1> DEFINE r == [main[m] EXCEPT !.stage = stage]
<1>1. main[m] \in MainType
  BY DEF OwnTypeOK
<1>2. /\ r \in MainType /\ r.stage = stage /\ r.job = main[m].job
      /\ r.wanted = main[m].wanted /\ r.port = main[m].port /\ r.proxy = main[m].proxy
  BY <1>1 DEF MainType
<1>3. main' = [main EXCEPT ![m] = r]
  BY DEF Goes
<1> HIDE DEF r
<1>4. main'[m] = r
  BY <1>3 DEF OwnTypeOK
<1> QED
  BY <1>2, <1>3, <1>4

\* From a stage of the try block to a later one, or back to an earlier round.
LEMMA GoesStep ==
    ASSUME OwnInv, NEW m \in Mains, NEW stage \in {"alive", "get", "child"},
           Goes(m, stage), UNCHANGED <<thread, listener, owner>>,
           main[m].stage \in Trying \ {"port"}
    PROVE  OwnInv'
<1>1. OwnTypeOK /\ stage \in Stages
  BY DEF OwnInv, Stages, Trying
<1>2. PICK r \in MainType :
          /\ main' = [main EXCEPT ![m] = r] /\ main'[m] = r
          /\ r.stage = stage /\ r.job = main[m].job /\ r.wanted = main[m].wanted
          /\ r.port = main[m].port /\ r.proxy = main[m].proxy
  BY <1>1, GoesFacts
<1>3. JobWell(m) /\ TriesWell(m)
  BY DEF OwnInv
<1>4. TriesWell(m)'
  BY <1>2, <1>3 DEF TriesWell, Own, Trying
<1> QED
  BY <1>2, <1>3, <1>4, OneMain DEF JobWell, Trying

\* The try block ends.
LEMMA LeavesStep ==
    ASSUME OwnInv, NEW m \in Mains, NEW code \in {"raised", "zero", "nonzero"},
           main[m].stage \in Trying,
           Leaves(m, code), UNCHANGED <<thread, listener, owner>>
    PROVE  OwnInv'
<1> DEFINE demo == main[m].job = "demo"
<1>1. PICK c \in {"none", "raised", "zero", "nonzero"},
           h \in {"nothing", "bad", "something"} \cup Origins :
          /\ c = IF demo THEN code ELSE "none"
          /\ h = IF demo THEN main[m].heard ELSE "nothing"
  BY DEF OwnInv, OwnTypeOK, MainType
<1> DEFINE r == [main[m] EXCEPT !.stage = "join", !.asks = NoSlot, !.code = c, !.heard = h]
<1>2. main[m] \in MainType /\ DOMAIN main = Mains
  BY DEF OwnInv, OwnTypeOK
<1>3. r \in MainType /\ r.stage = "join" /\ r.job = main[m].job /\ r.wanted = main[m].wanted
  <2> DEFINE r1 == [main[m] EXCEPT !.stage = "join"]
             r2 == [r1 EXCEPT !.asks = NoSlot]
             r3 == [r2 EXCEPT !.code = c]
             r4 == [r3 EXCEPT !.heard = h]
  <2>1. r1 \in MainType /\ r1.stage = "join" /\ r1.job = main[m].job /\ r1.wanted = main[m].wanted
    BY <1>2 DEF MainType, Stages
  <2> HIDE DEF r1
  <2>2. r2 \in MainType /\ r2.stage = "join" /\ r2.job = main[m].job /\ r2.wanted = main[m].wanted
    BY <2>1 DEF MainType
  <2> HIDE DEF r2
  <2>3. r3 \in MainType /\ r3.stage = "join" /\ r3.job = main[m].job /\ r3.wanted = main[m].wanted
    BY <2>2 DEF MainType
  <2> HIDE DEF r3
  <2>4. r4 \in MainType /\ r4.stage = "join" /\ r4.job = main[m].job /\ r4.wanted = main[m].wanted
    BY <1>1, <2>3 DEF MainType
  <2>5. r = r4
    BY DEF r1, r2, r3
  <2> QED
    BY <2>4, <2>5
<1>4. main' = [main EXCEPT ![m] = r]
  BY <1>1, <1>2 DEF Leaves, MainType
<1> HIDE DEF r
<1>5. main'[m] = r
  BY <1>2, <1>4
<1>6. TriesWell(m)'
  BY <1>3, <1>5 DEF TriesWell, Trying
<1>7. JobWell(m)
  BY DEF OwnInv
<1> QED
  BY <1>3, <1>4, <1>6, <1>7, OneMain DEF JobWell, Trying

LEMMA WaitingFacts ==
    /\ Waiting \in MainType
    /\ Waiting.job = "none" /\ Waiting.stage = "idle" /\ Waiting.wanted = AnyPort
BY LifecycleAssumption DEF Waiting, MainType, Jobs, Stages

\* A process that is launched.
LEMMA LaunchStep ==
    ASSUME OwnInv, NEW m \in Mains, NEW r \in MainType,
           main' = [main EXCEPT ![m] = r],
           r.stage \notin Trying,
           r.job = "demo" => r.wanted = AnyPort,
           r.stage \in {"begin", "join"} => r.job # "none",
           UNCHANGED <<thread, listener, owner>>
    PROVE  OwnInv'
<1>1. main'[m] = r
  BY DEF OwnInv, OwnTypeOK
<1>2. TriesWell(m)'
  BY <1>1 DEF TriesWell
<1> QED
  BY <1>2, OneMain

LEMMA LaunchRunStep ==
    ASSUME OwnInv, NEW m \in Mains, NEW c \in Configs, NEW wanted \in RunPorts,
           LaunchRun(m, c, wanted)
    PROVE  OwnInv'
<1> DEFINE r == [Waiting EXCEPT !.job = "run", !.stage = "begin", !.conf = c, !.wanted = wanted]
<1>1. r \in MainType /\ r.stage = "begin" /\ r.job = "run"
  BY WaitingFacts, LifecycleAssumption DEF MainType, Jobs, Stages
<1>2. main' = [main EXCEPT ![m] = r] /\ UNCHANGED <<thread, listener, owner>>
  BY DEF LaunchRun, PortWanted
<1> HIDE DEF r
<1> QED
  BY <1>1, <1>2, LaunchStep DEF Trying

LEMMA LaunchDemoStep ==
    ASSUME OwnInv, NEW m \in Mains, LaunchDemo(m)
    PROVE  OwnInv'
<1> DEFINE r == [Waiting EXCEPT !.job = "demo", !.stage = "begin", !.recordings = 1,
                                !.wanted = AnyPort]
<1>1. r \in MainType /\ r.stage = "begin" /\ r.job = "demo" /\ r.wanted = AnyPort
  BY WaitingFacts DEF MainType, Jobs, Stages
<1>2. main' = [main EXCEPT ![m] = r] /\ UNCHANGED <<thread, listener, owner>>
  BY DEF LaunchDemo, PortWanted
<1> HIDE DEF r
<1> QED
  BY <1>1, <1>2, LaunchStep DEF Trying

LEMMA PortKnownStep ==
    ASSUME OwnInv, NEW m \in Mains, PortKnown(m)
    PROVE  OwnInv'
<1>1. /\ main[m].stage = "port" /\ JobWell(m) /\ TriesWell(m) /\ main[m] \in MainType
      /\ UNCHANGED <<thread, listener, owner>>
  BY DEF OwnInv, OwnTypeOK, PortKnown, At
<1>2. PICK port \in Ports :
          /\ main' = [main EXCEPT ![m].stage = "alive", ![m].port = port]
          /\ main[m].wanted # AnyPort => port = main[m].wanted
          /\ main[m].wanted = AnyPort => listener[port] = Own(m)
  BY <1>1 DEF PortKnown, MainType
<1> DEFINE r1 == [main[m] EXCEPT !.stage = "alive"]
           r == [r1 EXCEPT !.port = port]
<1>3. /\ r1 \in MainType /\ r1.stage = "alive" /\ r1.job = main[m].job
      /\ r1.wanted = main[m].wanted /\ r1.proxy = main[m].proxy
  BY <1>1 DEF MainType, Stages, Trying
<1>4. main' = [main EXCEPT ![m] = r]
  BY <1>2 DEF OwnInv, OwnTypeOK
<1> HIDE DEF r1
<1>5. /\ r \in MainType /\ r.stage = "alive" /\ r.job = main[m].job /\ r.port = port
      /\ r.wanted = main[m].wanted /\ r.proxy = main[m].proxy
  BY <1>3 DEF MainType
<1> HIDE DEF r
<1>6. main'[m] = r
  BY <1>4 DEF OwnInv, OwnTypeOK
<1>7. TriesWell(m)'
  BY <1>1, <1>2, <1>5, <1>6 DEF TriesWell, Own, Trying
<1> QED
  BY <1>1, <1>4, <1>5, <1>7, OneMain DEF JobWell, Trying

LEMMA SeesThreadStep ==
    ASSUME OwnInv, NEW m \in Mains, SeesThread(m)
    PROVE  OwnInv'
BY GoesStep, LeavesStep DEF SeesThread, At, Trying

LEMMA GetsHealthStep ==
    ASSUME OwnInv, NEW m \in Mains, GetsHealth(m)
    PROVE  OwnInv'
BY GoesStep, LeavesStep DEF GetsHealth, At, Trying

LEMMA GivesUpStep ==
    ASSUME OwnInv, NEW m \in Mains, GivesUp(m)
    PROVE  OwnInv'
BY LeavesStep DEF GivesUp, DeadlineOver, Trying

LEMMA InterruptStep ==
    ASSUME OwnInv, NEW m \in Mains, Interrupt(m)
    PROVE  OwnInv'
BY LeavesStep DEF Interrupt, Trying

LEMMA ChildExitsStep ==
    ASSUME OwnInv, NEW m \in Mains, NEW code \in {"zero", "nonzero"}, ChildExits(m, code)
    PROVE  OwnInv'
BY LeavesStep DEF ChildExits, At, Trying

LEMMA EndsStep ==
    ASSUME OwnInv, NEW m \in Mains, Ends(m)
    PROVE  OwnInv'
<1> DEFINE r == [Waiting EXCEPT !.stage = "done"]
<1>1. r \in MainType /\ r.stage = "done" /\ r.job = "none"
  BY WaitingFacts DEF MainType, Stages
<1>2. main' = [main EXCEPT ![m] = r] /\ UNCHANGED <<thread, listener, owner>>
  BY DEF Ends
<1> HIDE DEF r
<1> QED
  BY <1>1, <1>2, LaunchStep DEF Trying

\* After the join the process ends or starts its next proxy.
LEMMA JoinStep ==
    ASSUME OwnInv, NEW m \in Mains, Join(m)
    PROVE  OwnInv'
<1>1. main[m] \in MainType /\ JobWell(m) /\ main[m].stage = "join"
  BY DEF OwnInv, OwnTypeOK, Join, At
<1>2. UNCHANGED <<thread, listener, owner>>
  BY DEF Join
<1>3. CASE Ending(m)
  <2> DEFINE r1 == [Waiting EXCEPT !.stage = "ending"]
             r == [r1 EXCEPT !.wanted = main[m].wanted]
  <2>1. r1 \in MainType /\ r1.stage = "ending" /\ r1.job = "none"
    BY WaitingFacts DEF MainType, Stages
  <2>2. main' = [main EXCEPT ![m] = r]
    BY <1>3 DEF Ending
  <2> HIDE DEF r1
  <2>3. r \in MainType /\ r.stage = "ending" /\ r.job = "none"
    BY <1>1, <2>1 DEF MainType
  <2> HIDE DEF r
  <2> QED
    BY <1>2, <2>2, <2>3, LaunchStep DEF Trying
<1>4. CASE \E conf \in Configs, more \in {0, 1} :
              main' = [main EXCEPT ![m].stage = "begin", ![m].conf = conf,
                                   ![m].recordings = @ + more,
                                   ![m].heard = "nothing", ![m].code = "none"]
  <2>1. PICK conf \in Configs, more \in {0, 1} :
            main' = [main EXCEPT ![m].stage = "begin", ![m].conf = conf,
                                 ![m].recordings = @ + more,
                                 ![m].heard = "nothing", ![m].code = "none"]
    BY <1>4
  <2>2. PICK count \in Nat : count = main[m].recordings + more
    BY <1>1 DEF MainType
  <2> DEFINE r1 == [main[m] EXCEPT !.stage = "begin"]
             r2 == [r1 EXCEPT !.conf = conf]
             r3 == [r2 EXCEPT !.recordings = count]
             r4 == [r3 EXCEPT !.heard = "nothing"]
             r == [r4 EXCEPT !.code = "none"]
  <2>3. main' = [main EXCEPT ![m] = r]
    BY <1>1, <2>1, <2>2 DEF OwnInv, OwnTypeOK, MainType
  <2>4. r1 \in MainType /\ r1.stage = "begin" /\ r1.job = main[m].job /\ r1.wanted = main[m].wanted
    BY <1>1 DEF MainType, Stages
  <2> HIDE DEF r1
  <2>5. r2 \in MainType /\ r2.stage = "begin" /\ r2.job = main[m].job /\ r2.wanted = main[m].wanted
    BY <2>4 DEF MainType
  <2> HIDE DEF r2
  <2>6. r3 \in MainType /\ r3.stage = "begin" /\ r3.job = main[m].job /\ r3.wanted = main[m].wanted
    BY <2>5 DEF MainType
  <2> HIDE DEF r3
  <2>7. r4 \in MainType /\ r4.stage = "begin" /\ r4.job = main[m].job /\ r4.wanted = main[m].wanted
    BY <2>6 DEF MainType
  <2> HIDE DEF r4
  <2>8. r \in MainType /\ r.stage = "begin" /\ r.job = main[m].job /\ r.wanted = main[m].wanted
    BY <2>7 DEF MainType
  <2> HIDE DEF r
  <2> QED
    BY <1>1, <1>2, <2>3, <2>8, LaunchStep DEF JobWell, Trying
<1>5. DemoRecord \in Configs /\ DemoReplay \in Configs
  BY LifecycleAssumption
<1> QED
  BY <1>3, <1>4, <1>5 DEF Join

-----------------------------------------------------------------------------
(* Steps of a server thread *)

\* run_with_proxy takes a proxy that nobody runs.
LEMMA BeginStep ==
    ASSUME OwnInv, NEW m \in Mains, Begin(m)
    PROVE  OwnInv'
<1>1. PICK p \in Proxies :
          /\ \A n \in Mains : Own(n) # p
          /\ Start(p, main[m].conf)
          /\ thread' = [thread EXCEPT ![p] = "binding"]
          /\ owner' = [owner EXCEPT ![p] = m]
          /\ main' = [main EXCEPT ![m].stage = "port", ![m].proxy = p]
          /\ UNCHANGED listener
  BY DEF Begin
<1>2. main[m] \in MainType /\ JobWell(m) /\ main[m].stage = "begin" /\ DOMAIN main = Mains
  BY DEF OwnInv, OwnTypeOK, Begin, At
<1> DEFINE r1 == [main[m] EXCEPT !.stage = "port"]
           r == [r1 EXCEPT !.proxy = p]
<1>3. r1 \in MainType /\ r1.stage = "port" /\ r1.job = main[m].job /\ r1.wanted = main[m].wanted
  BY <1>2 DEF MainType, Stages, Trying
<1>4. main' = [main EXCEPT ![m] = r]
  BY <1>1, <1>2
<1> HIDE DEF r1
<1>5. /\ r \in MainType /\ r.stage = "port" /\ r.job = main[m].job
      /\ r.wanted = main[m].wanted /\ r.proxy = p
  BY <1>3 DEF MainType
<1> HIDE DEF r
<1>6. /\ main'[m] = r /\ \A n \in Mains \ {m} : main'[n] = main[n]
      /\ main' \in [Mains -> MainType]
  BY <1>2, <1>4, <1>5 DEF OwnInv, OwnTypeOK
<1>7. OwnTypeOK'
  BY <1>1, <1>6 DEF OwnInv, OwnTypeOK
<1>8. /\ thread'[p] = "binding" /\ owner'[p] = m
      /\ \A q \in Proxies \ {p} : thread'[q] = thread[q] /\ owner'[q] = owner[q]
  BY <1>1 DEF OwnInv, OwnTypeOK
<1>9. ASSUME NEW n \in Mains PROVE JobWell(n)' /\ TriesWell(n)'
  <2>1. CASE n = m
    BY <1>2, <1>5, <1>6, <1>8, <2>1 DEF JobWell, TriesWell, Own, Trying
  <2>2. CASE n # m
    BY <1>1, <1>6, <1>8, <2>2 DEF OwnInv, JobWell, TriesWell, Own
  <2> QED
    BY <2>1, <2>2
<1> QED
  BY <1>7, <1>9 DEF OwnInv

\* A server that nobody waits for goes away from its port.
LEMMA GoesAway ==
    ASSUME OwnInv, NEW p \in Proxies, NEW v \in {"none", "closing"}, ShouldExit(p),
           thread' = [thread EXCEPT ![p] = v],
           listener' = WithoutListener(p),
           UNCHANGED <<main, owner>>
    PROVE  OwnInv'
<1>1. /\ listener' \in [Ports -> Proxies \cup {NoProxy}]
      /\ \A port \in Ports : listener[port] # p => listener'[port] = listener[port]
  BY DEF OwnInv, OwnTypeOK, WithoutListener
<1>2. OwnTypeOK'
  BY <1>1 DEF OwnInv, OwnTypeOK
<1>3. ASSUME NEW m \in Mains PROVE JobWell(m)' /\ TriesWell(m)'
  <2>1. JobWell(m) /\ TriesWell(m) /\ main[m] \in MainType
    BY DEF OwnInv, OwnTypeOK
  <2>2. main[m].stage \in Trying => Own(m) # p /\ thread'[Own(m)] = thread[Own(m)]
    BY <2>1 DEF OwnInv, OwnTypeOK, ShouldExit, TriesWell
  <2>3. main[m].wanted # AnyPort => main[m].wanted \in Ports
    BY <2>1 DEF MainType
  <2> QED
    BY <1>1, <2>1, <2>2, <2>3 DEF JobWell, TriesWell, Own
<1> QED
  BY <1>2, <1>3 DEF OwnInv

LEMMA ReapStep ==
    ASSUME OwnInv, NEW m \in Mains, NEW p \in Proxies, Reap(m, p)
    PROVE  OwnInv'
<1>1. ShouldExit(p)
  BY DEF OwnInv, Reap, At, TriesWell, ShouldExit, Trying
<1> QED
  BY <1>1, GoesAway DEF Reap

LEMMA BindStep ==
    ASSUME OwnInv, NEW p \in Proxies, Bind(p)
    PROVE  OwnInv'
<1>1. thread[p] = "binding" /\ UNCHANGED <<main, owner>>
  BY DEF Bind
<1>2. CASE thread' = [thread EXCEPT ![p] = "none"] /\ UNCHANGED listener
  <2>1. /\ thread'[p] = "none" /\ \A q \in Proxies \ {p} : thread'[q] = thread[q]
        /\ OwnTypeOK'
    BY <1>1, <1>2 DEF OwnInv, OwnTypeOK
  <2>2. ASSUME NEW m \in Mains PROVE JobWell(m)' /\ TriesWell(m)'
    BY <1>1, <1>2, <2>1 DEF OwnInv, JobWell, TriesWell, Own
  <2> QED
    BY <2>1, <2>2 DEF OwnInv
<1>3. CASE \E port \in Ports :
              /\ listener[port] = NoProxy
              /\ main[owner[p]].wanted # AnyPort => port = main[owner[p]].wanted
              /\ listener' = [listener EXCEPT ![port] = p]
              /\ thread' = [thread EXCEPT ![p] = "serving"]
  <2>1. PICK port \in Ports :
            /\ listener[port] = NoProxy
            /\ main[owner[p]].wanted # AnyPort => port = main[owner[p]].wanted
            /\ listener' = [listener EXCEPT ![port] = p]
            /\ thread' = [thread EXCEPT ![p] = "serving"]
    BY <1>3
  <2>2. /\ thread'[p] = "serving" /\ \A q \in Proxies \ {p} : thread'[q] = thread[q]
        /\ listener'[port] = p /\ \A o \in Ports \ {port} : listener'[o] = listener[o]
        /\ OwnTypeOK'
    BY <1>1, <2>1 DEF OwnInv, OwnTypeOK
  <2>3. ASSUME NEW m \in Mains PROVE JobWell(m)' /\ TriesWell(m)'
    <3>1. JobWell(m) /\ TriesWell(m) /\ main[m] \in MainType
      BY DEF OwnInv, OwnTypeOK
    <3>2. main[m].wanted # AnyPort => main[m].wanted \in Ports
      BY <3>1 DEF MainType
    <3>3. \A o \in Ports : listener[o] # NoProxy => listener'[o] = listener[o]
      BY <2>1, <2>2
    <3>4. NoProxy \notin Proxies
      BY LifecycleAssumption
    <3>5. CASE Own(m) = p
      BY <1>1, <2>1, <2>2, <3>1, <3>2, <3>3, <3>4, <3>5 DEF JobWell, TriesWell, Own
    <3>6. CASE Own(m) # p
      BY <1>1, <2>2, <3>1, <3>2, <3>3, <3>4, <3>6 DEF JobWell, TriesWell, Own
    <3> QED
      BY <3>5, <3>6
  <2> QED
    BY <2>2, <2>3 DEF OwnInv
<1> QED
  BY <1>2, <1>3 DEF Bind

LEMMA ServerThreadStep ==
    ASSUME OwnInv, NEW p \in Proxies, ServerThread(p)
    PROVE  OwnInv'
<1>1. CASE StopsListening(p)
  BY <1>1, GoesAway DEF StopsListening
<1>2. CASE ThreadEnds(p)
  BY <1>2, GoesAway DEF ThreadEnds
<1> QED
  BY <1>1, <1>2, BindStep DEF ServerThread

-----------------------------------------------------------------------------
(* Steps of a child *)

\* What the child asks and hears is nothing to its server.
LEMMA ChildStep ==
    ASSUME OwnInv, NEW m \in Mains, NEW r \in MainType,
           main' = [main EXCEPT ![m] = r],
           r.stage = main[m].stage, r.job = main[m].job, r.wanted = main[m].wanted,
           r.port = main[m].port, r.proxy = main[m].proxy,
           UNCHANGED <<thread, listener, owner>>
    PROVE  OwnInv'
<1>1. main'[m] = r
  BY DEF OwnInv, OwnTypeOK
<1>2. JobWell(m) /\ TriesWell(m)
  BY DEF OwnInv
<1>3. TriesWell(m)'
  BY <1>1, <1>2 DEF TriesWell, Own
<1> QED
  BY <1>2, <1>3, OneMain DEF JobWell

LEMMA ChildAsksStep ==
    ASSUME OwnInv, NEW m \in Mains, NEW s \in Slots, NEW q \in Requests, ChildAsks(m, s, q)
    PROVE  OwnInv'
<1>1. main[m] \in MainType /\ UNCHANGED <<thread, listener, owner>>
  BY DEF OwnInv, OwnTypeOK, ChildAsks
<1>2. CASE main' = [main EXCEPT ![m].heard = "bad"]
  <2> DEFINE r == [main[m] EXCEPT !.heard = "bad"]
  <2>1. main' = [main EXCEPT ![m] = r]
    BY <1>2
  <2>2. /\ r \in MainType /\ r.stage = main[m].stage /\ r.job = main[m].job
        /\ r.wanted = main[m].wanted /\ r.port = main[m].port /\ r.proxy = main[m].proxy
    BY <1>1 DEF MainType
  <2> HIDE DEF r
  <2> QED
    BY <1>1, <2>1, <2>2, ChildStep
<1>3. CASE main' = [main EXCEPT ![m].asks = s]
  <2> DEFINE r == [main[m] EXCEPT !.asks = s]
  <2>1. main' = [main EXCEPT ![m] = r]
    BY <1>3
  <2>2. /\ r \in MainType /\ r.stage = main[m].stage /\ r.job = main[m].job
        /\ r.wanted = main[m].wanted /\ r.port = main[m].port /\ r.proxy = main[m].proxy
    BY <1>1 DEF MainType
  <2> HIDE DEF r
  <2> QED
    BY <1>1, <2>1, <2>2, ChildStep
<1> QED
  BY <1>2, <1>3 DEF ChildAsks

LEMMA ChildHearsStep ==
    ASSUME OwnInv, IInv, NEW m \in Mains, ChildHears(m)
    PROVE  OwnInv'
<1>1. main[m] \in MainType /\ main[m].asks \in Slots /\ DOMAIN main = Mains
  BY DEF OwnInv, OwnTypeOK, ChildHears, MainType
<1>2. UNCHANGED <<thread, listener, owner>>
  BY DEF ChildHears
<1>3. slot[main[m].asks] # Free => slot[main[m].asks].answer.from \in Origins
  BY <1>1, SlotFacts DEF IInv, Answers
<1>4. PICK h \in {"nothing", "bad", "something"} \cup Origins :
          main' = [main EXCEPT ![m].asks = NoSlot, ![m].heard = h]
  BY <1>3 DEF ChildHears
<1> DEFINE r1 == [main[m] EXCEPT !.asks = NoSlot]
           r == [r1 EXCEPT !.heard = h]
<1>5. main' = [main EXCEPT ![m] = r]
  BY <1>1, <1>4
<1>6. /\ r1 \in MainType /\ r1.stage = main[m].stage /\ r1.job = main[m].job
      /\ r1.wanted = main[m].wanted /\ r1.port = main[m].port /\ r1.proxy = main[m].proxy
  BY <1>1 DEF MainType
<1> HIDE DEF r1
<1>7. /\ r \in MainType /\ r.stage = main[m].stage /\ r.job = main[m].job
      /\ r.wanted = main[m].wanted /\ r.port = main[m].port /\ r.proxy = main[m].proxy
  BY <1>6 DEF MainType
<1> HIDE DEF r
<1> QED
  BY <1>2, <1>5, <1>7, ChildStep

-----------------------------------------------------------------------------
(* Every step is one of Proxy, but for the demo's fresh cassette *)

LEMMA ProxyStutter ==
    ASSUME IInv, UNCHANGED proxyVars
    PROVE  IInv'
BY StutterStep DEF proxyVars, vars

\* The demo removes the cassette it finds: what a client of a recording was told
\* may be gone, so the history counts it with the crashes.
LEMMA FreshCassette ==
    ASSUME IInv, NEW m \in Mains, LaunchDemo(m)
    PROVE  IInv'
<1>1. /\ cassette' = << >>
      /\ UNCHANGED <<config, hmac, stamping, index, slot, source, recorded, starts, sends>>
      /\ ~severed' => \A p \in Proxies : config[p] = Down
  BY DEF LaunchDemo
<1>2. TypeOK' /\ Lists(cassette)' /\ StrictStoresNoSecret'
  <2>1. << >> \in Seq(Txs) /\ DOMAIN << >> = {}
    OBVIOUS
  <2> QED
    BY <1>1, <2>1 DEF IInv, TypeOK, Lists, StrictStoresNoSecret
<1>3. \A p \in Proxies : StartedWell(p)' /\ StampsWell(p)' /\ Lists(source[p])'
  BY <1>1 DEF IInv, StartedWell, StampsWell, Lists
<1>4. \A s \in Slots : HandledWell(s)'
  BY <1>1 DEF IInv, HandledWell, AnsweredWell, Conf, Key, Replays
<1>5. AnsweredIsRecorded'
  <2>1. ASSUME NEW s \in Slots, slot[s] # Free PROVE severed'
    BY <1>1, <2>1, SlotFacts DEF IInv, HandledWell, Conf
  <2> QED
    BY <1>1, <2>1 DEF AnsweredIsRecorded, Answered, InPhase
<1> QED
  BY <1>2, <1>3, <1>4, <1>5 DEF IInv

\* The port a child was told is one, so whoever listens there is a proxy.
LEMMA WhoListens ==
    ASSUME OwnInv, NEW m \in Mains, At(m, "child")
    PROVE  listener[main[m].port] \in Proxies \cup {NoProxy}
BY DEF OwnInv, OwnTypeOK, TriesWell, At, Trying

\* A step of a main thread keeps what Proxy promises.
LEMMA MainKeepsProxy ==
    ASSUME OwnInv, IInv, NEW m \in Mains,
           \/ LaunchDemo(m)
           \/ \E c \in Configs, wanted \in RunPorts : LaunchRun(m, c, wanted)
           \/ Advance(m)
           \/ GivesUp(m)
           \/ Interrupt(m)
           \/ \E s \in Slots, r \in Requests : ChildAsks(m, s, r)
           \/ ChildHears(m)
           \/ \E code \in {"zero", "nonzero"} : ChildExits(m, code)
    PROVE  IInv'
<1>1. CASE Begin(m)
  <2>1. PICK p \in Proxies : Start(p, main[m].conf)
    BY <1>1 DEF Begin
  <2>2. main[m].conf \in Configs
    BY DEF OwnInv, OwnTypeOK, MainType
  <2> QED
    BY <2>1, <2>2, StartStep
<1>2. CASE \E p \in Proxies : Reap(m, p)
  BY <1>2, StopStep DEF Reap
<1>3. CASE \E s \in Slots, r \in Requests : ChildAsks(m, s, r)
  <2>1. PICK s \in Slots, r \in Requests : ChildAsks(m, s, r)
    BY <1>3
  <2>2. CASE UNCHANGED proxyVars
    BY <2>2, ProxyStutter
  <2>3. CASE listener[main[m].port] # NoProxy
    BY <2>1, <2>3, WhoListens, SendStep DEF ChildAsks
  <2> QED
    BY <2>1, <2>2, <2>3 DEF ChildAsks
<1>4. CASE ChildHears(m)
  <2>1. main[m].asks \in Slots
    BY <1>4 DEF OwnInv, OwnTypeOK, MainType, ChildHears
  <2> QED
    BY <1>4, <2>1, ProxyStutter, CollectStep DEF ChildHears
<1>5. CASE UNCHANGED proxyVars
  BY <1>5, ProxyStutter
<1> QED
  BY <1>1, <1>2, <1>3, <1>4, <1>5, FreshCassette
  DEF Advance, LaunchRun, PortKnown, SeesThread, GetsHealth, Join, Ends, GivesUp, Interrupt,
      ChildExits

\* The invariant of the lifecycle: that of Proxy and that of its own variables.
LifecycleInv == IInv /\ OwnInv

LEMMA LifecycleStep ==
    ASSUME LifecycleInv, [NextLifecycle]_allVars
    PROVE  LifecycleInv'
<1> USE DEF LifecycleInv
<1>1. ASSUME NEW m \in Mains,
             \/ LaunchDemo(m)
             \/ \E c \in Configs, wanted \in RunPorts : LaunchRun(m, c, wanted)
             \/ Advance(m)
             \/ GivesUp(m)
             \/ Interrupt(m)
             \/ \E s \in Slots, r \in Requests : ChildAsks(m, s, r)
             \/ ChildHears(m)
             \/ \E code \in {"zero", "nonzero"} : ChildExits(m, code)
      PROVE  LifecycleInv'
  <2>1. IInv'
    BY <1>1, MainKeepsProxy
  <2>2. OwnInv'
    BY <1>1, LaunchDemoStep, LaunchRunStep, BeginStep, PortKnownStep, SeesThreadStep,
       GetsHealthStep, JoinStep, ReapStep, EndsStep, GivesUpStep, InterruptStep,
       ChildAsksStep, ChildHearsStep, ChildExitsStep
    DEF Advance
  <2> QED
    BY <2>1, <2>2
<1>2. ASSUME NEW p \in Proxies, ServerThread(p)
      PROVE  LifecycleInv'
  <2>1. Stop(p) \/ UNCHANGED proxyVars
    BY <1>2 DEF ServerThread, Bind, StopsListening, ThreadEnds
  <2>2. IInv'
    BY <2>1, ProxyStutter, StopStep
  <2> QED
    BY <1>2, <2>2, ServerThreadStep
<1>3. ASSUME UNCHANGED ownVars
      PROVE  OwnInv'
  <2>1. OwnTypeOK'
    BY <1>3 DEF OwnInv, OwnTypeOK, ownVars
  <2>2. \A m \in Mains : JobWell(m)' /\ TriesWell(m)'
    BY <1>3 DEF OwnInv, JobWell, TriesWell, Own, ownVars
  <2> QED
    BY <2>1, <2>2 DEF OwnInv
<1>4. CASE Handlers
  <2>1. [Next]_vars
    BY <1>4 DEF Handlers, Next
  <2> QED
    BY <1>3, <1>4, <2>1, ProxyStep DEF Handlers
<1>5. CASE \E s \in Slots : Dropped(s)
  BY <1>3, <1>5, CollectStep DEF Dropped
<1>6. CASE UNCHANGED allVars
  <2>1. UNCHANGED proxyVars /\ UNCHANGED ownVars
    BY <1>6 DEF allVars
  <2> QED
    BY <1>3, <2>1, ProxyStutter
<1> QED
  BY <1>1, <1>2, <1>4, <1>5, <1>6 DEF NextLifecycle

-----------------------------------------------------------------------------
(* Theorems *)

\* The inductive invariant holds however many processes run and however late
\* their threads stop.
THEOREM LifecycleInvariant == SpecLifecycle => []LifecycleInv
<1>1. InitLifecycle => LifecycleInv
  <2> SUFFICES ASSUME InitLifecycle PROVE IInv /\ OwnInv
    BY DEF LifecycleInv
  <2>1. IInv
    BY Begins DEF InitLifecycle
  <2>2. OwnTypeOK /\ \A m \in Mains : main[m] = Waiting
    BY WaitingFacts DEF InitLifecycle, OwnTypeOK
  <2>3. \A m \in Mains : JobWell(m) /\ TriesWell(m)
    BY <2>2, WaitingFacts DEF JobWell, TriesWell, Trying
  <2> QED
    BY <2>1, <2>2, <2>3 DEF OwnInv
<1>2. LifecycleInv /\ [NextLifecycle]_allVars => LifecycleInv'
  BY LifecycleStep
<1> QED
  BY <1>1, <1>2, PTL DEF SpecLifecycle

\* run_with_proxy and run_demo: whatever they start, stop, repeat and leave
\* behind, a replay answers from the cassette as it was when it started.
THEOREM LifecycleReplaysStable == SpecLifecycle => []AnswersFromStart
<1>1. LifecycleInv => AnswersFromStart
  BY InvAnswersFromStart DEF LifecycleInv
<1> QED
  BY <1>1, LifecycleInvariant, PTL

\* run_with_proxy and run_demo: what a recording answered is in the cassette,
\* until a thread is cut off in an append or a demo removes the cassette.
THEOREM LifecycleKeepsAnswers == SpecLifecycle => []AnsweredIsRecorded
<1>1. LifecycleInv => AnsweredIsRecorded
  BY DEF LifecycleInv, IInv
<1> QED
  BY <1>1, LifecycleInvariant, PTL

\* run_with_proxy and run_demo: however their processes and threads overlap, and
\* a demo that removes its cassette included, a replay stays hermetic, answers
\* only what was recorded for the request, finds what its own settings recorded,
\* and nothing that still holds a secret is appended under ci and strict.
THEOREM LifecycleKeepsProxyPromises ==
    SpecLifecycle => [](Hermetic /\ NoWrongHit /\ SameSettingsHit /\ StrictStoresNoSecret)
<1>1. LifecycleInv => Hermetic /\ NoWrongHit /\ SameSettingsHit /\ StrictStoresNoSecret
  BY InvHermetic, InvNoWrongHit, InvSameSettingsHit DEF LifecycleInv, IInv
<1> QED
  BY <1>1, LifecycleInvariant, PTL

\* _wait_for_healthz asks a port, not a server: the child of a demo meets its
\* own proxy all the same, and that of a run unless its own never bound the port.
THEOREM ChildrenMeetTheirProxy == SpecLifecycle => []ChildMeetsOwnProxy
<1>1. LifecycleInv => ChildMeetsOwnProxy
  <2> SUFFICES ASSUME LifecycleInv, NEW m \in Mains, main[m].stage = "child",
                      listener[main[m].port] \notin {NoProxy, Own(m)}
               PROVE  main[m].job = "run" /\ thread[Own(m)] \in {"none", "binding"}
    BY DEF ChildMeetsOwnProxy, At
  <2>1. TriesWell(m) /\ JobWell(m) /\ main[m] \in MainType
    BY DEF LifecycleInv, OwnInv, OwnTypeOK
  <2>2. main[m].wanted # AnyPort /\ main[m].port = main[m].wanted /\ Own(m) \in Proxies
    BY <2>1 DEF TriesWell, Trying
  <2>3. thread[Own(m)] \in {"none", "binding"}
    BY <2>1, <2>2 DEF TriesWell, Trying, LifecycleInv, OwnInv, OwnTypeOK
  <2>4. main[m].job = "run"
    BY <2>1, <2>2 DEF JobWell, Trying, MainType, Jobs
  <2> QED
    BY <2>3, <2>4
<1> QED
  BY <1>1, LifecycleInvariant, PTL

-----------------------------------------------------------------------------
(* The commands keep the abstract session *)

\* A step of Proxy, none of its, or the cassette removed under open sessions.
LEMMA ProxyStepOrRemoval ==
    ASSUME LifecycleInv, [NextLifecycle]_allVars
    PROVE  \/ [Next]_vars
           \/ /\ cassette' = << >>
              /\ UNCHANGED <<config, hmac, slot, source>>
<1>1. UNCHANGED proxyVars => UNCHANGED vars
  BY DEF proxyVars, vars
<1>2. ASSUME NEW m \in Mains, LaunchDemo(m)
      PROVE  cassette' = << >> /\ UNCHANGED <<config, hmac, slot, source>>
  BY <1>2 DEF LaunchDemo
<1>3. ASSUME NEW m \in Mains,
             \/ \E c \in Configs, wanted \in RunPorts : LaunchRun(m, c, wanted)
             \/ PortKnown(m) \/ SeesThread(m) \/ GetsHealth(m) \/ Join(m) \/ Ends(m)
             \/ GivesUp(m) \/ Interrupt(m)
             \/ \E code \in {"zero", "nonzero"} : ChildExits(m, code)
      PROVE  [Next]_vars
  BY <1>1, <1>3 DEF LaunchRun, PortKnown, SeesThread, GetsHealth, Join, Ends, GivesUp, Interrupt,
                    ChildExits
<1>4. ASSUME NEW m \in Mains, Begin(m)
      PROVE  [Next]_vars
  <2>1. main[m].conf \in Configs
    BY DEF LifecycleInv, OwnInv, OwnTypeOK, MainType
  <2> QED
    BY <1>4, <2>1 DEF Begin, Next
<1>5. ASSUME NEW m \in Mains, NEW p \in Proxies, Reap(m, p)
      PROVE  [Next]_vars
  BY <1>5 DEF Reap, Next
<1>6. ASSUME NEW m \in Mains, NEW s \in Slots, NEW r \in Requests, ChildAsks(m, s, r)
      PROVE  [Next]_vars
  <2>1. listener[main[m].port] \in Proxies \cup {NoProxy}
    BY <1>6, WhoListens DEF ChildAsks, LifecycleInv
  <2> QED
    BY <1>1, <1>6, <2>1 DEF ChildAsks, Next
<1>7. ASSUME NEW m \in Mains, ChildHears(m)
      PROVE  [Next]_vars
  <2>1. main[m].asks \in Slots
    BY <1>7 DEF LifecycleInv, OwnInv, OwnTypeOK, MainType, ChildHears
  <2> QED
    BY <1>1, <1>7, <2>1 DEF ChildHears, Next
<1>8. ASSUME NEW p \in Proxies, ServerThread(p)
      PROVE  [Next]_vars
  <2>1. Stop(p) \/ UNCHANGED proxyVars
    BY <1>8 DEF ServerThread, Bind, StopsListening, ThreadEnds
  <2> QED
    BY <1>1, <2>1 DEF Next
<1>9. CASE Handlers \/ (\E s \in Slots : Dropped(s))
  BY <1>9 DEF Handlers, Dropped, Next
<1>10. CASE UNCHANGED allVars
  BY <1>1, <1>10 DEF allVars
<1> QED
  BY <1>2, <1>3, <1>4, <1>5, <1>6, <1>7, <1>8, <1>9, <1>10 DEF NextLifecycle, Advance

\* run_with_proxy and run_demo: a replay that they start is an abstract session,
\* also when a demo removes the cassette that other replays were started on.
THEOREM CommandsImplementSession == SpecLifecycle => ImplementsSession
<1>1. InitLifecycle => Session!SessionInit
  BY BeginsAsSession DEF InitLifecycle
<1>2. LifecycleInv /\ [NextLifecycle]_allVars => [Session!SessionNext]_(Session!sessionVars)
  <2> SUFFICES ASSUME LifecycleInv, [NextLifecycle]_allVars
               PROVE  [Session!SessionNext]_(Session!sessionVars)
    OBVIOUS
  <2>1. CASE [Next]_vars
    BY <2>1, SessionStep DEF LifecycleInv
  <2>2. CASE cassette' = << >> /\ UNCHANGED <<config, hmac, slot, source>>
    <3>1. UNCHANGED <<OpenedOn, Exchanges>>
      BY <2>2 DEF OpenedOn, Replayers, Exchanges, Asking, Replays, Conf, ExchangeOf, Key
    <3> QED
      BY <2>2, <3>1, RecordingStep DEF Session!SessionNext
  <2> QED
    BY <2>1, <2>2, ProxyStepOrRemoval
<1> QED
  BY <1>1, <1>2, LifecycleInvariant, PTL DEF SpecLifecycle, ImplementsSession, Session!SessionSpec

-----------------------------------------------------------------------------
(* A demo that nobody disturbs *)

\* The agent of the demo sends one request; the demo records from its stub and
\* replays with the same HMAC key and ignore list, and nothing is marked live.
AgentAsks(r) ==
    /\ Requests = {r} /\ r.text # Models
    /\ DemoRecord.mode = "record" /\ DemoRecord.hmacEnv
    /\ DemoReplay.mode = "replay" /\ DemoReplay.hmacEnv /\ ~DemoReplay.live
    /\ DemoReplay.ignores = DemoRecord.ignores

\* A proxy that is not up has no thread, and only one that serves listens or has
\* requests, until it closes.
ServesWell ==
    /\ \A p \in Proxies : config[p] = Down => thread[p] = "none"
    /\ \A port \in Ports : listener[port] # NoProxy => thread[listener[port]] = "serving"
    /\ \A s \in Slots : slot[s] # Free => thread[slot[s].proxy] \in {"serving", "closing"}

\* Before anything is launched nothing is there.
Fresh ==
    /\ launches \in Nat
    /\ launches = 0 =>
          /\ \A m \in Mains : main[m] = Waiting
          /\ \A p \in Proxies : config[p] = Down
          /\ cassette = << >> /\ recorded = {} /\ ~severed

Alone(m) == main[m].job = "demo" /\ launches = 1

\* What may still be appended: by handlers of recording proxies, also of those
\* that did not stop in time, and for the request that is yet to be made.
ToAppend == {s \in Slots : slot[s] # Free /\ slot[s].phase # "answered" /\ Conf(s).mode = "record"}
MayAsk(m) ==
    /\ main[m].conf = DemoRecord /\ main[m].stage \in Trying \cup {"begin"}
    /\ main[m].heard = "nothing" /\ main[m].asks = NoSlot
Pending(m) == Cardinality(ToAppend) + (IF MayAsk(m) THEN 1 ELSE 0)

\* The only process there is runs the two configurations, one by one, no append
\* was cut off, and whoever records has its answers from the stub.
RunsWell(m) ==
    /\ \A n \in Mains \ {m} : main[n] = Waiting
    /\ ~severed
    /\ main[m].stage \in Trying \cup {"begin", "join"}
    /\ main[m].conf \in {DemoRecord, DemoReplay}
    /\ \A p \in Proxies : config[p] \in {Down, DemoRecord, DemoReplay}
    /\ main[m].stage \in Trying => config[Own(m)] \in {Down, main[m].conf}
    /\ main[m].code = "zero" => main[m].heard \notin {"nothing", "bad"}
    /\ \A tx \in recorded : tx.conf = DemoRecord /\ tx.hmac = 0
    /\ \A s \in Slots : slot[s] # Free /\ Conf(s) = DemoRecord /\ slot[s].phase = "answered"
                         /\ slot[s].answer.status = "ok" => slot[s].answer.from = "upstream"

\* The child waits for an answer of its own proxy, and hears of no other.
AsksWell(m) ==
    /\ main[m].asks # NoSlot =>
          /\ main[m].stage = "child" /\ main[m].heard = "nothing"
          /\ slot[main[m].asks] # Free /\ slot[main[m].asks].proxy = Own(m)
    /\ main[m].stage \in {"begin", "port", "alive", "get"} => main[m].heard = "nothing"
    /\ main[m].heard \in {"nothing", "bad", IF main[m].conf = DemoRecord THEN "upstream" ELSE "cassette"}

\* A recording that succeeded is in the cassette, which has a transaction for
\* each recording at most.
RecordsWell(m) ==
    /\ main[m].recordings \in Nat
    /\ IsFiniteSet(ToAppend)
    /\ Len(cassette) + Pending(m) <= main[m].recordings
    /\ main[m].conf = DemoRecord /\ main[m].heard = "upstream" => cassette # << >>
    /\ main[m].conf = DemoReplay => cassette # << >>

\* After one recording nothing is appended any more, and the replay finds it.
ReplaysWell(m) ==
    main[m].conf = DemoReplay /\ main[m].recordings = 1 =>
        /\ main[m].heard # "bad"
        /\ \A p \in Proxies : config[p] = DemoReplay => source[p] # << >>
        /\ \A s \in Slots : slot[s] # Free /\ Conf(s) = DemoReplay /\ slot[s].phase = "answered" =>
              slot[s].answer.status = "ok"

\* While a demo records no proxy replays.
NoReplayYet(m) ==
    main[m].conf = DemoRecord => \A p \in Proxies : config[p] # DemoReplay

DemoParts(m) ==
    RunsWell(m) /\ AsksWell(m) /\ RecordsWell(m) /\ ReplaysWell(m) /\ NoReplayYet(m)
DemoWell(m) == Alone(m) => DemoParts(m)

DemoInv == ServesWell /\ Fresh /\ \A m \in Mains : DemoWell(m)

\* What becomes of the handler of a slot: a recording proxy hands on what the
\* upstream said, and a replaying one answers what it finds.
HandlesTo(s, h) ==
    /\ h \in HandlerType /\ slot' = [slot EXCEPT ![s] = h]
    /\ h.proxy = slot[s].proxy /\ h.req = slot[s].req
    /\ Conf(s).mode = "record" /\ h.phase = "answered" /\ h.answer.status = "ok" =>
          h.answer.from = "upstream"
    /\ Replays(s) =>
          /\ h.phase = "answered"
          /\ Key(s) \in DOMAIN LastWins(source[slot[s].proxy]) => h.answer.status = "ok"

LEMMA RespondsTo ==
    ASSUME IInv, NEW s \in Slots, slot[s] # Free,
           NEW status \in Statuses, NEW from \in Origins, NEW body \in Bodies,
           Respond(s, Answer(status, from, body)),
           Conf(s).mode = "record" /\ status = "ok" => from = "upstream",
           Replays(s) /\ Key(s) \in DOMAIN LastWins(source[slot[s].proxy]) => status = "ok"
    PROVE  \E h : HandlesTo(s, h) /\ h.phase = "answered"
<1>1. PICK h \in HandlerType :
          /\ slot' = [slot EXCEPT ![s] = h]
          /\ h.proxy = slot[s].proxy /\ h.req = slot[s].req /\ h.phase = "answered"
          /\ h.answer.status = status /\ h.answer.from = from
  BY RespondSlot DEF IInv
<1> QED
  BY <1>1 DEF HandlesTo

\* A step of a handler that is not the append.
LEMMA QuietHandler ==
    ASSUME IInv, NEW s \in Slots,
           \/ ServeModels(s) \/ ServeReplay(s) \/ Forward(s) \/ UpstreamFails(s)
           \/ \E u \in Replies : UpstreamReplies(s, u)
    PROVE  /\ slot[s] # Free /\ slot[s].phase # "answered"
           /\ UNCHANGED <<cassette, config, hmac, history, starts, sends>>
           /\ \E h : HandlesTo(s, h)
<1>1. /\ slot[s] # Free /\ slot[s].phase \in {"received", "upstream"}
      /\ UNCHANGED <<cassette, config, hmac, history, starts, sends>>
  BY DEF ServeModels, ServeReplay, Forward, UpstreamFails, UpstreamReplies, Ready, InPhase
<1>2. slot[s] \in HandlerType
  BY <1>1, SlotFacts DEF IInv
<1>3. slot[s].phase = "upstream" => ~Replays(s)
  BY <1>1 DEF IInv, HandledWell, Replays
<1>4. {"none", "ok", "unavailable", "secret", "error", "miss"} \subseteq Statuses
      /\ {"none", "cassette", "synthetic", "upstream"} \subseteq Origins
  BY DEF Statuses, Origins
<1>5. CASE ServeModels(s)
  <2>1. Conf(s).mode = "replay" /\ ~Replays(s)
    BY <1>5 DEF ServeModels, Replays
  <2>2. Served(s) = LastWins(source[slot[s].proxy]) /\ \A k \in DOMAIN Served(s) : Served(s)[k] \in Bodies
    BY <1>1, <2>1, ServedIs
  <2>3. CASE Key(s) \in DOMAIN Served(s)
    <3>1. Respond(s, Answer("ok", "cassette", Served(s)[Key(s)]))
      BY <1>5, <2>3 DEF ServeModels
    <3>2. \E h : HandlesTo(s, h) /\ h.phase = "answered"
      BY <1>1, <1>4, <2>1, <2>2, <2>3, <3>1, RespondsTo
    <3> QED
      BY <1>1, <3>2
  <2>4. CASE Key(s) \notin DOMAIN Served(s)
    <3>1. Respond(s, Answer("ok", "synthetic", NoBody))
      BY <1>5, <2>4 DEF ServeModels
    <3>2. \E h : HandlesTo(s, h) /\ h.phase = "answered"
      BY <1>1, <1>4, <2>1, <3>1, NoBodyIsBody, RespondsTo
    <3> QED
      BY <1>1, <3>2
  <2> QED
    BY <2>3, <2>4
<1>6. CASE ServeReplay(s)
  <2>1. Conf(s).mode = "replay"
    BY <1>6 DEF ServeReplay
  <2>2. Served(s) = LastWins(source[slot[s].proxy]) /\ \A k \in DOMAIN Served(s) : Served(s)[k] \in Bodies
    BY <1>1, <2>1, ServedIs
  <2>3. CASE Key(s) \in DOMAIN Served(s)
    <3>1. Respond(s, Answer("ok", "cassette", Served(s)[Key(s)]))
      BY <1>6, <2>3 DEF ServeReplay
    <3>2. \E h : HandlesTo(s, h) /\ h.phase = "answered"
      BY <1>1, <1>4, <2>1, <2>2, <2>3, <3>1, RespondsTo
    <3> QED
      BY <1>1, <3>2
  <2>4. CASE Key(s) \notin DOMAIN Served(s)
    <3>1. Respond(s, Answer("miss", "none", NoBody))
      BY <1>6, <2>4 DEF ServeReplay
    <3>2. \E h : HandlesTo(s, h) /\ h.phase = "answered"
      BY <1>1, <1>4, <2>1, <2>2, <2>4, <3>1, NoBodyIsBody, RespondsTo
    <3> QED
      BY <1>1, <3>2
  <2> QED
    BY <2>3, <2>4
<1>7. CASE Forward(s)
  <2>1. ~Replays(s)
    BY <1>7 DEF Forward, GoesUpstream, Replays
  <2>2. CASE slot' = [slot EXCEPT ![s].phase = "upstream"]
    <3> DEFINE h == [slot[s] EXCEPT !.phase = "upstream"]
    <3>1. /\ h \in HandlerType /\ h.phase = "upstream" /\ h.proxy = slot[s].proxy
          /\ h.req = slot[s].req /\ slot' = [slot EXCEPT ![s] = h]
      BY <1>2, <2>2 DEF HandlerType, Phases
    <3> QED
      BY <1>1, <2>1, <3>1 DEF HandlesTo
  <2>3. CASE Respond(s, Answer("unavailable", "none", NoBody))
    <3>1. \E h : HandlesTo(s, h) /\ h.phase = "answered"
      BY <1>1, <1>4, <2>1, <2>3, NoBodyIsBody, RespondsTo
    <3> QED
      BY <1>1, <3>1
  <2> QED
    BY <1>7, <2>2, <2>3 DEF Forward
<1>8. CASE UpstreamFails(s)
  <2>1. Respond(s, Answer("unavailable", "none", NoBody)) /\ ~Replays(s)
    BY <1>3, <1>8 DEF UpstreamFails, Ready, InPhase
  <2>2. \E h : HandlesTo(s, h) /\ h.phase = "answered"
    BY <1>1, <1>4, <2>1, NoBodyIsBody, RespondsTo
  <2> QED
    BY <1>1, <2>2
<1>9. ASSUME NEW u \in Replies, UpstreamReplies(s, u)
      PROVE  \E h : HandlesTo(s, h)
  <2>1. ~Replays(s) /\ Given(u) \in Bodies
    BY <1>3, <1>9, BodyFacts DEF UpstreamReplies, Ready, InPhase
  <2>2. CASE slot' = [slot EXCEPT ![s].phase = "writing", ![s].reply = u]
    <3> DEFINE mid == [slot[s] EXCEPT !.phase = "writing"]
               h == [mid EXCEPT !.reply = u]
    <3>1. mid \in HandlerType /\ mid.phase = "writing" /\ mid.proxy = slot[s].proxy
          /\ mid.req = slot[s].req
      BY <1>2 DEF HandlerType, Phases
    <3>2. slot' = [slot EXCEPT ![s] = h]
      BY <1>2, <2>2 DEF IInv, TypeOK, HandlerType
    <3> HIDE DEF mid
    <3>3. h \in HandlerType /\ h.phase = "writing" /\ h.proxy = slot[s].proxy /\ h.req = slot[s].req
      BY <2>1, <3>1 DEF HandlerType
    <3> QED
      BY <2>1, <3>2, <3>3 DEF HandlesTo
  <2>3. CASE Respond(s, Answer("secret", "none", NoBody))
    <3>1. \E h : HandlesTo(s, h) /\ h.phase = "answered"
      BY <1>1, <1>4, <2>1, <2>3, NoBodyIsBody, RespondsTo
    <3> QED
      BY <3>1
  <2>4. CASE \E status \in {"ok", "error"} : Respond(s, Answer(status, "upstream", Given(u)))
    <3>1. PICK status \in {"ok", "error"} : Respond(s, Answer(status, "upstream", Given(u)))
      BY <2>4
    <3>2. \E h : HandlesTo(s, h) /\ h.phase = "answered"
      BY <1>1, <1>4, <2>1, <3>1, RespondsTo
    <3> QED
      BY <3>2
  <2> QED
    BY <1>9, <2>2, <2>3, <2>4 DEF UpstreamReplies
<1> QED
  BY <1>1, <1>5, <1>6, <1>7, <1>8, <1>9

\* The append: the handler ends, and one transaction is added.
LEMMA CommitHandler ==
    ASSUME IInv, NEW s \in Slots, Commit(s)
    PROVE  /\ slot[s] # Free /\ slot[s].phase = "writing" /\ ~Replays(s)
           /\ Conf(s).mode = "record"
           /\ UNCHANGED <<config, hmac, source, severed, starts, sends>>
           /\ \E h : HandlesTo(s, h) /\ h.phase = "answered"
           /\ \E tx \in Txs : /\ cassette' = Append(cassette, tx)
                              /\ recorded' = recorded \cup {tx}
                              /\ tx.conf = Conf(s) /\ tx.hmac = hmac[slot[s].proxy]
<1>1. /\ slot[s] # Free /\ slot[s].phase = "writing" /\ Recorded(s)
      /\ UNCHANGED <<config, hmac, source, severed, starts, sends>>
  BY DEF Commit, InPhase
<1>2. Conf(s) # Down /\ Conf(s).mode = "record" /\ ~Replays(s)
  BY <1>1 DEF IInv, HandledWell, Replays
<1>3. slot[s].reply \in Replies /\ Given(slot[s].reply) \in Bodies
  BY <1>1, BodyFacts DEF IInv, HandledWell
<1>4. \E h : HandlesTo(s, h) /\ h.phase = "answered"
  <2>1. CASE Respond(s, Answer("ok", "upstream", Given(slot[s].reply)))
    BY <1>1, <1>2, <1>3, <2>1, RespondsTo DEF Statuses, Origins
  <2>2. CASE Respond(s, Answer("raised", "none", NoBody))
    BY <1>1, <1>2, <2>2, NoBodyIsBody, RespondsTo DEF Statuses, Origins
  <2> QED
    BY <2>1, <2>2 DEF Commit
<1> QED
  BY <1>1, <1>2, <1>3, <1>4, RecordedTx DEF IInv

-----------------------------------------------------------------------------
(* Which threads serve, and what is there before a launch *)

\* A step that changes no thread and gives no slot a request.
LEMMA ServesSame ==
    ASSUME ServesWell, UNCHANGED <<config, thread, listener>>,
           \A s \in Slots : slot'[s] # Free => slot[s] # Free /\ slot'[s].proxy = slot[s].proxy
    PROVE  ServesWell'
BY DEF ServesWell

\* A proxy ends with its handlers.
LEMMA StopsProxy ==
    ASSUME TypeOK, NEW p \in Proxies, Stop(p)
    PROVE  /\ config'[p] = Down /\ \A q \in Proxies \ {p} : config'[q] = config[q]
           /\ \A q \in Proxies \ {p} : source'[q] = source[q] /\ hmac'[q] = hmac[q]
           /\ \A s \in Slots :
                 slot'[s] = IF slot[s] # Free /\ slot[s].proxy = p THEN Free ELSE slot[s]
           /\ ~Blocked(p) /\ p \notin stamping => UNCHANGED <<cassette, recorded, severed>>
<1>1. slot' = SlotsWithout(p) /\ config' = [config EXCEPT ![p] = Down]
      /\ hmac' = [hmac EXCEPT ![p] = 0] /\ source' = [source EXCEPT ![p] = << >>]
  BY DEF Stop
<1>2. ~Blocked(p) /\ p \notin stamping => UNCHANGED <<cassette, recorded, severed>>
  BY DEF Stop, Blocked
<1> QED
  BY <1>1, <1>2 DEF TypeOK, SlotsWithout

\* A thread that ends.
LEMMA ServesStop ==
    ASSUME LifecycleInv, ServesWell, NEW p \in Proxies, Stop(p),
           thread' = [thread EXCEPT ![p] = "none"],
           \/ listener' = WithoutListener(p)
           \/ thread[p] = "binding" /\ UNCHANGED listener
    PROVE  ServesWell'
<1>1. /\ config'[p] = Down /\ \A q \in Proxies \ {p} : config'[q] = config[q]
      /\ \A s \in Slots : slot'[s] = IF slot[s] # Free /\ slot[s].proxy = p THEN Free ELSE slot[s]
  BY StopsProxy DEF LifecycleInv, IInv
<1>2. thread'[p] = "none" /\ \A q \in Proxies \ {p} : thread'[q] = thread[q]
  BY DEF LifecycleInv, OwnInv, OwnTypeOK
<1>3. \A port \in Ports : listener[port] \in Proxies \cup {NoProxy}
  BY DEF LifecycleInv, OwnInv, OwnTypeOK
<1>4. \A port \in Ports : listener'[port] # NoProxy =>
          listener'[port] = listener[port] /\ listener[port] # p
  BY <1>3 DEF WithoutListener, ServesWell
<1>5. \A s \in Slots : slot[s] # Free => slot[s].proxy \in Proxies
  BY SlotFacts DEF LifecycleInv, IInv
<1> QED
  BY <1>1, <1>2, <1>3, <1>4, <1>5 DEF ServesWell

LEMMA ServesBegin ==
    ASSUME LifecycleInv, ServesWell, NEW m \in Mains, Begin(m)
    PROVE  ServesWell'
<1>1. PICK p \in Proxies :
          /\ config[p] = Down /\ Start(p, main[m].conf)
          /\ thread' = [thread EXCEPT ![p] = "binding"] /\ UNCHANGED listener
  BY DEF Begin
<1>2. config' = [config EXCEPT ![p] = main[m].conf] /\ UNCHANGED slot
  BY <1>1 DEF Start
<1>3. thread'[p] = "binding" /\ \A q \in Proxies \ {p} : thread'[q] = thread[q]
  BY <1>1 DEF LifecycleInv, OwnInv, OwnTypeOK
<1>4. \A q \in Proxies \ {p} : config'[q] = config[q]
  BY <1>2 DEF LifecycleInv, IInv, TypeOK
<1>5. thread[p] = "none"
  BY <1>1 DEF ServesWell
<1>6. \A port \in Ports : listener[port] # NoProxy => listener[port] \in Proxies \ {p}
  BY <1>5 DEF ServesWell, LifecycleInv, OwnInv, OwnTypeOK
<1>7. \A s \in Slots : slot[s] # Free => slot[s].proxy \in Proxies \ {p}
  BY <1>5, SlotFacts DEF ServesWell, LifecycleInv, IInv
<1>8. \A q \in Proxies : config'[q] = Down => thread'[q] = "none"
  <2>1. config'[p] = main[m].conf /\ main[m].conf \in Configs
    BY <1>2 DEF LifecycleInv, IInv, TypeOK, OwnInv, OwnTypeOK, MainType
  <2> QED
    BY <1>3, <1>4, <2>1, HandlerAssumption DEF ServesWell
<1> QED
  BY <1>1, <1>2, <1>3, <1>6, <1>7, <1>8 DEF ServesWell

LEMMA ServesBind ==
    ASSUME LifecycleInv, ServesWell, NEW p \in Proxies, Bind(p)
    PROVE  ServesWell'
<1>1. CASE Stop(p) /\ thread' = [thread EXCEPT ![p] = "none"] /\ UNCHANGED listener
  BY <1>1, ServesStop DEF Bind
<1>2. ASSUME NEW port \in Ports, listener' = [listener EXCEPT ![port] = p],
             thread' = [thread EXCEPT ![p] = "serving"], UNCHANGED proxyVars
      PROVE  ServesWell'
  <2>1. thread'[p] = "serving" /\ \A q \in Proxies \ {p} : thread'[q] = thread[q]
    BY <1>2 DEF LifecycleInv, OwnInv, OwnTypeOK
  <2>2. \A o \in Ports : listener'[o] = IF o = port THEN p ELSE listener[o]
    BY <1>2 DEF LifecycleInv, OwnInv, OwnTypeOK
  <2>3. \A o \in Ports : listener[o] \in Proxies \cup {NoProxy}
    BY DEF LifecycleInv, OwnInv, OwnTypeOK
  <2>4. \A s \in Slots : slot[s] # Free => slot[s].proxy \in Proxies
    BY SlotFacts DEF LifecycleInv, IInv
  <2>5. thread[p] = "binding" /\ UNCHANGED <<config, slot>>
    BY <1>2 DEF Bind, proxyVars
  <2>6. config[p] # Down
    BY <2>5 DEF ServesWell
  <2> QED
    BY <2>1, <2>2, <2>3, <2>4, <2>5, <2>6 DEF ServesWell
<1>3. \A port : port \in {o \in Ports : listener[o] = NoProxy} => port \in Ports
  OBVIOUS
<1> QED
  BY <1>1, <1>2, <1>3 DEF Bind

LEMMA ServesCloses ==
    ASSUME LifecycleInv, ServesWell, NEW p \in Proxies, StopsListening(p)
    PROVE  ServesWell'
<1>1. /\ thread[p] = "serving" /\ thread' = [thread EXCEPT ![p] = "closing"]
      /\ listener' = WithoutListener(p) /\ UNCHANGED <<config, slot>>
  BY DEF StopsListening, proxyVars
<1>2. thread'[p] = "closing" /\ \A q \in Proxies \ {p} : thread'[q] = thread[q]
  BY <1>1 DEF LifecycleInv, OwnInv, OwnTypeOK
<1>3. \A port \in Ports : listener[port] \in Proxies \cup {NoProxy}
  BY DEF LifecycleInv, OwnInv, OwnTypeOK
<1>4. \A port \in Ports : listener'[port] # NoProxy =>
          listener'[port] = listener[port] /\ listener[port] # p
  BY <1>1, <1>3 DEF WithoutListener
<1>5. \A s \in Slots : slot[s] # Free => slot[s].proxy \in Proxies
  BY SlotFacts DEF LifecycleInv, IInv
<1>6. config[p] # Down
  BY <1>1 DEF ServesWell
<1> QED
  BY <1>1, <1>2, <1>3, <1>4, <1>5, <1>6 DEF ServesWell

\* A request goes to whoever listens on the port the child was told.
LEMMA SendsTo ==
    ASSUME LifecycleInv, NEW m \in Mains, NEW s \in Slots, NEW q \in Requests, ChildAsks(m, s, q),
           listener[main[m].port] # NoProxy
    PROVE  LET p == listener[main[m].port] IN
           /\ p \in Proxies /\ config[p] # Down
           /\ slot[s] = Free /\ slot'[s] = Handler(p, q, "received") /\ slot'[s] # Free
           /\ \A t \in Slots \ {s} : slot'[t] = slot[t]
           /\ UNCHANGED <<cassette, config, hmac, index, history, starts>>
           /\ main' = [main EXCEPT ![m].asks = s]
<1> DEFINE p == listener[main[m].port]
<1>1. p \in Proxies /\ Send(s, p, q) /\ main' = [main EXCEPT ![m].asks = s]
  BY WhoListens DEF ChildAsks, LifecycleInv
<1>2. Handler(p, q, "received") \in HandlerType
  BY <1>1, NoBodyIsBody DEF Handler, HandlerType, Phases, Answers, Answer, Statuses, Origins
<1>3. slot'[s] = Handler(p, q, "received") /\ \A t \in Slots \ {s} : slot'[t] = slot[t]
  BY <1>1 DEF Send, LifecycleInv, IInv, TypeOK
<1>4. slot'[s] # Free
  BY <1>2, <1>3, HandlerAssumption
<1> QED
  BY <1>1, <1>3, <1>4 DEF Send

\* A slot is free again.
LEMMA Collects ==
    ASSUME LifecycleInv, NEW s \in Slots, Collect(s)
    PROVE  /\ slot[s] # Free /\ slot[s].phase = "answered" /\ slot'[s] = Free
           /\ \A t \in Slots \ {s} : slot'[t] = slot[t]
           /\ UNCHANGED <<cassette, config, hmac, index, history, starts, sends>>
BY DEF Collect, InPhase, LifecycleInv, IInv, TypeOK

\* What a handler does to its slot, and to nothing else of the proxies.
LEMMA HandlersDo ==
    ASSUME LifecycleInv, Handlers
    PROVE  \E s \in Slots :
               /\ slot[s] # Free /\ slot[s].phase # "answered"
               /\ slot'[s] # Free /\ slot'[s].proxy = slot[s].proxy
               /\ \A t \in Slots \ {s} : slot'[t] = slot[t]
               /\ UNCHANGED <<config, hmac, source, severed, starts, sends>>
               /\ HandlesTo(s, slot'[s])
               /\ \/ UNCHANGED <<cassette, recorded>>
                  \/ /\ slot'[s].phase = "answered" /\ Conf(s).mode = "record"
                     /\ \E tx \in Txs : /\ cassette' = Append(cassette, tx)
                                        /\ recorded' = recorded \cup {tx}
                                        /\ tx.conf = Conf(s) /\ tx.hmac = hmac[slot[s].proxy]
<1>1. PICK s \in Slots : Progress(s) \/ \E u \in Replies : UpstreamReplies(s, u)
  BY DEF Handlers
<1>2. ASSUME NEW h, HandlesTo(s, h)
      PROVE  /\ slot'[s] = h /\ slot'[s] # Free /\ slot'[s].proxy = slot[s].proxy
             /\ \A t \in Slots \ {s} : slot'[t] = slot[t]
             /\ HandlesTo(s, slot'[s])
  <2>1. slot'[s] = h /\ \A t \in Slots \ {s} : slot'[t] = slot[t]
    BY <1>2 DEF HandlesTo, LifecycleInv, IInv, TypeOK
  <2> QED
    BY <1>2, <2>1, HandlerAssumption DEF HandlesTo
<1>3. CASE Commit(s)
  <2>1. PICK h : HandlesTo(s, h) /\ h.phase = "answered"
    BY <1>3, CommitHandler DEF LifecycleInv
  <2>2. /\ slot[s] # Free /\ slot[s].phase = "writing" /\ Conf(s).mode = "record"
        /\ UNCHANGED <<config, hmac, source, severed, starts, sends>>
        /\ \E tx \in Txs : /\ cassette' = Append(cassette, tx)
                           /\ recorded' = recorded \cup {tx}
                           /\ tx.conf = Conf(s) /\ tx.hmac = hmac[slot[s].proxy]
    BY <1>3, CommitHandler DEF LifecycleInv
  <2>3. /\ slot'[s] = h /\ slot'[s] # Free /\ slot'[s].proxy = slot[s].proxy
        /\ \A t \in Slots \ {s} : slot'[t] = slot[t]
        /\ HandlesTo(s, slot'[s])
    BY <1>2, <2>1
  <2> QED
    BY <2>1, <2>2, <2>3
<1>4. CASE \/ ServeModels(s) \/ ServeReplay(s) \/ Forward(s) \/ UpstreamFails(s)
           \/ \E u \in Replies : UpstreamReplies(s, u)
  <2>1. PICK h : HandlesTo(s, h)
    BY <1>4, QuietHandler DEF LifecycleInv
  <2>2. /\ slot[s] # Free /\ slot[s].phase # "answered"
        /\ UNCHANGED <<cassette, config, hmac, source, severed, recorded, starts, sends>>
    BY <1>4, QuietHandler DEF LifecycleInv, history
  <2>3. /\ slot'[s] = h /\ slot'[s] # Free /\ slot'[s].proxy = slot[s].proxy
        /\ \A t \in Slots \ {s} : slot'[t] = slot[t]
        /\ HandlesTo(s, slot'[s])
    BY <1>2, <2>1
  <2> QED
    BY <2>2, <2>3
<1> QED
  BY <1>1, <1>3, <1>4 DEF Progress

Launches(m) == LaunchDemo(m) \/ \E c \in Configs, wanted \in RunPorts : LaunchRun(m, c, wanted)

LEMMA ServesStep ==
    ASSUME LifecycleInv, ServesWell, [NextLifecycle]_allVars
    PROVE  ServesWell'
<1>1. CASE UNCHANGED <<config, thread, listener, slot>>
  BY <1>1, ServesSame
<1>2. ASSUME NEW m \in Mains, Launches(m) \/ GivesUp(m) \/ Interrupt(m)
                              \/ \E code \in {"zero", "nonzero"} : ChildExits(m, code)
      PROVE  ServesWell'
  BY <1>1, <1>2 DEF Launches, LaunchDemo, LaunchRun, GivesUp, Interrupt, ChildExits, proxyVars
<1>3. ASSUME NEW m \in Mains, Advance(m)
      PROVE  ServesWell'
  <2>1. ASSUME NEW p \in Proxies, Reap(m, p) PROVE ServesWell'
    BY <2>1, ServesStop DEF Reap
  <2>2. CASE PortKnown(m) \/ SeesThread(m) \/ GetsHealth(m) \/ Join(m) \/ Ends(m)
    BY <1>1, <2>2 DEF PortKnown, SeesThread, GetsHealth, Join, Ends, proxyVars
  <2> QED
    BY <1>3, <2>1, <2>2, ServesBegin DEF Advance
<1>4. ASSUME NEW m \in Mains, NEW s \in Slots, NEW q \in Requests, ChildAsks(m, s, q)
      PROVE  ServesWell'
  <2>1. CASE listener[main[m].port] = NoProxy
    BY <1>1, <1>4, <2>1 DEF ChildAsks, proxyVars
  <2>2. CASE listener[main[m].port] # NoProxy
    <3>1. slot'[s] = Handler(listener[main[m].port], q, "received")
          /\ (\A t \in Slots \ {s} : slot'[t] = slot[t]) /\ UNCHANGED config
      BY <1>4, <2>2, SendsTo
    <3>2. slot'[s].proxy = listener[main[m].port]
      BY <3>1 DEF Handler
    <3>3. UNCHANGED <<thread, listener>> /\ main[m].port \in Ports
      BY <1>4 DEF ChildAsks, At, LifecycleInv, OwnInv, TriesWell, Trying
    <3> QED
      BY <2>2, <3>1, <3>2, <3>3 DEF ServesWell
  <2> QED
    BY <2>1, <2>2
<1>5. ASSUME NEW s \in Slots, Collect(s), UNCHANGED <<thread, listener>>
      PROVE  ServesWell'
  BY <1>5, Collects, ServesSame
<1>6. ASSUME NEW m \in Mains, ChildHears(m)
      PROVE  ServesWell'
  <2>1. main[m].asks \in Slots /\ UNCHANGED <<thread, listener>>
    BY <1>6 DEF ChildHears, LifecycleInv, OwnInv, OwnTypeOK, MainType
  <2> QED
    BY <1>1, <1>5, <1>6, <2>1 DEF ChildHears, proxyVars
<1>7. ASSUME NEW p \in Proxies, ServerThread(p)
      PROVE  ServesWell'
  <2>1. CASE ThreadEnds(p)
    BY <2>1, ServesStop DEF ThreadEnds
  <2> QED
    BY <1>7, <2>1, ServesBind, ServesCloses DEF ServerThread
<1>8. CASE Handlers
  <2>1. UNCHANGED <<config, thread, listener>>
    BY <1>8, HandlersDo DEF Handlers, ownVars
  <2>2. PICK s \in Slots : /\ slot[s] # Free /\ slot'[s].proxy = slot[s].proxy
                           /\ \A t \in Slots \ {s} : slot'[t] = slot[t]
    BY <1>8, HandlersDo
  <2> QED
    BY <2>1, <2>2, ServesSame
<1>9. ASSUME NEW s \in Slots, Dropped(s)
      PROVE  ServesWell'
  BY <1>5, <1>9 DEF Dropped, ownVars
<1>10. CASE UNCHANGED allVars
  BY <1>1, <1>10 DEF allVars, proxyVars, ownVars
<1> QED
  BY <1>2, <1>3, <1>4, <1>6, <1>7, <1>8, <1>9, <1>10 DEF NextLifecycle, Launches

\* Only a launch counts as one.
LEMMA LaunchesCount ==
    ASSUME LifecycleInv, NextLifecycle, \A m \in Mains : ~Launches(m)
    PROVE  UNCHANGED launches
<1>1. ASSUME NEW p \in Proxies, ServerThread(p) PROVE UNCHANGED launches
  BY <1>1 DEF ServerThread, Bind, StopsListening, ThreadEnds
<1>2. CASE Handlers \/ \E s \in Slots : Dropped(s)
  BY <1>2 DEF Handlers, Dropped, ownVars
<1>3. ASSUME NEW m \in Mains, Advance(m) PROVE UNCHANGED launches
  BY <1>3 DEF Advance, Begin, PortKnown, SeesThread, GetsHealth, Join, Reap, Ends
<1>4. ASSUME NEW m \in Mains,
             \/ GivesUp(m)
             \/ Interrupt(m)
             \/ \E s \in Slots, r \in Requests : ChildAsks(m, s, r)
             \/ ChildHears(m)
             \/ \E code \in {"zero", "nonzero"} : ChildExits(m, code)
      PROVE  UNCHANGED launches
  BY <1>4 DEF GivesUp, Interrupt, ChildAsks, ChildHears, ChildExits
<1> QED
  BY <1>1, <1>2, <1>3, <1>4 DEF NextLifecycle, Launches

\* Nobody but who is launched does anything before a launch.
LEMMA NothingYet ==
    ASSUME LifecycleInv, ServesWell, Fresh, launches = 0, NextLifecycle
    PROVE  \E m \in Mains : Launches(m)
<1>1. /\ \A m \in Mains : main[m].stage = "idle"
      /\ \A p \in Proxies : thread[p] = "none"
  BY WaitingFacts DEF Fresh, ServesWell
<1>2. \A s \in Slots : slot[s] = Free
  BY SlotFacts DEF Fresh, LifecycleInv, IInv, HandledWell, Conf
<1>3. ASSUME NEW p \in Proxies, ServerThread(p) PROVE FALSE
  BY <1>1, <1>3 DEF ServerThread, Bind, StopsListening, ThreadEnds
<1>4. CASE Handlers
  BY <1>2, <1>4, HandlersDo
<1>5. ASSUME NEW s \in Slots, Dropped(s) PROVE FALSE
  BY <1>2, <1>5, Collects DEF Dropped
<1>6. ASSUME NEW m \in Mains, Advance(m) PROVE FALSE
  BY <1>1, <1>6 DEF Advance, Begin, PortKnown, SeesThread, GetsHealth, Join, Reap, Ends, At
<1>7. ASSUME NEW m \in Mains,
             \/ GivesUp(m)
             \/ Interrupt(m)
             \/ \E s \in Slots, r \in Requests : ChildAsks(m, s, r)
             \/ ChildHears(m)
             \/ \E code \in {"zero", "nonzero"} : ChildExits(m, code)
      PROVE  FALSE
  BY <1>1, <1>7 DEF GivesUp, DeadlineOver, Interrupt, ChildAsks, ChildHears, ChildExits, At, Trying
<1> QED
  BY <1>3, <1>4, <1>5, <1>6, <1>7 DEF NextLifecycle, Launches

LEMMA FreshStep ==
    ASSUME LifecycleInv, ServesWell, Fresh, [NextLifecycle]_allVars
    PROVE  Fresh'
<1>1. ASSUME NEW m \in Mains, Launches(m) PROVE Fresh'
  <2>1. launches' = launches + 1
    BY <1>1 DEF Launches, LaunchDemo, LaunchRun
  <2> QED
    BY <2>1 DEF Fresh
<1>2. CASE NextLifecycle /\ \A m \in Mains : ~Launches(m)
  <2>1. launches # 0 /\ UNCHANGED launches
    BY <1>2, NothingYet, LaunchesCount
  <2> QED
    BY <2>1 DEF Fresh
<1>3. CASE UNCHANGED allVars
  BY <1>3 DEF Fresh, allVars, proxyVars, ownVars
<1> QED
  BY <1>1, <1>2, <1>3

-----------------------------------------------------------------------------
(* Steps of the one process that change its record alone *)

Others(m) == \A n \in Mains \ {m} : main'[n] = main[n]

LEMMA LeavesFacts ==
    ASSUME OwnTypeOK, NEW m \in Mains, main[m].job = "demo", NEW code, Leaves(m, code)
    PROVE  /\ Others(m) /\ main'[m].stage = "join" /\ main'[m].asks = NoSlot
           /\ main'[m].code = code /\ main'[m].conf = main[m].conf
           /\ main'[m].recordings = main[m].recordings /\ main'[m].heard = main[m].heard
BY DEF Leaves, OwnTypeOK, MainType, Others

LEMMA AgainFacts ==
    ASSUME OwnTypeOK, NEW m \in Mains, NEW conf, NEW more \in {0, 1},
           main' = [main EXCEPT ![m].stage = "begin", ![m].conf = conf, ![m].recordings = @ + more,
                                ![m].heard = "nothing", ![m].code = "none"]
    PROVE  /\ Others(m) /\ main'[m].stage = "begin" /\ main'[m].asks = main[m].asks
           /\ main'[m].code = "none" /\ main'[m].conf = conf
           /\ main'[m].recordings = main[m].recordings + more /\ main'[m].heard = "nothing"
BY DEF OwnTypeOK, MainType, Others

\* Nothing about the handlers changes with the proxies unchanged.
LEMMA QuietProxies ==
    ASSUME UNCHANGED proxyVars
    PROVE  ToAppend' = ToAppend
BY DEF proxyVars, ToAppend, Conf

\* The process goes on within the try block, or leaves it.
LEMMA MainMoves ==
    ASSUME LifecycleInv, NEW m \in Mains, DemoParts(m), Others(m), UNCHANGED proxyVars,
           main'[m].conf = main[m].conf, main'[m].recordings = main[m].recordings,
           main'[m].heard = main[m].heard,
           main[m].stage \in Trying,
           \/ /\ main'[m].stage \in {"alive", "get", "child"} /\ main[m].stage # "child"
              /\ main'[m].proxy = main[m].proxy
              /\ main'[m].asks = main[m].asks /\ main'[m].code = main[m].code
           \/ /\ main'[m].stage = "join" /\ main'[m].asks = NoSlot
              /\ main'[m].code = "zero" => main[m].heard \notin {"nothing", "bad"}
    PROVE  DemoParts(m)'
<1>1. UNCHANGED <<cassette, config, hmac, slot, source, recorded, severed>> /\ ToAppend' = ToAppend
  BY QuietProxies DEF proxyVars, history
<1>2. AsksWell(m)'
  BY <1>1 DEF DemoParts, AsksWell, Own, Trying
<1>3. RunsWell(m)'
  BY <1>1 DEF DemoParts, RunsWell, Own, Trying, Others, Conf
<1>4. Pending(m)' = Pending(m) \/ Pending(m)' = Cardinality(ToAppend)
  <2>1. MayAsk(m)' => MayAsk(m)
    BY DEF MayAsk, Trying
  <2>2. Pending(m)' = Cardinality(ToAppend) + (IF MayAsk(m)' THEN 1 ELSE 0)
    BY <1>1 DEF Pending
  <2>3. CASE MayAsk(m)'
    BY <2>1, <2>2, <2>3 DEF Pending
  <2>4. CASE ~MayAsk(m)'
    <3>1. Cardinality(ToAppend) \in Nat
      BY FS_CardinalityType DEF DemoParts, RecordsWell
    <3> QED
      BY <2>2, <2>4, <3>1
  <2> QED
    BY <2>3, <2>4
<1>5. RecordsWell(m)'
  <2>1. Cardinality(ToAppend) \in Nat /\ Len(cassette) \in Nat /\ main[m].recordings \in Nat
    BY FS_CardinalityType DEF DemoParts, RecordsWell, LifecycleInv, IInv, TypeOK
  <2>2. Pending(m) \in Nat /\ Cardinality(ToAppend) <= Pending(m)
    BY <2>1 DEF Pending
  <2> QED
    BY <1>1, <1>4, <2>1, <2>2 DEF DemoParts, RecordsWell
<1>6. ReplaysWell(m)' /\ NoReplayYet(m)'
  BY <1>1 DEF DemoParts, ReplaysWell, NoReplayYet, Conf
<1> QED
  BY <1>2, <1>3, <1>5, <1>6 DEF DemoParts

\* Every step between the start of the server and its stop but for what the child
\* asks and hears.
LEMMA DemoMoves ==
    ASSUME LifecycleInv, NEW m \in Mains, Alone(m), DemoParts(m),
           \/ PortKnown(m) \/ SeesThread(m) \/ GetsHealth(m) \/ GivesUp(m) \/ Interrupt(m)
           \/ \E code \in {"zero", "nonzero"} : ChildExits(m, code)
    PROVE  DemoParts(m)'
<1>1. OwnTypeOK /\ main[m].job = "demo" /\ main[m] \in MainType
  BY DEF LifecycleInv, OwnInv, OwnTypeOK, Alone
<1>2. UNCHANGED proxyVars /\ main[m].stage \in Trying
  BY DEF PortKnown, SeesThread, GetsHealth, GivesUp, DeadlineOver, Interrupt, ChildExits, At, Trying
<1>3. ASSUME NEW code \in {"raised", "zero", "nonzero"}, Leaves(m, code),
             code = "zero" => main[m].heard \notin {"nothing", "bad"}
      PROVE  DemoParts(m)'
  BY <1>1, <1>2, <1>3, LeavesFacts, MainMoves
<1>4. ASSUME NEW stage \in {"alive", "get", "child"}, Goes(m, stage), main[m].stage # "child"
      PROVE  DemoParts(m)'
  <2>1. /\ Others(m) /\ main'[m].stage = stage /\ main'[m].conf = main[m].conf
        /\ main'[m].recordings = main[m].recordings /\ main'[m].heard = main[m].heard
        /\ main'[m].proxy = main[m].proxy /\ main'[m].asks = main[m].asks
        /\ main'[m].code = main[m].code
    BY <1>1, <1>4 DEF Goes, OwnTypeOK, MainType, Others
  <2> QED
    BY <1>2, <1>4, <2>1, MainMoves
<1>5. CASE PortKnown(m)
  <2>1. PICK port : main' = [main EXCEPT ![m].stage = "alive", ![m].port = port]
    BY <1>5 DEF PortKnown
  <2>2. /\ Others(m) /\ main'[m].stage = "alive" /\ main'[m].conf = main[m].conf
        /\ main'[m].recordings = main[m].recordings /\ main'[m].heard = main[m].heard
        /\ main'[m].proxy = main[m].proxy /\ main'[m].asks = main[m].asks
        /\ main'[m].code = main[m].code
    BY <1>1, <2>1 DEF OwnTypeOK, MainType, Others
  <2>3. main[m].stage # "child"
    BY <1>5 DEF PortKnown, At
  <2> QED
    BY <1>2, <2>2, <2>3, MainMoves
<1>6. CASE SeesThread(m) \/ GetsHealth(m)
  BY <1>3, <1>4, <1>6 DEF SeesThread, GetsHealth, At
<1>7. CASE GivesUp(m) \/ Interrupt(m)
  BY <1>3, <1>7 DEF GivesUp, Interrupt
<1>8. ASSUME NEW code \in {"zero", "nonzero"}, ChildExits(m, code)
      PROVE  DemoParts(m)'
  <2>1. Leaves(m, code) /\ (code = "zero" => main[m].heard \notin {"nothing", "bad"})
    BY <1>1, <1>8 DEF ChildExits, MaySucceed
  <2> QED
    BY <1>3, <2>1
<1> QED
  BY <1>5, <1>6, <1>7, <1>8

\* After a recording the demo replays, or records once more.
LEMMA DemoJoins ==
    ASSUME LifecycleInv, NEW r, AgentAsks(r), NEW m \in Mains, Alone(m), DemoParts(m), Join(m),
           Alone(m)'
    PROVE  DemoParts(m)'
<1>1. OwnTypeOK /\ main[m].job = "demo" /\ main[m].stage = "join"
      /\ main[m].asks = NoSlot /\ UNCHANGED proxyVars
  BY DEF LifecycleInv, OwnInv, Alone, DemoParts, AsksWell, Join, At
<1>2. ~Ending(m)
  <2> SUFFICES ASSUME Ending(m) PROVE main'[m].job = "none"
    BY DEF Alone
  <2> QED
    BY <1>1, WaitingFacts DEF Ending, OwnTypeOK, MainType, Jobs, Stages, Waiting
<1>3. PICK conf \in {DemoRecord, DemoReplay}, more \in {0, 1} :
          /\ main' = [main EXCEPT ![m].stage = "begin", ![m].conf = conf, ![m].recordings = @ + more,
                                  ![m].heard = "nothing", ![m].code = "none"]
          /\ main[m].conf = DemoRecord
          /\ \/ conf = DemoReplay /\ main[m].code = "zero" /\ more = 0
             \/ conf = DemoRecord /\ more = 1
  BY <1>1, <1>2 DEF Join
<1>4. /\ Others(m) /\ main'[m].stage = "begin" /\ main'[m].asks = NoSlot
      /\ main'[m].code = "none" /\ main'[m].conf = conf
      /\ main'[m].recordings = main[m].recordings + more /\ main'[m].heard = "nothing"
  <2>1. main' = [main EXCEPT ![m].stage = "begin", ![m].conf = conf, ![m].recordings = @ + more,
                             ![m].heard = "nothing", ![m].code = "none"]
    BY <1>3
  <2>2. more \in {0, 1} /\ main[m].asks = NoSlot
    BY <1>1
  <2> QED
    BY <1>1, <2>1, <2>2, AgainFacts, Zenon
<1>5. UNCHANGED <<cassette, config, hmac, slot, source, recorded, severed>> /\ ToAppend' = ToAppend
  BY <1>1, QuietProxies DEF proxyVars, history
<1>6. DemoRecord # DemoReplay
  BY DEF AgentAsks
<1>7. RunsWell(m)' /\ AsksWell(m)'
  BY <1>4, <1>5 DEF DemoParts, RunsWell, AsksWell, Own, Trying, Others, Conf
<1>8. RecordsWell(m)'
  <2>1. Cardinality(ToAppend) \in Nat /\ Len(cassette) \in Nat /\ main[m].recordings \in Nat
    BY FS_CardinalityType DEF DemoParts, RecordsWell, LifecycleInv, IInv, TypeOK
  <2>2. Pending(m) = Cardinality(ToAppend)
    BY <1>1, <2>1 DEF Pending, MayAsk, Trying
  <2>3. Pending(m)' = Cardinality(ToAppend) + (IF conf = DemoRecord THEN 1 ELSE 0)
    BY <1>4, <1>5 DEF Pending, MayAsk, Trying
  <2>4. conf = DemoReplay => cassette # << >>
    BY <1>3, <1>6 DEF DemoParts, RunsWell, AsksWell, RecordsWell
  <2> QED
    BY <1>3, <1>4, <1>5, <1>6, <2>1, <2>2, <2>3, <2>4 DEF DemoParts, RecordsWell
<1>9. ReplaysWell(m)' /\ NoReplayYet(m)'
  <2>1. \A p \in Proxies : config[p] # DemoReplay
    BY <1>3 DEF DemoParts, NoReplayYet
  <2>2. \A s \in Slots : slot[s] # Free => slot[s].proxy \in Proxies
    BY SlotFacts DEF LifecycleInv, IInv
  <2> QED
    BY <1>4, <1>5, <2>1, <2>2 DEF ReplaysWell, NoReplayYet, Conf
<1> QED
  BY <1>7, <1>8, <1>9 DEF DemoParts

-----------------------------------------------------------------------------
(* Steps of its proxies *)

LEMMA DemoQuiet ==
    ASSUME NEW m \in Mains, DemoParts(m), UNCHANGED <<proxyVars, main>>
    PROVE  DemoParts(m)'
<1>1. UNCHANGED <<cassette, config, hmac, slot, source, recorded, severed, main>> /\ ToAppend' = ToAppend
  BY QuietProxies DEF proxyVars, history
<1>2. RunsWell(m)' /\ AsksWell(m)'
  BY <1>1 DEF DemoParts, RunsWell, AsksWell, Own, Conf
<1>3. RecordsWell(m)'
  BY <1>1 DEF DemoParts, RecordsWell, Pending, MayAsk
<1>4. ReplaysWell(m)' /\ NoReplayYet(m)'
  BY <1>1 DEF DemoParts, ReplaysWell, NoReplayYet, Conf
<1> QED
  BY <1>2, <1>3, <1>4 DEF DemoParts

\* What the proofs about the handlers need of each of them.
LEMMA SlotOfDemo ==
    ASSUME LifecycleInv, NEW s \in Slots, slot[s] # Free
    PROVE  /\ slot[s].proxy \in Proxies /\ slot[s].req \in Requests /\ Conf(s) # Down
           /\ slot[s].phase = "writing" => Conf(s).mode = "record"
BY SlotFacts DEF LifecycleInv, IInv, HandledWell

\* No command here is `run --free record`, so nobody writes a test stack.
LEMMA NothingStamped ==
    ASSUME LifecycleInv
    PROVE  stamping = {}
BY LifecycleAssumption DEF LifecycleInv, IInv, TypeOK, StampsWell

\* The demo's only recording is written, and nothing more is to be appended.
LEMMA NothingPending ==
    ASSUME LifecycleInv, NEW m \in Mains, DemoParts(m),
           main[m].conf = DemoReplay, main[m].recordings = 1
    PROVE  ToAppend = {} /\ Len(cassette) = 1 /\ ~Appending
<1>1. Cardinality(ToAppend) \in Nat /\ Len(cassette) \in Nat /\ Len(cassette) # 0
      /\ IsFiniteSet(ToAppend)
  BY FS_CardinalityType DEF DemoParts, RecordsWell, LifecycleInv, IInv, TypeOK
<1>2. Cardinality(ToAppend) <= Pending(m)
  BY <1>1 DEF Pending
<1>3. Pending(m) \in Nat
  BY <1>1 DEF Pending
<1>4. Cardinality(ToAppend) = 0 /\ Len(cassette) = 1
  <2>1. Len(cassette) + Pending(m) <= 1
    BY DEF DemoParts, RecordsWell
  <2> DEFINE appends == Cardinality(ToAppend)
             pending == Pending(m)
             length == Len(cassette)
  <2>2. /\ appends \in Nat /\ pending \in Nat /\ length \in Nat /\ length # 0
        /\ appends <= pending /\ length + pending <= 1
    BY <1>1, <1>2, <1>3, <2>1
  <2> HIDE DEF appends, pending, length
  <2>3. appends = 0 /\ length = 1
    BY <2>2
  <2> QED
    BY <2>3 DEF appends, length
<1>5. ToAppend = {}
  BY <1>1, <1>4, FS_EmptySet
<1> QED
  BY <1>4, <1>5, SlotOfDemo, NothingStamped DEF ToAppend, Appending, InPhase

\* A replay that begins after the only recording finds it.
LEMMA DemoBegins ==
    ASSUME LifecycleInv, NEW r, AgentAsks(r), NEW m \in Mains, DemoParts(m), Begin(m)
    PROVE  DemoParts(m)'
<1>1. PICK p \in Proxies :
          /\ config[p] = Down /\ Start(p, main[m].conf)
          /\ main' = [main EXCEPT ![m].stage = "port", ![m].proxy = p]
  BY DEF Begin
<1>2. main[m].stage = "begin" /\ main[m].asks = NoSlot /\ main[m].heard = "nothing"
  BY DEF Begin, At, DemoParts, AsksWell
<1>3. /\ Others(m) /\ main'[m].stage = "port" /\ main'[m].proxy = p
      /\ main'[m].conf = main[m].conf /\ main'[m].asks = main[m].asks
      /\ main'[m].recordings = main[m].recordings /\ main'[m].heard = main[m].heard
      /\ main'[m].code = main[m].code
  BY <1>1 DEF LifecycleInv, OwnInv, OwnTypeOK, MainType, Others
<1>4. PICK log \in {cassette} \cup (IF Appending THEN {<< >>} ELSE {}) :
          source' = [source EXCEPT ![p] = log]
  BY <1>1 DEF Start, Readable
<1>5. /\ config'[p] = main[m].conf /\ source'[p] = log
      /\ \A q \in Proxies \ {p} : config'[q] = config[q] /\ source'[q] = source[q]
      /\ UNCHANGED <<cassette, slot, recorded, severed>>
  BY <1>1, <1>4 DEF Start, LifecycleInv, IInv, TypeOK
<1>6. \A s \in Slots : slot[s] # Free => slot[s].proxy \in Proxies \ {p} /\ Conf(s)' = Conf(s)
  BY <1>1, <1>5, SlotOfDemo DEF Conf
<1>7. ToAppend' = ToAppend
  BY <1>5, <1>6 DEF ToAppend
<1>8. MayAsk(m)' = MayAsk(m) /\ Pending(m)' = Pending(m)
  BY <1>2, <1>3, <1>7 DEF MayAsk, Pending, Trying
<1>9. RunsWell(m)' /\ AsksWell(m)'
  BY <1>2, <1>3, <1>5, <1>6 DEF DemoParts, RunsWell, AsksWell, Own, Trying, Others
<1>10. RecordsWell(m)'
  BY <1>3, <1>5, <1>7, <1>8 DEF DemoParts, RecordsWell
<1>11. ReplaysWell(m)'
  <2> SUFFICES ASSUME main[m].conf = DemoReplay, main[m].recordings = 1 PROVE ReplaysWell(m)'
    BY <1>3 DEF ReplaysWell
  <2>1. log # << >>
    BY NothingPending DEF DemoParts, RecordsWell
  <2> QED
    BY <1>2, <1>3, <1>5, <1>6, <2>1 DEF DemoParts, ReplaysWell
<1>12. NoReplayYet(m)'
  BY <1>3, <1>5 DEF DemoParts, NoReplayYet, AgentAsks
<1> QED
  BY <1>9, <1>10, <1>11, <1>12 DEF DemoParts

\* A proxy stops whose handlers have all answered.
LEMMA DemoStops ==
    ASSUME LifecycleInv, NEW m \in Mains, DemoParts(m), NEW p \in Proxies, Stop(p),
           UNCHANGED main,
           \A s \in Slots : slot[s] # Free /\ slot[s].proxy = p =>
               slot[s].phase = "answered" /\ main[m].asks # s,
           main[m].asks \in Slots \cup {NoSlot}
    PROVE  DemoParts(m)'
<1>1. /\ config'[p] = Down /\ \A q \in Proxies \ {p} : config'[q] = config[q]
      /\ \A q \in Proxies \ {p} : source'[q] = source[q]
      /\ \A s \in Slots : slot'[s] = IF slot[s] # Free /\ slot[s].proxy = p THEN Free ELSE slot[s]
      /\ UNCHANGED <<cassette, recorded, severed>>
  BY StopsProxy, NothingStamped DEF LifecycleInv, IInv, Blocked, InPhase
<1>2. \A s \in Slots : slot'[s] # Free =>
          /\ slot[s] # Free /\ slot'[s] = slot[s] /\ slot[s].proxy \in Proxies \ {p}
          /\ Conf(s)' = Conf(s)
  BY <1>1, SlotOfDemo DEF Conf
<1>3. ToAppend' = ToAppend
  BY <1>1, <1>2 DEF ToAppend
<1>4. Pending(m)' = Pending(m)
  BY <1>3 DEF Pending, MayAsk
<1>5. RunsWell(m)'
  <2>1. \A q \in Proxies : config'[q] \in {Down, config[q]}
    BY <1>1
  <2>2. main[m].stage \in Trying => config'[Own(m)] \in {Down, main[m].conf}
    BY <2>1 DEF DemoParts, RunsWell, LifecycleInv, OwnInv, TriesWell
  <2> QED
    BY <1>1, <1>2, <2>1, <2>2 DEF DemoParts, RunsWell, Own
<1>6. AsksWell(m)'
  BY <1>1 DEF DemoParts, AsksWell, Own
<1>7. RecordsWell(m)'
  BY <1>1, <1>3, <1>4 DEF DemoParts, RecordsWell
<1>8. ReplaysWell(m)'
  <2>1. DemoReplay # Down
    BY LifecycleAssumption, HandlerAssumption
  <2> QED
    BY <1>1, <1>2, <2>1 DEF DemoParts, ReplaysWell
<1>9. NoReplayYet(m)'
  <2>1. DemoReplay # Down
    BY LifecycleAssumption, HandlerAssumption
  <2> QED
    BY <1>1, <2>1 DEF DemoParts, NoReplayYet
<1> QED
  BY <1>5, <1>6, <1>7, <1>8, <1>9 DEF DemoParts

LEMMA DemoServes ==
    ASSUME LifecycleInv, ServesWell, NEW m \in Mains, DemoParts(m), NEW p \in Proxies,
           ServerThread(p)
    PROVE  DemoParts(m)'
<1>1. main[m].asks \in Slots \cup {NoSlot} /\ UNCHANGED main
  BY DEF ServerThread, Bind, StopsListening, ThreadEnds, LifecycleInv, OwnInv, OwnTypeOK, MainType
<1>2. CASE ThreadEnds(p)
  <2>1. \A s \in Slots : slot[s] # Free /\ slot[s].proxy = p => slot[s].phase = "answered"
    BY <1>2 DEF ThreadEnds, HasHandler
  <2>2. main[m].asks # NoSlot => slot[main[m].asks].proxy # p
    BY <1>2 DEF ThreadEnds, ShouldExit, DemoParts, AsksWell, Trying
  <2>3. \A s \in Slots : slot[s] # Free /\ slot[s].proxy = p => main[m].asks # s
    BY <2>2, LifecycleAssumption
  <2>4. Stop(p)
    BY <1>2 DEF ThreadEnds
  <2> QED
    BY <1>1, <2>1, <2>3, <2>4, DemoStops
<1>3. CASE Bind(p)
  <2>1. \A s \in Slots : slot[s] # Free => slot[s].proxy # p
    BY <1>3 DEF Bind, ServesWell
  <2>2. Stop(p) \/ UNCHANGED proxyVars
    BY <1>3 DEF Bind
  <2> QED
    BY <1>1, <2>1, <2>2, DemoStops, DemoQuiet
<1>4. CASE StopsListening(p)
  BY <1>1, <1>4, DemoQuiet DEF StopsListening
<1> QED
  BY <1>2, <1>3, <1>4 DEF ServerThread

-----------------------------------------------------------------------------
(* Steps of its child and of its handlers *)

\* The request of a recording is counted from when it may be made.
LEMMA DemoAsks ==
    ASSUME LifecycleInv, NEW r, AgentAsks(r), NEW m \in Mains, Alone(m), DemoParts(m),
           NEW s \in Slots, NEW q \in Requests, ChildAsks(m, s, q)
    PROVE  DemoParts(m)'
<1> DEFINE p == listener[main[m].port]
<1>1. /\ main[m].stage = "child" /\ main[m].asks = NoSlot /\ main[m].heard = "nothing"
      /\ main[m] \in MainType
  BY DEF ChildAsks, At, LifecycleInv, OwnInv, OwnTypeOK
<1>2. p = Own(m) /\ p \in Proxies
  BY <1>1 DEF Alone, LifecycleInv, OwnInv, JobWell, TriesWell, Trying
<1>3. /\ config[p] # Down /\ slot[s] = Free /\ slot'[s] = Handler(p, q, "received") /\ slot'[s] # Free
      /\ \A t \in Slots \ {s} : slot'[t] = slot[t]
      /\ UNCHANGED <<cassette, config, hmac, source, recorded, severed>>
      /\ main' = [main EXCEPT ![m].asks = s]
  BY <1>2, SendsTo, LifecycleAssumption DEF history
<1>4. /\ Others(m) /\ main'[m].stage = "child" /\ main'[m].asks = s
      /\ main'[m].conf = main[m].conf /\ main'[m].proxy = main[m].proxy
      /\ main'[m].recordings = main[m].recordings /\ main'[m].heard = "nothing"
      /\ main'[m].code = main[m].code
  BY <1>1, <1>3 DEF LifecycleInv, OwnInv, OwnTypeOK, MainType, Others
<1>5. slot'[s].proxy = p /\ slot'[s].phase = "received" /\ Conf(s)' = main[m].conf
  BY <1>1, <1>2, <1>3 DEF Handler, Conf, DemoParts, RunsWell, Trying
<1>6. \A t \in Slots \ {s} : slot[t] # Free => Conf(t)' = Conf(t)
  BY <1>3 DEF Conf
<1>7. RunsWell(m)' /\ AsksWell(m)'
  BY <1>1, <1>2, <1>3, <1>4, <1>5, <1>6, LifecycleAssumption
  DEF DemoParts, RunsWell, AsksWell, Own, Trying, Others
<1>8. RecordsWell(m)'
  <2>1. IsFiniteSet(ToAppend) /\ s \notin ToAppend /\ Cardinality(ToAppend) \in Nat
    BY <1>3, FS_CardinalityType DEF DemoParts, RecordsWell, ToAppend
  <2>2. Cardinality(ToAppend') \in Nat => Pending(m)' = Cardinality(ToAppend')
    <3>1. ~MayAsk(m)'
      BY <1>4, LifecycleAssumption DEF MayAsk
    <3> QED
      BY <3>1 DEF Pending
  <2>3. CASE main[m].conf = DemoRecord
    <3>1. ToAppend' = ToAppend \cup {s}
      BY <1>3, <1>5, <1>6, <2>3 DEF ToAppend, AgentAsks
    <3>2. IsFiniteSet(ToAppend') /\ Cardinality(ToAppend') = Cardinality(ToAppend) + 1
      BY <2>1, <3>1, FS_AddElement
    <3>3. Pending(m) = Cardinality(ToAppend) + 1
      BY <1>1, <2>3 DEF Pending, MayAsk, Trying
    <3>4. Pending(m)' = Pending(m)
      BY <2>1, <2>2, <3>2, <3>3
    <3> QED
      BY <1>3, <1>4, <2>3, <3>2, <3>4 DEF DemoParts, RecordsWell
  <2>4. CASE main[m].conf = DemoReplay
    <3>1. ToAppend' = ToAppend
      BY <1>3, <1>5, <1>6, <2>4 DEF ToAppend, AgentAsks
    <3>2. Pending(m) = Cardinality(ToAppend)
      BY <2>1, <2>4 DEF Pending, MayAsk, AgentAsks
    <3>3. Pending(m)' = Pending(m)
      BY <2>1, <2>2, <3>1, <3>2
    <3> QED
      BY <1>3, <1>4, <2>1, <2>4, <3>1, <3>3 DEF DemoParts, RecordsWell
  <2> QED
    BY <2>3, <2>4 DEF DemoParts, RunsWell
<1>9. ReplaysWell(m)' /\ NoReplayYet(m)'
  BY <1>3, <1>4, <1>5, <1>6 DEF DemoParts, ReplaysWell, NoReplayYet
<1> QED
  BY <1>7, <1>8, <1>9 DEF DemoParts

\* The child hears what it was answered: of a recording that it is in the cassette.
LEMMA DemoHears ==
    ASSUME LifecycleInv, NEW r, AgentAsks(r), NEW m \in Mains, Alone(m), DemoParts(m), ChildHears(m)
    PROVE  DemoParts(m)'
<1> DEFINE s == main[m].asks
<1>1. /\ main[m].stage = "child" /\ s \in Slots /\ main[m].job = "demo" /\ slot[s] # Free
      /\ main[m].heard = "nothing" /\ slot[s].proxy = Own(m) /\ slot[s].phase = "answered"
  BY DEF ChildHears, At, InPhase, Alone, DemoParts, AsksWell, LifecycleInv, OwnInv, OwnTypeOK, MainType
<1>2. Collect(s)
  BY <1>1 DEF ChildHears
<1>3. /\ slot'[s] = Free /\ \A t \in Slots \ {s} : slot'[t] = slot[t]
      /\ UNCHANGED <<cassette, config, hmac, source, recorded, severed>>
  BY <1>1, <1>2, Collects DEF history
<1>4. PICK h : /\ h = IF slot[s].answer.status # "ok" THEN "bad" ELSE slot[s].answer.from
               /\ main' = [main EXCEPT ![m].asks = NoSlot, ![m].heard = h]
  BY <1>1 DEF ChildHears
<1>5. /\ Others(m) /\ main'[m].stage = "child" /\ main'[m].asks = NoSlot
      /\ main'[m].conf = main[m].conf /\ main'[m].proxy = main[m].proxy
      /\ main'[m].recordings = main[m].recordings /\ main'[m].heard = h
      /\ main'[m].code = main[m].code
  BY <1>1, <1>4 DEF LifecycleInv, OwnInv, OwnTypeOK, MainType, Others
<1>6. Conf(s) = main[m].conf
  BY <1>1, SlotOfDemo DEF Conf, DemoParts, RunsWell, Trying
<1>7. ToAppend' = ToAppend
  BY <1>1, <1>3 DEF ToAppend, Conf
<1>8. CASE main[m].conf = DemoRecord
  <2>1. h \in {"bad", "upstream"}
    BY <1>1, <1>4, <1>6, <1>8 DEF DemoParts, RunsWell
  <2>2. h = "upstream" => cassette # << >>
    <3>1. h = "upstream" => slot[s].answer.status = "ok" /\ Conf(s).mode = "record"
      BY <1>4, <1>6, <1>8 DEF AgentAsks
    <3>2. h = "upstream" => \E i \in DOMAIN cassette : TRUE
      BY <1>1, <3>1 DEF DemoParts, RunsWell, LifecycleInv, IInv, AnsweredIsRecorded, Answered, InPhase
    <3> QED
      BY <3>2
  <2>3. MayAsk(m)' = MayAsk(m)
    BY <1>1, <1>5, <2>1, LifecycleAssumption DEF MayAsk
  <2>4. RunsWell(m)' /\ AsksWell(m)'
    BY <1>1, <1>3, <1>5, <1>8, <2>1 DEF DemoParts, RunsWell, AsksWell, Own, Conf, Others, Trying
  <2>5. RecordsWell(m)'
    BY <1>3, <1>5, <1>7, <1>8, <2>2, <2>3 DEF DemoParts, RecordsWell, Pending, AgentAsks
  <2>6. ReplaysWell(m)' /\ NoReplayYet(m)'
    BY <1>3, <1>5, <1>8 DEF DemoParts, ReplaysWell, NoReplayYet, AgentAsks
  <2> QED
    BY <2>4, <2>5, <2>6 DEF DemoParts
<1>9. CASE main[m].conf = DemoReplay
  <2>1. Replays(s)
    BY <1>1, <1>6, <1>9, SlotOfDemo DEF AgentAsks, Replays
  <2>2. AnsweredWell(s)
    BY <1>1 DEF LifecycleInv, IInv, HandledWell
  <2>3. h \in {"bad", "cassette"}
    BY <1>4, <2>1, <2>2 DEF AnsweredWell
  <2>4. main[m].recordings = 1 => h = "cassette"
    BY <1>1, <1>4, <1>6, <1>9, <2>1, <2>2 DEF AnsweredWell, DemoParts, ReplaysWell
  <2>5. MayAsk(m)' = MayAsk(m)
    BY <1>5, <1>9 DEF MayAsk, AgentAsks
  <2>6. RunsWell(m)' /\ AsksWell(m)'
    BY <1>1, <1>3, <1>5, <1>9, <2>3
    DEF DemoParts, RunsWell, AsksWell, AgentAsks, Own, Conf, Others, Trying
  <2>7. RecordsWell(m)'
    BY <1>3, <1>5, <1>7, <1>9, <2>5 DEF DemoParts, RecordsWell, Pending, AgentAsks
  <2>8. ReplaysWell(m)' /\ NoReplayYet(m)'
    BY <1>3, <1>5, <1>9, <2>4 DEF DemoParts, ReplaysWell, NoReplayYet, AgentAsks, Conf
  <2> QED
    BY <2>6, <2>7, <2>8 DEF DemoParts
<1> QED
  BY <1>8, <1>9 DEF DemoParts, RunsWell

LEMMA DemoDrops ==
    ASSUME LifecycleInv, NEW m \in Mains, DemoParts(m), NEW s \in Slots, Dropped(s)
    PROVE  DemoParts(m)'
<1>1. /\ slot[s].phase = "answered" /\ main[m].asks # s /\ UNCHANGED main
      /\ slot'[s] = Free /\ \A t \in Slots \ {s} : slot'[t] = slot[t]
      /\ UNCHANGED <<cassette, config, hmac, source, recorded, severed>>
  BY Collects DEF Dropped, ownVars, history
<1>2. ToAppend' = ToAppend
  BY <1>1 DEF ToAppend, Conf
<1>3. main[m].asks \in Slots \cup {NoSlot}
  BY DEF LifecycleInv, OwnInv, OwnTypeOK, MainType
<1>4. RunsWell(m)'
  BY <1>1 DEF DemoParts, RunsWell, Own, Conf
<1>5. AsksWell(m)'
  BY <1>1, <1>3 DEF DemoParts, AsksWell, Own
<1>6. RecordsWell(m)'
  BY <1>1, <1>2 DEF DemoParts, RecordsWell, Pending, MayAsk
<1>7. ReplaysWell(m)' /\ NoReplayYet(m)'
  BY <1>1 DEF DemoParts, ReplaysWell, NoReplayYet, Conf
<1> QED
  BY <1>4, <1>5, <1>6, <1>7 DEF DemoParts

\* Whatever a replay of the demo starts on, its agent's request is in it.
LEMMA DemoHits ==
    ASSUME LifecycleInv, NEW r, AgentAsks(r), NEW m \in Mains, DemoParts(m),
           NEW s \in Slots, slot[s] # Free, Conf(s) = DemoReplay, source[slot[s].proxy] # << >>
    PROVE  Key(s) \in DOMAIN LastWins(source[slot[s].proxy])
<1> DEFINE p == slot[s].proxy
           tx == source[p][1]
<1>1. p \in Proxies /\ slot[s].req = r
  BY SlotOfDemo DEF AgentAsks
<1>2. source[p] \in Seq(Txs) /\ Lists(source[p]) /\ recorded \subseteq Txs /\ StartedWell(p)
  BY <1>1 DEF LifecycleInv, IInv, TypeOK
<1>3. hmac[p] = 0
  BY <1>1, <1>2, SlotOfDemo DEF StartedWell, Conf, AgentAsks
<1>4. 1 \in DOMAIN source[p]
  BY <1>2
<1>5. tx \in Txs /\ tx \in recorded
  BY <1>2, <1>4 DEF Lists
<1>6. tx.conf = DemoRecord /\ tx.hmac = 0
  BY <1>5 DEF DemoParts, RunsWell
<1>7. tx.key = MatchKey(r, DemoRecord, 0)
  <2>1. PICK q \in Requests, b \in Bodies, c \in Configs, h \in 0 .. MaxStarts : tx = TxOf(q, b, c, h)
    BY <1>5 DEF Txs
  <2>2. tx.key = MatchKey(q, c, h) /\ tx.conf = c /\ tx.hmac = h
    BY <2>1 DEF TxOf
  <2> QED
    BY <1>6, <2>2 DEF AgentAsks
<1>8. Key(s) = tx.key
  BY <1>1, <1>3, <1>7 DEF Key, Conf, MatchKey, AgentAsks
<1> QED
  BY <1>4, <1>8 DEF LastWins

\* A handler of the demo, late ones of a failed recording included.
LEMMA DemoHandles ==
    ASSUME LifecycleInv, NEW r, AgentAsks(r), NEW m \in Mains, DemoParts(m), Handlers
    PROVE  DemoParts(m)'
<1>1. PICK s \in Slots :
          /\ slot[s] # Free /\ slot[s].phase # "answered"
          /\ slot'[s] # Free /\ slot'[s].proxy = slot[s].proxy
          /\ \A t \in Slots \ {s} : slot'[t] = slot[t]
          /\ UNCHANGED <<config, hmac, source, severed, starts, sends>>
          /\ HandlesTo(s, slot'[s])
          /\ \/ UNCHANGED <<cassette, recorded>>
             \/ /\ slot'[s].phase = "answered" /\ Conf(s).mode = "record"
                /\ \E tx \in Txs : /\ cassette' = Append(cassette, tx)
                                   /\ recorded' = recorded \cup {tx}
                                   /\ tx.conf = Conf(s) /\ tx.hmac = hmac[slot[s].proxy]
  BY HandlersDo
<1>2. UNCHANGED main
  BY DEF Handlers, ownVars
<1>3. \A t \in Slots : slot[t] # Free => Conf(t)' = Conf(t)
  BY <1>1 DEF Conf
<1>4. Conf(s) \in {DemoRecord, DemoReplay}
  BY <1>1, SlotOfDemo DEF DemoParts, RunsWell, Conf
<1>5. \/ UNCHANGED <<cassette, recorded>> /\ ToAppend' \subseteq ToAppend
      \/ /\ s \in ToAppend /\ ToAppend' \subseteq ToAppend \ {s} /\ Conf(s) = DemoRecord
         /\ \E tx \in Txs : /\ cassette' = Append(cassette, tx) /\ recorded' = recorded \cup {tx}
                            /\ tx.conf = DemoRecord /\ tx.hmac = 0
  <2>1. ToAppend' \subseteq ToAppend
    BY <1>1, <1>3 DEF ToAppend
  <2>2. ASSUME slot'[s].phase = "answered", Conf(s).mode = "record"
        PROVE  /\ s \in ToAppend /\ ToAppend' \subseteq ToAppend \ {s}
               /\ Conf(s) = DemoRecord /\ hmac[slot[s].proxy] = 0
    <3>1. s \in ToAppend /\ s \notin ToAppend'
      BY <1>1, <2>2 DEF ToAppend
    <3>2. Conf(s) = DemoRecord
      BY <1>4, <2>2 DEF AgentAsks
    <3>3. hmac[slot[s].proxy] = 0
      BY <1>1, <3>2, SlotOfDemo DEF LifecycleInv, IInv, StartedWell, Conf, AgentAsks
    <3> QED
      BY <2>1, <3>1, <3>2, <3>3
  <2> QED
    BY <1>1, <2>1, <2>2
<1>6. RunsWell(m)'
  <2>1. \A tx \in recorded' : tx.conf = DemoRecord /\ tx.hmac = 0
    BY <1>5 DEF DemoParts, RunsWell
  <2>2. \A t \in Slots : slot'[t] # Free /\ Conf(t)' = DemoRecord /\ slot'[t].phase = "answered"
                         /\ slot'[t].answer.status = "ok" => slot'[t].answer.from = "upstream"
    BY <1>1, <1>3 DEF DemoParts, RunsWell, HandlesTo, AgentAsks
  <2> QED
    BY <1>1, <1>2, <2>1, <2>2 DEF DemoParts, RunsWell, Own
<1>7. AsksWell(m)'
  BY <1>1, <1>2, LifecycleAssumption DEF DemoParts, AsksWell, Own, LifecycleInv, OwnInv, OwnTypeOK, MainType
<1>8. RecordsWell(m)'
  <2>1. /\ IsFiniteSet(ToAppend) /\ Cardinality(ToAppend) \in Nat
        /\ cassette \in Seq(Txs) /\ Len(cassette) \in Nat /\ main[m].recordings \in Nat
    BY FS_CardinalityType DEF DemoParts, RecordsWell, LifecycleInv, IInv, TypeOK
  <2>2. IsFiniteSet(ToAppend') /\ Cardinality(ToAppend') \in Nat
    BY <1>5, <2>1, FS_Subset, FS_CardinalityType
  <2>3. MayAsk(m)' = MayAsk(m)
    BY <1>2 DEF MayAsk
  <2>4. Len(cassette') + Cardinality(ToAppend') <= Len(cassette) + Cardinality(ToAppend)
    <3>1. CASE UNCHANGED cassette /\ ToAppend' \subseteq ToAppend
      <4>1. Cardinality(ToAppend') <= Cardinality(ToAppend)
        BY <2>1, <3>1, FS_Subset
      <4> QED
        BY <2>1, <2>2, <3>1, <4>1
    <3>2. CASE /\ s \in ToAppend /\ ToAppend' \subseteq ToAppend \ {s}
               /\ \E tx \in Txs : cassette' = Append(cassette, tx)
      <4>1. /\ IsFiniteSet(ToAppend \ {s})
            /\ Cardinality(ToAppend \ {s}) = Cardinality(ToAppend) - 1
        BY <2>1, <3>2, FS_RemoveElement
      <4>2. Cardinality(ToAppend') <= Cardinality(ToAppend) - 1
        BY <3>2, <4>1, FS_Subset
      <4>3. Len(cassette') = Len(cassette) + 1
        BY <2>1, <3>2
      <4> QED
        BY <2>1, <2>2, <4>2, <4>3
    <3> QED
      BY <1>5, <3>1, <3>2
  <2>5. cassette # << >> => cassette' # << >>
    BY <1>5, <2>1
  <2>6. Len(cassette') \in Nat
    BY <1>5, <2>1
  <2> QED
    BY <1>2, <2>1, <2>2, <2>3, <2>4, <2>5, <2>6 DEF DemoParts, RecordsWell, Pending
<1>9. ReplaysWell(m)'
  <2>1. ASSUME main[m].conf = DemoReplay, main[m].recordings = 1, Conf(s) = DemoReplay
        PROVE  slot'[s].answer.status = "ok"
    <3>1. source[slot[s].proxy] # << >>
      BY <1>1, <2>1, SlotOfDemo DEF DemoParts, ReplaysWell, Conf
    <3>2. Key(s) \in DOMAIN LastWins(source[slot[s].proxy])
      BY <1>1, <2>1, <3>1, DemoHits
    <3>3. Replays(s)
      BY <1>1, <2>1, SlotOfDemo DEF Replays, AgentAsks
    <3> QED
      BY <1>1, <3>2, <3>3 DEF HandlesTo
  <2>2. ASSUME main[m].conf = DemoReplay, main[m].recordings = 1
        PROVE  \A t \in Slots : slot'[t] # Free /\ Conf(t)' = DemoReplay /\ slot'[t].phase = "answered" =>
                  slot'[t].answer.status = "ok"
    BY <1>1, <1>3, <2>1, <2>2 DEF DemoParts, ReplaysWell
  <2> QED
    BY <1>1, <1>2, <2>2 DEF DemoParts, ReplaysWell
<1>10. NoReplayYet(m)'
  BY <1>1, <1>2 DEF DemoParts, NoReplayYet
<1> QED
  BY <1>6, <1>7, <1>8, <1>9, <1>10 DEF DemoParts

-----------------------------------------------------------------------------
(* A demo that nobody disturbs replays what it recorded *)

LEMMA DemoLaunches ==
    ASSUME LifecycleInv, Fresh, launches = 0, NEW r, AgentAsks(r), NEW m \in Mains, LaunchDemo(m)
    PROVE  DemoParts(m)'
<1>1. /\ main' = [main EXCEPT ![m] = [Waiting EXCEPT !.job = "demo", !.stage = "begin",
                                        !.recordings = 1, !.wanted = AnyPort]]
      /\ UNCHANGED <<config, hmac, slot, source, recorded>> /\ cassette' = << >>
  BY DEF LaunchDemo, PortWanted
<1>2. /\ Others(m) /\ main'[m].stage = "begin" /\ main'[m].conf = DemoRecord
      /\ main'[m].recordings = 1 /\ main'[m].asks = NoSlot /\ main'[m].heard = "nothing"
      /\ main'[m].code = "none"
  BY <1>1 DEF LifecycleInv, OwnInv, OwnTypeOK, Others, Waiting
<1>3. /\ \A n \in Mains : main[n] = Waiting
      /\ \A p \in Proxies : config[p] = Down
      /\ recorded = {} /\ ~severed'
  BY DEF Fresh, LaunchDemo
<1>4. \A s \in Slots : slot[s] = Free
  BY <1>3, SlotOfDemo DEF Conf
<1>5. ToAppend' = {}
  BY <1>1, <1>4 DEF ToAppend
<1>6. RunsWell(m)' /\ AsksWell(m)'
  BY <1>1, <1>2, <1>3, <1>4 DEF RunsWell, AsksWell, Others, Trying
<1>7. RecordsWell(m)'
  <2>1. IsFiniteSet({}) /\ Cardinality({}) = 0
    BY FS_EmptySet
  <2>2. Pending(m)' = 1 /\ Len(cassette') = 0
    BY <1>1, <1>2, <1>5, <2>1 DEF Pending, MayAsk
  <2> QED
    BY <1>1, <1>2, <1>5, <2>1, <2>2 DEF RecordsWell, AgentAsks
<1>8. ReplaysWell(m)' /\ NoReplayYet(m)'
  <2>1. DemoReplay # Down /\ DemoReplay # DemoRecord
    BY LifecycleAssumption, HandlerAssumption DEF AgentAsks
  <2> QED
    BY <1>1, <1>2, <1>3, <2>1 DEF ReplaysWell, NoReplayYet
<1> QED
  BY <1>6, <1>7, <1>8 DEF DemoParts

\* Nobody becomes a demo but by a launch.
LEMMA DemoWasOne ==
    ASSUME LifecycleInv, NextLifecycle, \A n \in Mains : ~Launches(n), NEW m \in Mains,
           main'[m].job = "demo"
    PROVE  main[m].job = "demo"
<1>1. OwnTypeOK /\ main[m] \in MainType
  BY DEF LifecycleInv, OwnInv, OwnTypeOK
<1>2. ASSUME NEW p \in Proxies, ServerThread(p) PROVE main[m].job = "demo"
  BY <1>2 DEF ServerThread, Bind, StopsListening, ThreadEnds
<1>3. CASE Handlers \/ \E s \in Slots : Dropped(s)
  BY <1>3 DEF Handlers, Dropped, ownVars
<1>4. ASSUME NEW n \in Mains, Advance(n) PROVE main[m].job = "demo"
  <2>1. CASE Join(n)
    <3>1. CASE Ending(n)
      BY <1>1, <3>1 DEF Ending, OwnTypeOK, Waiting
    <3>2. CASE \E conf \in {DemoReplay, DemoRecord}, more \in {0, 1} :
                  main' = [main EXCEPT ![n].stage = "begin", ![n].conf = conf,
                                       ![n].recordings = @ + more,
                                       ![n].heard = "nothing", ![n].code = "none"]
      BY <1>1, <3>2 DEF OwnTypeOK, MainType
    <3>3. \/ Ending(n)
          \/ \E conf \in {DemoReplay, DemoRecord}, more \in {0, 1} :
                main' = [main EXCEPT ![n].stage = "begin", ![n].conf = conf,
                                     ![n].recordings = @ + more,
                                     ![n].heard = "nothing", ![n].code = "none"]
      BY <2>1 DEF Join
    <3> QED
      BY <3>1, <3>2, <3>3
  <2>2. CASE Begin(n)
    BY <1>1, <2>2 DEF Begin, OwnTypeOK, MainType
  <2>3. CASE PortKnown(n)
    BY <1>1, <2>3 DEF PortKnown, OwnTypeOK, MainType
  <2>4. CASE SeesThread(n) \/ GetsHealth(n)
    BY <1>1, <2>4 DEF SeesThread, GetsHealth, Goes, Leaves, OwnTypeOK, MainType
  <2>5. CASE \E p \in Proxies : Reap(n, p)
    BY <2>5 DEF Reap
  <2>6. CASE Ends(n)
    BY <1>1, <2>6 DEF Ends, OwnTypeOK, Waiting
  <2> QED
    BY <1>4, <2>1, <2>2, <2>3, <2>4, <2>5, <2>6 DEF Advance
<1>5. ASSUME NEW n \in Mains,
             \/ GivesUp(n)
             \/ Interrupt(n)
             \/ \E code \in {"zero", "nonzero"} : ChildExits(n, code)
      PROVE  main[m].job = "demo"
  BY <1>1, <1>5 DEF GivesUp, Interrupt, ChildExits, Leaves, OwnTypeOK, MainType
<1>6. ASSUME NEW n \in Mains, NEW s \in Slots, NEW q \in Requests, ChildAsks(n, s, q)
      PROVE  main[m].job = "demo"
  BY <1>1, <1>6 DEF ChildAsks, OwnTypeOK, MainType
<1>7. ASSUME NEW n \in Mains, ChildHears(n)
      PROVE  main[m].job = "demo"
  BY <1>1, <1>7 DEF ChildHears, OwnTypeOK, MainType
<1> QED
  BY <1>2, <1>3, <1>4, <1>5, <1>6, <1>7 DEF NextLifecycle, Launches

LEMMA DemoStep ==
    ASSUME LifecycleInv, DemoInv, NEW r, AgentAsks(r), [NextLifecycle]_allVars, NEW m \in Mains,
           Alone(m)'
    PROVE  DemoParts(m)'
<1>1. launches \in Nat /\ launches' = 1
  BY DEF DemoInv, Fresh, Alone
<1>2. ASSUME NEW n \in Mains, Launches(n) PROVE DemoParts(m)'
  <2>1. launches' = launches + 1
    BY <1>2 DEF Launches, LaunchDemo, LaunchRun
  <2>2. launches = 0
    BY <1>1, <2>1
  <2>3. main[m] = Waiting
    BY <2>2 DEF DemoInv, Fresh
  <2>4. m = n
    <3> SUFFICES ASSUME m # n PROVE FALSE
      OBVIOUS
    <3>1. main'[m] = main[m]
      BY <1>2 DEF Launches, LaunchDemo, LaunchRun, LifecycleInv, OwnInv, OwnTypeOK
    <3> QED
      BY <2>3, <3>1, WaitingFacts DEF Alone
  <2>5. LaunchDemo(m)
    <3> SUFFICES ASSUME NEW c \in Configs, NEW wanted \in RunPorts, LaunchRun(m, c, wanted)
                 PROVE  FALSE
      BY <1>2, <2>4 DEF Launches
    <3>1. main' = [main EXCEPT ![m] = [Waiting EXCEPT
                      !.job = "run", !.stage = "begin", !.conf = c, !.wanted = wanted]]
      BY DEF LaunchRun, PortWanted
    <3>2. main'[m].job = "run"
      BY <3>1 DEF LifecycleInv, OwnInv, OwnTypeOK, Waiting
    <3> QED
      BY <3>2 DEF Alone
  <2> QED
    BY <2>2, <2>5, DemoLaunches DEF DemoInv
<1>3. CASE NextLifecycle /\ \A n \in Mains : ~Launches(n)
  <2>1. Alone(m) /\ DemoParts(m)
    BY <1>1, <1>3, LaunchesCount, DemoWasOne DEF Alone, DemoInv, DemoWell
  <2>2. \A n \in Mains \ {m} : main[n].stage = "idle"
    BY <2>1, WaitingFacts DEF DemoParts, RunsWell
  <2>3. main[m].stage # "ending"
    BY <2>1 DEF DemoParts, RunsWell, Trying
  <2>4. ASSUME NEW n \in Mains,
               \/ Advance(n) \/ GivesUp(n) \/ Interrupt(n)
               \/ \E s \in Slots, q \in Requests : ChildAsks(n, s, q)
               \/ ChildHears(n)
               \/ \E code \in {"zero", "nonzero"} : ChildExits(n, code)
        PROVE  n = m
    BY <2>2, <2>4 DEF Advance, Begin, PortKnown, SeesThread, GetsHealth, Join, Reap, Ends, GivesUp,
                      DeadlineOver, Interrupt, ChildAsks, ChildHears, ChildExits, At, Trying
  <2>5. CASE Advance(m)
    <3>1. ~Ends(m) /\ \A p \in Proxies : ~Reap(m, p)
      BY <2>3 DEF Ends, Reap, At
    <3> QED
      BY <2>1, <2>5, <3>1, DemoBegins, DemoMoves, DemoJoins DEF Advance
  <2>6. CASE GivesUp(m) \/ Interrupt(m) \/ \E code \in {"zero", "nonzero"} : ChildExits(m, code)
    BY <2>1, <2>6, DemoMoves
  <2>7. CASE ChildHears(m) \/ \E s \in Slots, q \in Requests : ChildAsks(m, s, q)
    BY <2>1, <2>7, DemoHears, DemoAsks
  <2>8. CASE \E p \in Proxies : ServerThread(p)
    BY <2>1, <2>8, DemoServes DEF DemoInv
  <2>9. CASE Handlers \/ \E s \in Slots : Dropped(s)
    BY <2>1, <2>9, DemoHandles, DemoDrops
  <2> QED
    BY <1>3, <2>4, <2>5, <2>6, <2>7, <2>8, <2>9 DEF NextLifecycle, Launches
<1>4. CASE UNCHANGED allVars
  <2>1. UNCHANGED <<proxyVars, main, launches>>
    BY <1>4 DEF allVars, ownVars
  <2> QED
    BY <1>1, <2>1, DemoQuiet DEF DemoInv, DemoWell, Alone
<1> QED
  BY <1>2, <1>3, <1>4

\* run_demo: when nobody else uses the cassette and the first recording succeeded,
\* the replay never misses; and whatever a recording left behind goes on to do,
\* there is one transaction for each recording at most.
THEOREM DemosReplay ==
    ASSUME NEW r, AgentAsks(r)
    PROVE  SpecLifecycle => []DemoReplays
<1>1. InitLifecycle => DemoInv
  <2> SUFFICES ASSUME InitLifecycle PROVE ServesWell /\ Fresh /\ \A m \in Mains : DemoWell(m)
    BY DEF DemoInv
  <2>1. ServesWell
    BY DEF InitLifecycle, Init, ServesWell
  <2>2. Fresh
    BY DEF InitLifecycle, Init, Fresh
  <2>3. \A m \in Mains : DemoWell(m)
    BY DEF InitLifecycle, DemoWell, Alone
  <2> QED
    BY <2>1, <2>2, <2>3
<1>2. LifecycleInv /\ DemoInv /\ [NextLifecycle]_allVars => DemoInv'
  <2> SUFFICES ASSUME LifecycleInv, DemoInv, [NextLifecycle]_allVars
               PROVE  ServesWell' /\ Fresh' /\ \A m \in Mains : DemoWell(m)'
    BY DEF DemoInv
  <2>1. ServesWell' /\ Fresh'
    BY ServesStep, FreshStep DEF DemoInv
  <2>2. \A m \in Mains : DemoWell(m)'
    BY DemoStep DEF DemoWell
  <2> QED
    BY <2>1, <2>2
<1>3. LifecycleInv /\ DemoInv => DemoReplays
  <2> SUFFICES ASSUME LifecycleInv, DemoInv, NEW m \in Mains, main[m].job = "demo",
                      main[m].conf = DemoReplay, launches = 1
               PROVE  /\ Len(cassette) <= main[m].recordings
                      /\ main[m].recordings = 1 =>
                            main[m].heard \in {"nothing", "cassette"} /\ Len(cassette) = 1
                      /\ main[m].code = "zero" => main[m].heard = "cassette"
    BY DEF DemoReplays
  <2>1. DemoParts(m)
    BY DEF DemoInv, DemoWell, Alone
  <2>2. main[m].heard \in {"nothing", "bad", "cassette"}
    BY <2>1 DEF DemoParts, AsksWell, AgentAsks
  <2>3. Len(cassette) <= main[m].recordings
    <3>1. /\ Cardinality(ToAppend) \in Nat /\ Len(cassette) \in Nat /\ main[m].recordings \in Nat
          /\ Len(cassette) + Pending(m) <= main[m].recordings
      BY <2>1, FS_CardinalityType DEF DemoParts, RecordsWell, LifecycleInv, IInv, TypeOK
    <3>2. Pending(m) \in Nat
      BY <3>1 DEF Pending
    <3> QED
      BY <3>1, <3>2
  <2> QED
    BY <2>1, <2>2, <2>3, NothingPending DEF DemoParts, RunsWell, ReplaysWell
<1> QED
  BY <1>1, <1>2, <1>3, LifecycleInvariant, PTL DEF SpecLifecycle

=============================================================================
