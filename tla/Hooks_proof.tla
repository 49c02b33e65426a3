----------------------------- MODULE Hooks_proof -----------------------------
(***************************************************************************)
(* Proofs about Hooks: decisions.jsonl only grows at its end, so replays   *)
(* agree with each other and with what was printed when it was recorded,   *)
(* and allow nothing that nobody allowed, and hooks that were installed    *)
(* verify; for any number of processes, hook calls, installations, edits   *)
(* and kills.                                                              *)
(***************************************************************************)
EXTENDS Hooks, WellFoundedInduction, TLAPS

Phases == {"idle", "write", "digest", "header", "append", "print", "byId", "byTool"}
Asking == {"append", "print", "byId", "byTool"}

\* Every process answers a request in the phases that do, and decisions.jsonl
\* is a sequence of lines.
HooksTyped ==
    /\ proc \in [Procs -> [phase : Phases, mode : Modes,
                           request : Requests \cup {NoRequest}, decision : Kinds,
                           digests : [Events -> Bodies], todo : Seq(Events)]]
    /\ \A p \in Procs :
          /\ proc[p].phase \in Asking => proc[p].request \in Requests
          /\ proc[p].phase \in {"write", "digest"} => proc[p].todo # << >>
    /\ scripts \in [Events -> Bodies]
    /\ decisions \in Seq(Lines \cup {TornLine})
    /\ reused \in BOOLEAN

-----------------------------------------------------------------------------
(* The lines *)

\* Line completes a request with a decision.
LEMMA LineFields ==
    ASSUME NEW r \in Requests, NEW kind \in Kinds
    PROVE  /\ Line(r, kind) \in Lines
           /\ Line(r, kind).id = r.id /\ Line(r, kind).event = r.event
           /\ Line(r, kind).tool = r.tool /\ Line(r, kind).decision = kind
BY HooksAssumption DEF Line, Lines

\* A set of places that is not empty has a first one.
LEMMA FirstPlace ==
    ASSUME NEW H, H \subseteq Nat, H # {}
    PROVE  \E i \in H : \A j \in H : i <= j
<1> DEFINE Less == {x \in Nat \X Nat : x[1] < x[2]}
<1>1. IsWellFoundedOn(Less, Nat)
  BY NatLessThanWellFounded, Zenon DEF OpToRel
<1>2. PICK i \in H : \A j \in H : <<j, i>> \notin Less
  <2> HIDE DEF Less
  <2> QED
    BY <1>1, WFMin, Zenon
<1>3. \A j \in H : ~(j < i)
  BY <1>2
<1>4. \A j \in H : i <= j
  BY <1>3
<1> QED
  BY <1>4

\* FirstOf takes one of the lines, and none of the others is before it.
LEMMA FirstOfIsFirst ==
    ASSUME NEW H, H \subseteq DOMAIN decisions, H # {}, HooksTyped
    PROVE  \E i \in H : FirstOf(H) = decisions[i] /\ \A j \in H : i <= j
<1>1. H \subseteq Nat
  BY DEF HooksTyped
<1>2. \E i \in H : \A j \in H : i <= j
  BY <1>1, FirstPlace
<1> QED
  BY <1>2 DEF FirstOf

-----------------------------------------------------------------------------
(* Types *)

\* A torn line is the last one.
TornLast == \A i \in DOMAIN decisions : decisions[i] = TornLine => i = Len(decisions)

LEMMA InitTyped == Init => HooksTyped /\ TornLast
<1>1. << >> \in Seq(Lines \cup {TornLine}) /\ << >> \in Seq(Events) /\ DOMAIN << >> = {}
  OBVIOUS
<1>2. NoDigests \in [Events -> Bodies]
  BY DEF NoDigests, Bodies
<1>3. /\ Idle \in [phase : Phases, mode : Modes, request : Requests \cup {NoRequest},
                   decision : Kinds, digests : [Events -> Bodies], todo : Seq(Events)]
      /\ Idle.phase = "idle"
  BY <1>1, <1>2 DEF Idle, Phases, Modes, Kinds
<1> QED
  BY <1>1, <1>2, <1>3 DEF Init, HooksTyped, TornLast, Asking

\* A write appends its line, unless the last line is torn.
LEMMA AppendedLine ==
    ASSUME HooksTyped, TornLast, NEW line \in Lines \cup {TornLine}
    PROVE  \/ Unreadable /\ Appended(line) = decisions
           \/ ~Unreadable /\ Appended(line) = Append(decisions, line)
<1>1. CASE Unreadable
  <2>1. PICK i \in DOMAIN decisions : decisions[i] = TornLine
    BY <1>1 DEF Unreadable, Range
  <2>2. decisions # << >> /\ Last(decisions) = TornLine
    BY <2>1 DEF HooksTyped, TornLast, Last
  <2> QED
    BY <1>1, <2>2 DEF Appended
<1>2. CASE ~Unreadable
  <2>1. decisions # << >> => Len(decisions) \in DOMAIN decisions
    BY DEF HooksTyped
  <2>2. decisions # << >> => Last(decisions) # TornLine
    BY <1>2, <2>1 DEF Unreadable, Range, Last
  <2> QED
    BY <1>2, <2>2 DEF Appended
<1> QED
  BY <1>1, <1>2

\* decisions.jsonl is left alone or a line is appended to it.
Grows ==
    \/ decisions' = decisions
    \/ /\ ~Unreadable
       /\ \E line \in Lines \cup {TornLine} : decisions' = Append(decisions, line)

LEMMA AppendKeepsLines ==
    ASSUME HooksTyped, TornLast, Grows
    PROVE  /\ decisions' \in Seq(Lines \cup {TornLine}) /\ TornLast'
           /\ \A i \in DOMAIN decisions : i \in DOMAIN decisions' /\ decisions'[i] = decisions[i]
<1>1. CASE decisions' = decisions
  BY <1>1 DEF HooksTyped, TornLast
<1>2. ASSUME ~Unreadable, NEW line \in Lines \cup {TornLine},
             decisions' = Append(decisions, line)
      PROVE  /\ decisions' \in Seq(Lines \cup {TornLine}) /\ TornLast'
             /\ \A i \in DOMAIN decisions : i \in DOMAIN decisions' /\ decisions'[i] = decisions[i]
  <2>1. /\ decisions \in Seq(Lines \cup {TornLine})
        /\ \A i \in DOMAIN decisions : decisions[i] # TornLine
    BY <1>2 DEF HooksTyped, Unreadable, Range
  <2>2. /\ decisions' \in Seq(Lines \cup {TornLine})
        /\ Len(decisions') = Len(decisions) + 1
        /\ \A i \in DOMAIN decisions : i \in DOMAIN decisions' /\ decisions'[i] = decisions[i]
    BY <1>2, <2>1
  <2>3. ASSUME NEW i \in DOMAIN decisions', decisions'[i] = TornLine
        PROVE  i = Len(decisions')
    BY <2>1, <2>2, <2>3
  <2> QED
    BY <2>2, <2>3 DEF TornLast
<1> QED
  BY <1>1, <1>2 DEF Grows

LEMMA StepGrows ==
    ASSUME HooksTyped, TornLast, Next
    PROVE  Grows
<1>1. ASSUME NEW p \in Procs, RecordDecision(p) PROVE Grows
  <2>1. Line(proc[p].request, proc[p].decision) \in Lines
    BY <1>1, LineFields DEF RecordDecision, HooksTyped, Asking
  <2> QED
    BY <1>1, <2>1, AppendedLine DEF RecordDecision, Grows
<1>2. ASSUME NEW p \in Procs, Kill(p) PROVE Grows
  BY <1>2, AppendedLine DEF Kill, Grows
<1> QED
  BY <1>1, <1>2 DEF Next, Edit, Install, Installation, WriteScript, DigestScript,
     SetHookDigests, Record, Replay, Hook, AskById, AskByTool, PrintDecision, Grows, bounds

\* The types of what a step does to the processes and the scripts.
LEMMA NextTyped ==
    ASSUME HooksTyped, TornLast, [Next]_vars
    PROVE  HooksTyped' /\ TornLast'
<1> DEFINE ProcTyped(r) ==
        /\ r \in [phase : Phases, mode : Modes, request : Requests \cup {NoRequest},
                  decision : Kinds, digests : [Events -> Bodies], todo : Seq(Events)]
        /\ r.phase \in Asking => r.request \in Requests
        /\ r.phase \in {"write", "digest"} => r.todo # << >>
<1> DEFINE Rest ==
        /\ scripts' \in [Events -> Bodies] /\ reused' \in BOOLEAN
        /\ \A q \in Procs : ProcTyped(proc'[q])
        /\ proc' = [q \in Procs |-> proc'[q]]
<1>0. /\ proc = [q \in Procs |-> proc[q]] /\ \A q \in Procs : ProcTyped(proc[q])
      /\ scripts \in [Events -> Bodies] /\ reused \in BOOLEAN
  BY DEF HooksTyped
<1>1. << >> \in Seq(Events) /\ <<"PreToolUse", "PostToolUse">> \in Seq(Events)
  BY DEF Events
<1>2. ProcTyped(Idle)
  BY <1>1 DEF Idle, NoDigests, Phases, Asking, Modes, Kinds, Bodies
<1>3. \A p \in Procs, phase \in Phases :
          /\ phase \in Asking => proc[p].phase \in Asking
          /\ phase \in {"write", "digest"} => proc[p].todo # << >>
          => ProcTyped([proc[p] EXCEPT !.phase = phase])
  BY <1>0
<1>4. ASSUME NEW p \in Procs, NEW mode \in Modes, Install(p, mode) PROVE Rest
  <2>1. ProcTyped([Idle EXCEPT !.phase = "write", !.mode = mode,
                               !.todo = <<"PreToolUse", "PostToolUse">>])
    BY <1>1, <1>2 DEF Idle, Phases, Asking
  <2> HIDE DEF ProcTyped
  <2> QED
    BY <1>0, <1>4, <2>1 DEF Install
<1>5. ASSUME NEW p \in Procs, Installation(p) PROVE Rest
  <2>1. CASE WriteScript(p)
    <3>1. ProcTyped([proc[p] EXCEPT !.phase = "digest"])
      BY <1>0, <2>1 DEF WriteScript, Phases, Asking
    <3>2. scripts' \in [Events -> Bodies]
      BY <1>0, <2>1 DEF WriteScript, Written, Bodies
    <3> HIDE DEF ProcTyped
    <3> QED
      BY <1>0, <2>1, <3>1, <3>2 DEF WriteScript, Goes
  <2>2. CASE DigestScript(p)
    <3> DEFINE event == Head(proc[p].todo)
               rest == Tail(proc[p].todo)
               phase == IF rest = << >> THEN "header" ELSE "write"
               dg == [proc[p].digests EXCEPT ![event] = scripts[event]]
    <3>1. /\ proc[p].todo \in Seq(Events) /\ proc[p].todo # << >>
          /\ proc[p].digests \in [Events -> Bodies]
      BY <1>0, <2>2 DEF DigestScript
    <3>2. event \in Events /\ rest \in Seq(Events)
      BY <3>1
    <3>3. dg \in [Events -> Bodies] /\ phase \in {"header", "write"}
          /\ (phase = "write" => rest # << >>)
      BY <1>0, <3>1, <3>2
    <3>4. proc' = [proc EXCEPT ![p] = [@ EXCEPT !.digests[event] = scripts[event],
                                                !.todo = rest, !.phase = phase]]
      BY <2>2 DEF DigestScript
    <3>5. [proc[p] EXCEPT !.digests[event] = scripts[event], !.todo = rest, !.phase = phase]
          = [proc[p] EXCEPT !.digests = dg, !.todo = rest, !.phase = phase]
      OBVIOUS
    <3> HIDE DEF event, rest, phase, dg
    <3>6. ProcTyped([proc[p] EXCEPT !.digests = dg, !.todo = rest, !.phase = phase])
      BY <1>0, <3>2, <3>3 DEF Phases, Asking
    <3> HIDE DEF ProcTyped
    <3> QED
      BY <1>0, <2>2, <3>4, <3>5, <3>6 DEF DigestScript
  <2>3. CASE SetHookDigests(p)
    <3> HIDE DEF ProcTyped
    <3> QED
      BY <1>0, <1>2, <2>3 DEF SetHookDigests
  <2> QED
    BY <1>5, <2>1, <2>2, <2>3 DEF Installation
<1>6. ASSUME NEW p \in Procs, NEW r \in Requests, Record(p, r) PROVE Rest
  <2>1. PICK kind \in Forces \cup {"allow"} :
            proc' = [proc EXCEPT ![p] = [Idle EXCEPT !.phase = "append", !.request = r,
                                         !.decision = kind]]
    BY <1>6 DEF Record
  <2>2. ProcTyped([Idle EXCEPT !.phase = "append", !.request = r, !.decision = kind])
    BY <1>1, <1>2, HooksAssumption DEF Idle, Phases, Kinds
  <2>3. scripts' = scripts /\ reused' \in BOOLEAN
    BY <1>0, <1>6 DEF Record
  <2> HIDE DEF ProcTyped
  <2> QED
    BY <1>0, <2>1, <2>2, <2>3
<1>7. ASSUME NEW p \in Procs, NEW r \in Requests, Replay(p, r) PROVE Rest
  <2>1. ProcTyped([Idle EXCEPT !.phase = "byId", !.request = r])
    BY <1>1, <1>2 DEF Idle, Phases
  <2> HIDE DEF ProcTyped
  <2> QED
    BY <1>0, <1>2, <1>7, <2>1 DEF Replay, Answers
<1>8. ASSUME NEW p \in Procs, Hook(p) PROVE Rest
  <2>1. ASSUME proc[p].phase \in Asking
        PROVE  /\ ProcTyped([proc[p] EXCEPT !.phase = "print"])
               /\ ProcTyped([proc[p] EXCEPT !.phase = "byTool"])
    BY <1>0, <2>1 DEF Phases, Asking
  <2>2. proc[p].phase \in Asking /\ scripts' = scripts /\ reused' = reused
    BY <1>8 DEF Hook, RecordDecision, AskById, AskByTool, PrintDecision, Asking
  <2>3. \/ proc' = [proc EXCEPT ![p].phase = "print"]
        \/ proc' = [proc EXCEPT ![p].phase = "byTool"]
        \/ proc' = [proc EXCEPT ![p] = Idle]
    BY <1>8 DEF Hook, RecordDecision, AskById, AskByTool, PrintDecision, Goes, Answers
  <2> HIDE DEF ProcTyped
  <2> QED
    BY <1>0, <1>2, <2>1, <2>2, <2>3
<1>9. ASSUME NEW p \in Procs, Kill(p) PROVE Rest
  <2>1. scripts' \in [Events -> Bodies] /\ reused' = reused /\ proc' = [proc EXCEPT ![p] = Idle]
    BY <1>0, <1>9 DEF Kill, Bodies
  <2> HIDE DEF ProcTyped
  <2> QED
    BY <1>0, <1>2, <2>1
<1>10. ASSUME NEW event \in Events, Edit(event) PROVE Rest
  BY <1>0, <1>10 DEF Edit, Bodies
<1>11. CASE UNCHANGED vars
  BY <1>11 DEF vars, HooksTyped, TornLast
<1>12. ASSUME Next PROVE Rest
  BY <1>4, <1>5, <1>6, <1>7, <1>8, <1>9, <1>10, <1>12 DEF Next
<1>13. ASSUME Rest PROVE /\ proc' \in [Procs -> [phase : Phases, mode : Modes,
                           request : Requests \cup {NoRequest}, decision : Kinds,
                           digests : [Events -> Bodies], todo : Seq(Events)]]
                         /\ \A p \in Procs :
                               /\ proc'[p].phase \in Asking => proc'[p].request \in Requests
                               /\ proc'[p].phase \in {"write", "digest"} => proc'[p].todo # << >>
  BY <1>13
<1>14. ASSUME Next PROVE HooksTyped' /\ TornLast'
  <2>1. decisions' \in Seq(Lines \cup {TornLine}) /\ TornLast'
    BY <1>14, StepGrows, AppendKeepsLines
  <2>2. Rest
    BY <1>12, <1>14
  <2> QED
    BY <1>13, <2>1, <2>2 DEF HooksTyped
<1> QED
  BY <1>11, <1>14

-----------------------------------------------------------------------------
(* Replays agree, and allow what was allowed *)

\* The line is the first with its id.
FirstWithId(i) ==
    /\ decisions[i] # TornLine
    /\ \A j \in DOMAIN decisions : j < i => decisions[j].id # decisions[i].id

\* An answer found by its id is that of the first line with the id.
AnsweredByFirst ==
    \A a \in forced :
        a.by = "id" =>
            \E i \in DOMAIN decisions :
                FirstWithId(i) /\ decisions[i].id = a.id /\ decisions[i].decision = a.decision

\* Where a replaying hook takes its answer from.
LEMMA WhereFrom ==
    ASSUME HooksTyped, TornLast, Next
    PROVE  \/ forced' = forced
           \/ \E r \in Requests, i \in DOMAIN decisions :
                 /\ FirstWithId(i) /\ decisions[i].id = r.id
                 /\ forced' = forced \cup {Answer(r, decisions[i].decision, "id")}
           \/ \E r \in Requests, i \in DOMAIN decisions :
                 /\ decisions[i] # TornLine
                 /\ decisions[i].event = r.event /\ decisions[i].tool = r.tool
                 /\ forced' = forced \cup {Answer(r, decisions[i].decision, "tool")}
           \/ \E r \in Requests : forced' = forced \cup {Answer(r, "deny", "none")}
           \/ \E r \in Requests :
                 r.tool \in Live /\ forced' = forced \cup {Answer(r, "allow", "live")}
<1>1. ASSUME NEW p \in Procs, AskById(p), ~Unreadable, SameId(proc[p].request) # {}
      PROVE  \E i \in DOMAIN decisions :
                 /\ FirstWithId(i) /\ decisions[i].id = proc[p].request.id
                 /\ FirstOf(SameId(proc[p].request)) = decisions[i]
  <2> DEFINE H == SameId(proc[p].request)
  <2>1. H \subseteq DOMAIN decisions /\ H # {}
    BY <1>1 DEF SameId
  <2>2. PICK i \in H : FirstOf(H) = decisions[i] /\ \A j \in H : i <= j
    <3> HIDE DEF H
    <3> QED
      BY <2>1, FirstOfIsFirst
  <2>3. decisions[i].id = proc[p].request.id /\ decisions[i] # TornLine
    BY <1>1, <2>1 DEF SameId, Unreadable, Range
  <2>4. ASSUME NEW j \in DOMAIN decisions, j < i PROVE decisions[j].id # decisions[i].id
    BY <2>1, <2>2, <2>3, <2>4 DEF SameId, HooksTyped
  <2> QED
    BY <2>1, <2>2, <2>3, <2>4 DEF FirstWithId
<1>2. ASSUME NEW p \in Procs, AskByTool(p), ~Unreadable, SameTool(proc[p].request) # {}
      PROVE  \E i \in DOMAIN decisions :
                 /\ decisions[i] # TornLine
                 /\ decisions[i].event = proc[p].request.event
                 /\ decisions[i].tool = proc[p].request.tool
                 /\ FirstOf(SameTool(proc[p].request)) = decisions[i]
  <2> DEFINE H == SameTool(proc[p].request)
  <2>1. H \subseteq DOMAIN decisions /\ H # {}
    BY <1>2 DEF SameTool
  <2>2. PICK i \in H : FirstOf(H) = decisions[i]
    <3> HIDE DEF H
    <3> QED
      BY <2>1, FirstOfIsFirst
  <2> QED
    BY <1>2, <2>1, <2>2 DEF SameTool, Unreadable, Range
<1>3. \A p \in Procs : AskById(p) \/ AskByTool(p) => proc[p].request \in Requests
  BY DEF AskById, AskByTool, HooksTyped, Asking
<1>4. ASSUME NEW p \in Procs, AskById(p)
      PROVE  \/ forced' = forced
             \/ \E i \in DOMAIN decisions :
                   /\ FirstWithId(i) /\ decisions[i].id = proc[p].request.id
                   /\ forced' = forced \cup {Answer(proc[p].request, decisions[i].decision, "id")}
  BY <1>1, <1>4 DEF AskById, Answers
<1>5. ASSUME NEW p \in Procs, AskByTool(p)
      PROVE  \/ forced' = forced
             \/ \E i \in DOMAIN decisions :
                   /\ decisions[i] # TornLine
                   /\ decisions[i].event = proc[p].request.event
                   /\ decisions[i].tool = proc[p].request.tool
                   /\ forced' = forced \cup {Answer(proc[p].request, decisions[i].decision, "tool")}
             \/ forced' = forced \cup {Answer(proc[p].request, "deny", "none")}
  BY <1>2, <1>5 DEF AskByTool, Answers, FailClosed
<1>6. ASSUME NEW p \in Procs, NEW r \in Requests, Replay(p, r)
      PROVE  \/ forced' = forced
             \/ r.tool \in Live /\ forced' = forced \cup {Answer(r, "allow", "live")}
  BY <1>6 DEF Replay, Answers
<1>7. \/ forced' = forced
      \/ \E p \in Procs : AskById(p) \/ AskByTool(p) \/ \E r \in Requests : Replay(p, r)
  BY DEF Next, Edit, Install, Installation, WriteScript, DigestScript, SetHookDigests, Record,
         Hook, RecordDecision, PrintDecision, Kill
<1> QED
  BY <1>3, <1>4, <1>5, <1>6, <1>7

LEMMA FirstStays ==
    ASSUME HooksTyped, TornLast, Grows, NEW i \in DOMAIN decisions, FirstWithId(i)
    PROVE  i \in DOMAIN decisions' /\ decisions'[i] = decisions[i] /\ FirstWithId(i)'
<1>1. /\ decisions' \in Seq(Lines \cup {TornLine})
      /\ \A j \in DOMAIN decisions : j \in DOMAIN decisions' /\ decisions'[j] = decisions[j]
  BY AppendKeepsLines
<1>2. \A j \in DOMAIN decisions' : j < i => j \in DOMAIN decisions
  BY <1>1 DEF HooksTyped
<1> QED
  BY <1>1, <1>2 DEF FirstWithId

LEMMA AnsweredStep ==
    ASSUME HooksTyped, TornLast, AnsweredByFirst, [Next]_vars
    PROVE  AnsweredByFirst'
<1>1. ASSUME Next PROVE AnsweredByFirst'
  <2> SUFFICES ASSUME NEW a \in forced', a.by = "id"
               PROVE  \E i \in DOMAIN decisions' : /\ FirstWithId(i)' /\ decisions'[i].id = a.id
                                                   /\ decisions'[i].decision = a.decision
    BY DEF AnsweredByFirst
  <2>1. \E i \in DOMAIN decisions : /\ FirstWithId(i) /\ decisions[i].id = a.id
                                    /\ decisions[i].decision = a.decision
    <3>1. CASE a \in forced
      BY <3>1 DEF AnsweredByFirst
    <3>2. CASE a \notin forced
      BY <1>1, <3>2, WhereFrom DEF Answer
    <3> QED
      BY <3>1, <3>2
  <2>2. PICK i \in DOMAIN decisions : /\ FirstWithId(i) /\ decisions[i].id = a.id
                                     /\ decisions[i].decision = a.decision
    BY <2>1
  <2> QED
    BY <1>1, <2>2, StepGrows, FirstStays
<1>2. CASE UNCHANGED vars
  BY <1>2 DEF vars, AnsweredByFirst, FirstWithId
<1> QED
  BY <1>1, <1>2

LEMMA BackedStep ==
    ASSUME HooksTyped, TornLast, AllowIsBacked, [Next]_vars
    PROVE  AllowIsBacked'
<1> DEFINE Backs(i, a) == /\ decisions[i] # TornLine /\ decisions[i].decision = "allow"
                          /\ decisions[i].id = a.id \/ SameCall(decisions[i], a)
<1>1. ASSUME Next PROVE AllowIsBacked'
  <2> SUFFICES ASSUME NEW a \in forced', a.decision = "allow", a.tool \notin Live
               PROVE  \E i \in DOMAIN decisions' :
                          /\ decisions'[i] # TornLine /\ decisions'[i].decision = "allow"
                          /\ decisions'[i].id = a.id \/ SameCall(decisions'[i], a)
    BY DEF AllowIsBacked
  <2>1. \E i \in DOMAIN decisions : Backs(i, a)
    <3>1. CASE a \in forced
      BY <3>1 DEF AllowIsBacked
    <3>2. CASE a \notin forced
      BY <1>1, <3>2, WhereFrom DEF Answer, SameCall, FirstWithId
    <3> QED
      BY <3>1, <3>2
  <2>2. PICK i \in DOMAIN decisions : Backs(i, a)
    BY <2>1
  <2>3. i \in DOMAIN decisions' /\ decisions'[i] = decisions[i]
    BY <1>1, StepGrows, AppendKeepsLines
  <2> QED
    BY <2>2, <2>3
<1>2. CASE UNCHANGED vars
  BY <1>2 DEF vars, AllowIsBacked
<1> QED
  BY <1>1, <1>2

\* Every hook call and line is typed, in every reachable state.
LEMMA HooksAreTyped == Spec => [](HooksTyped /\ TornLast)
<1>1. HooksTyped /\ TornLast /\ [Next]_vars => HooksTyped' /\ TornLast'
  BY NextTyped
<1> QED
  BY InitTyped, <1>1, PTL DEF Spec

\* replay_decision: two replaying hooks that find the id of their call print
\* the same decision, whatever is appended between them, however often an id
\* is used and wherever a recording hook is cut off.
THEOREM ReplaysAreAlike == Spec => []ReplaysAgree
<1>1. Init => AnsweredByFirst
  BY DEF Init, AnsweredByFirst
<1>2. HooksTyped /\ TornLast /\ AnsweredByFirst /\ [Next]_vars => AnsweredByFirst'
  BY AnsweredStep
<1>3. ASSUME HooksTyped, AnsweredByFirst PROVE ReplaysAgree
  <2> SUFFICES ASSUME NEW a \in forced, NEW b \in forced, a.id = b.id, a.by = "id", b.by = "id"
               PROVE  a.decision = b.decision
    BY DEF ReplaysAgree
  <2>1. PICK i \in DOMAIN decisions : FirstWithId(i) /\ decisions[i].id = a.id
                                     /\ decisions[i].decision = a.decision
    BY <1>3 DEF AnsweredByFirst
  <2>2. PICK j \in DOMAIN decisions : FirstWithId(j) /\ decisions[j].id = b.id
                                     /\ decisions[j].decision = b.decision
    BY <1>3 DEF AnsweredByFirst
  <2>3. ~(i < j) /\ ~(j < i)
    BY <2>1, <2>2 DEF FirstWithId
  <2>4. i = j
    BY <1>3, <2>3 DEF HooksTyped
  <2> QED
    BY <2>1, <2>2, <2>4
<1>4. HooksTyped /\ TornLast /\ AnsweredByFirst => ReplaysAgree
  BY <1>3
<1> QED
  BY <1>1, <1>2, <1>4, HooksAreTyped, PTL DEF Spec

\* replay_decision fails closed: a replaying hook allows a tool only when it is
\* marked live or a recording hook had allowed its call.
THEOREM ReplaysFailClosed == Spec => []AllowIsBacked
<1>1. Init => AllowIsBacked
  BY DEF Init, AllowIsBacked
<1>2. HooksTyped /\ TornLast /\ AllowIsBacked /\ [Next]_vars => AllowIsBacked'
  BY BackedStep
<1> QED
  BY <1>1, <1>2, HooksAreTyped, PTL DEF Spec

-----------------------------------------------------------------------------
(* What was printed is what is replayed *)

NoLineOf(id) == \A i \in DOMAIN decisions : decisions[i] # TornLine => decisions[i].id # id

\* A line is in the file, or it was glued to a torn one, and then no line of
\* its id is there and none will be.
Kept(line) ==
    \/ \E i \in DOMAIN decisions : decisions[i] = line
    \/ Unreadable /\ NoLineOf(line.id)

\* As long as no id is used twice, each has one line or one hook that is about
\* to append one, and what was printed is kept.
IdsOnce ==
    ~reused =>
        /\ \A i, j \in DOMAIN decisions :
              decisions[i] # TornLine /\ decisions[j] # TornLine
              /\ decisions[i].id = decisions[j].id => i = j
        /\ \A p \in Procs : proc[p].phase = "append" => NoLineOf(proc[p].request.id)
        /\ \A p, q \in Procs :
              proc[p].phase = "append" /\ proc[q].phase = "append"
              /\ proc[p].request.id = proc[q].request.id => p = q
        /\ \A p \in Procs :
              proc[p].phase = "print" => Kept(Line(proc[p].request, proc[p].decision))
        /\ emitted \subseteq Lines
        /\ \A line \in emitted : Kept(line)

\* A line that is kept stays kept.
LEMMA StaysKept ==
    ASSUME HooksTyped, TornLast, Grows, NEW line \in Lines, Kept(line)
    PROVE  Kept(line)'
<1>1. CASE decisions' = decisions
  BY <1>1 DEF Kept, Unreadable, NoLineOf
<1>2. CASE ~Unreadable
  <2>1. PICK i \in DOMAIN decisions : decisions[i] = line
    BY <1>2 DEF Kept
  <2> QED
    BY <2>1, AppendKeepsLines DEF Kept
<1> QED
  BY <1>1, <1>2 DEF Grows

\* Steps that leave the lines alone and start no recording hook.
LEMMA QuietKeepsIds ==
    ASSUME HooksTyped, TornLast, IdsOnce,
           UNCHANGED <<decisions, emitted, reused>>,
           \A p \in Procs : proc'[p].phase \in {"append", "print"} => proc'[p] = proc[p]
    PROVE  IdsOnce'
BY DEF IdsOnce, Kept, NoLineOf, Unreadable

LEMMA RecordKeepsIds ==
    ASSUME HooksTyped, TornLast, IdsOnce, NEW p \in Procs, NEW r \in Requests, Record(p, r)
    PROVE  IdsOnce'
<1> SUFFICES ASSUME ~reused' PROVE IdsOnce'
  BY DEF IdsOnce
<1>1. ~reused /\ ~IdInUse(r.id) /\ UNCHANGED <<decisions, emitted>>
  BY DEF Record, HooksTyped
<1>2. /\ proc'[p].phase = "append" /\ proc'[p].request = r
      /\ \A q \in Procs \ {p} : proc'[q] = proc[q]
  BY DEF Record, HooksTyped, Idle
<1>3. /\ NoLineOf(r.id)
      /\ \A q \in Procs : proc[q].phase = "append" => proc[q].request.id # r.id
  BY <1>1 DEF IdInUse, NoLineOf, Range
<1>4. ASSUME NEW q \in Procs, proc'[q].phase = "append"
      PROVE  NoLineOf(proc'[q].request.id) /\ (q # p => proc'[q].request.id # r.id)
  <2>1. CASE q = p
    BY <1>2, <1>3, <2>1
  <2>2. CASE q # p
    BY <1>1, <1>2, <1>3, <1>4, <2>2 DEF IdsOnce
  <2> QED
    BY <2>1, <2>2
<1>5. ASSUME NEW q \in Procs, NEW u \in Procs,
             proc'[q].phase = "append", proc'[u].phase = "append",
             proc'[q].request.id = proc'[u].request.id
      PROVE  q = u
  BY <1>1, <1>2, <1>4, <1>5 DEF IdsOnce
<1>6. ASSUME NEW q \in Procs, proc'[q].phase = "print"
      PROVE  Kept(Line(proc'[q].request, proc'[q].decision))
  BY <1>1, <1>2, <1>6 DEF IdsOnce
<1>7. ~reused' /\ decisions' = decisions /\ emitted' = emitted
  BY <1>1
<1>8. ASSUME NEW q \in Procs, proc'[q].phase = "append"
      PROVE  NoLineOf(proc[q].request.id)'
  BY <1>4, <1>7, <1>8 DEF NoLineOf
<1>9. ASSUME NEW q \in Procs, proc'[q].phase = "print"
      PROVE  Kept(Line(proc[q].request, proc[q].decision))'
  BY <1>2, <1>6, <1>7, <1>9 DEF Kept, NoLineOf, Unreadable
<1>10. \A line \in emitted' : Kept(line)'
  BY <1>1, <1>7 DEF IdsOnce, Kept, NoLineOf, Unreadable
<1> QED
  BY <1>1, <1>5, <1>7, <1>8, <1>9, <1>10 DEF IdsOnce

LEMMA AppendKeepsIds ==
    ASSUME HooksTyped, TornLast, IdsOnce, NEW p \in Procs, RecordDecision(p)
    PROVE  IdsOnce'
<1> SUFFICES ASSUME ~reused PROVE IdsOnce'
  BY DEF IdsOnce, RecordDecision
<1> PICK line : line = Line(proc[p].request, proc[p].decision)
  OBVIOUS
<1>1. /\ line \in Lines /\ line # TornLine /\ line.id = proc[p].request.id
      /\ proc[p].phase = "append" /\ NoLineOf(line.id)
  BY LineFields, HooksAssumption DEF RecordDecision, HooksTyped, Asking, IdsOnce
<1>2. /\ proc'[p].phase = "print" /\ Line(proc'[p].request, proc'[p].decision) = line
      /\ \A q \in Procs \ {p} : proc'[q] = proc[q]
      /\ UNCHANGED <<emitted, reused>> /\ decisions' = Appended(line)
  BY DEF RecordDecision, Goes, HooksTyped
<1>3. Grows
  BY <1>1, StepGrows DEF Next, Hook
<1>4. \/ Unreadable /\ decisions' = decisions
      \/ ~Unreadable /\ decisions' = Append(decisions, line)
  BY <1>1, <1>2, AppendedLine
<1>5. /\ Kept(line)'
      /\ \A i \in DOMAIN decisions' : decisions'[i] # TornLine =>
            decisions'[i] = line \/ (i \in DOMAIN decisions /\ decisions'[i] = decisions[i])
      /\ \A i, j \in DOMAIN decisions' : decisions'[i] = line /\ decisions'[j] = line => i = j
  <2>1. CASE Unreadable /\ decisions' = decisions
    BY <1>1, <2>1 DEF Kept, NoLineOf, Unreadable
  <2>2. CASE ~Unreadable /\ decisions' = Append(decisions, line)
    <3>1. /\ DOMAIN decisions' = 1 .. Len(decisions) + 1 /\ DOMAIN decisions = 1 .. Len(decisions)
          /\ decisions'[Len(decisions) + 1] = line /\ Len(decisions) \in Nat
          /\ \A i \in DOMAIN decisions : decisions'[i] = decisions[i] /\ decisions[i] # line
      BY <1>1, <2>2 DEF HooksTyped, NoLineOf
    <3>2. \A i \in DOMAIN decisions' : i = Len(decisions) + 1 \/ i \in DOMAIN decisions
      BY <3>1
    <3>3. Len(decisions) + 1 \in DOMAIN decisions'
      BY <3>1
    <3>4. Kept(line)'
      BY <3>1, <3>3 DEF Kept
    <3> QED
      BY <3>1, <3>2, <3>4
  <2> QED
    BY <1>4, <2>1, <2>2
<1>6. ASSUME NEW i \in DOMAIN decisions', NEW j \in DOMAIN decisions',
             decisions'[i] # TornLine, decisions'[j] # TornLine,
             decisions'[i].id = decisions'[j].id
      PROVE  i = j
  <2>1. CASE decisions'[i] = line \/ decisions'[j] = line
    BY <1>1, <1>5, <1>6, <2>1 DEF NoLineOf
  <2>2. CASE decisions'[i] # line /\ decisions'[j] # line
    BY <1>5, <1>6, <2>2 DEF IdsOnce
  <2> QED
    BY <2>1, <2>2
<1>7. ASSUME NEW q \in Procs, proc'[q].phase = "append"
      PROVE  /\ q # p /\ proc'[q] = proc[q] /\ NoLineOf(proc[q].request.id)'
  <2>1. q # p /\ proc'[q] = proc[q] /\ proc[q].phase = "append"
    BY <1>2, <1>7
  <2>2. NoLineOf(proc[q].request.id) /\ proc[q].request.id # line.id
    BY <1>1, <2>1 DEF IdsOnce
  <2> QED
    BY <1>5, <2>1, <2>2 DEF NoLineOf
<1>8. ASSUME NEW q \in Procs, proc'[q].phase = "print"
      PROVE  Kept(Line(proc[q].request, proc[q].decision))'
  <2>1. CASE q = p
    BY <1>2, <1>5, <2>1 DEF Kept
  <2>2. CASE q # p
    <3>1. proc'[q] = proc[q] /\ proc[q].phase = "print"
      BY <1>2, <1>8, <2>2
    <3>2. /\ Line(proc[q].request, proc[q].decision) \in Lines
          /\ Kept(Line(proc[q].request, proc[q].decision))
      BY <3>1, LineFields DEF HooksTyped, Asking, IdsOnce
    <3>3. PICK l \in Lines : l = Line(proc[q].request, proc[q].decision) /\ Kept(l)
      BY <3>2
    <3>4. Kept(l)' /\ l = Line(proc'[q].request, proc'[q].decision)
      BY <1>3, <3>1, <3>3, StaysKept
    <3> QED
      BY <3>4 DEF Kept
  <2> QED
    BY <2>1, <2>2
<1>9. \A l \in emitted' : l \in Lines /\ Kept(l)'
  BY <1>2, <1>3, StaysKept DEF IdsOnce
<1> QED
  BY <1>2, <1>6, <1>7, <1>8, <1>9 DEF IdsOnce

LEMMA PrintKeepsIds ==
    ASSUME HooksTyped, TornLast, IdsOnce, NEW p \in Procs, PrintDecision(p)
    PROVE  IdsOnce'
<1> SUFFICES ASSUME ~reused PROVE IdsOnce'
  BY DEF IdsOnce, PrintDecision
<1> PICK line : line = Line(proc[p].request, proc[p].decision)
  OBVIOUS
<1>1. line \in Lines /\ Kept(line)
  BY LineFields DEF PrintDecision, HooksTyped, Asking, IdsOnce
<1>2. /\ UNCHANGED <<decisions, reused>> /\ emitted' = emitted \cup {line}
      /\ \A q \in Procs : proc'[q].phase \in {"append", "print"} => proc'[q] = proc[q]
  BY DEF PrintDecision, HooksTyped, Idle
<1> QED
  BY <1>1, <1>2 DEF IdsOnce, Kept, NoLineOf, Unreadable

LEMMA KillKeepsIds ==
    ASSUME HooksTyped, TornLast, IdsOnce, NEW p \in Procs, Kill(p)
    PROVE  IdsOnce'
<1> SUFFICES ASSUME ~reused PROVE IdsOnce'
  BY DEF IdsOnce, Kill
<1>1. /\ UNCHANGED <<emitted, reused>>
      /\ \A q \in Procs : proc'[q].phase \in {"append", "print"} => proc'[q] = proc[q]
  BY DEF Kill, HooksTyped, Idle
<1>2. Grows
  BY StepGrows DEF Next
<1>3. \A i \in DOMAIN decisions' : decisions'[i] # TornLine =>
          i \in DOMAIN decisions /\ decisions'[i] = decisions[i]
  <2>1. decisions' = decisions \/ decisions' = Append(decisions, TornLine)
    BY AppendedLine DEF Kill
  <2>2. CASE decisions' = Append(decisions, TornLine)
    <3>1. /\ DOMAIN decisions' = 1 .. Len(decisions) + 1 /\ DOMAIN decisions = 1 .. Len(decisions)
          /\ decisions'[Len(decisions) + 1] = TornLine /\ Len(decisions) \in Nat
          /\ \A i \in DOMAIN decisions : decisions'[i] = decisions[i]
      BY <2>2 DEF HooksTyped
    <3>2. \A i \in DOMAIN decisions' : i = Len(decisions) + 1 \/ i \in DOMAIN decisions
      BY <3>1
    <3> QED
      BY <3>1, <3>2
  <2> QED
    BY <2>1, <2>2
<1>4. ASSUME NEW id, NoLineOf(id) PROVE NoLineOf(id)'
  BY <1>3, <1>4 DEF NoLineOf
<1>5. ASSUME NEW q \in Procs, proc'[q].phase = "append"
      PROVE  proc'[q] = proc[q] /\ NoLineOf(proc[q].request.id)'
  <2>1. proc'[q] = proc[q] /\ NoLineOf(proc[q].request.id)
    BY <1>1, <1>5 DEF IdsOnce
  <2> QED
    BY <1>3, <2>1 DEF NoLineOf
<1>6. ASSUME NEW q \in Procs, proc'[q].phase = "print"
      PROVE  Kept(Line(proc[q].request, proc[q].decision))'
  <2>1. PICK l : l = Line(proc[q].request, proc[q].decision)
    OBVIOUS
  <2>2. proc'[q] = proc[q] /\ l \in Lines /\ Kept(l)
    BY <1>1, <1>6, <2>1, LineFields DEF HooksTyped, Asking, IdsOnce
  <2>3. Kept(l)' /\ l = Line(proc'[q].request, proc'[q].decision)
    BY <1>2, <2>1, <2>2, StaysKept
  <2> QED
    BY <2>3 DEF Kept
<1>7. \A l \in emitted' : l \in Lines /\ Kept(l)'
  BY <1>1, <1>2, StaysKept DEF IdsOnce
<1>8. \A i, j \in DOMAIN decisions' :
          decisions'[i] # TornLine /\ decisions'[j] # TornLine
          /\ decisions'[i].id = decisions'[j].id => i = j
  BY <1>3 DEF IdsOnce
<1>9. \A q, u \in Procs :
          proc'[q].phase = "append" /\ proc'[u].phase = "append"
          /\ proc'[q].request.id = proc'[u].request.id => q = u
  BY <1>5 DEF IdsOnce
<1> QED
  BY <1>5, <1>6, <1>7, <1>8, <1>9 DEF IdsOnce

LEMMA NextIds ==
    ASSUME HooksTyped, TornLast, IdsOnce, [Next]_vars
    PROVE  IdsOnce'
<1>1. ASSUME NEW p \in Procs, AskById(p) \/ AskByTool(p) PROVE IdsOnce'
  <2>1. /\ UNCHANGED <<decisions, emitted, reused>>
        /\ \A q \in Procs : proc'[q].phase \in {"append", "print"} => proc'[q] = proc[q]
    BY <1>1 DEF AskById, AskByTool, Answers, Goes, HooksTyped, Idle
  <2> QED
    BY <2>1, QuietKeepsIds
<1>2. ASSUME NEW p \in Procs, NEW r \in Requests, Replay(p, r) PROVE IdsOnce'
  <2>1. /\ UNCHANGED <<decisions, emitted, reused>>
        /\ \A q \in Procs : proc'[q].phase \in {"append", "print"} => proc'[q] = proc[q]
    BY <1>2 DEF Replay, Answers, HooksTyped, Idle
  <2> QED
    BY <2>1, QuietKeepsIds
<1>3. ASSUME NEW p \in Procs, Installation(p) \/ \E mode \in Modes : Install(p, mode)
      PROVE  IdsOnce'
  <2>1. /\ UNCHANGED <<decisions, emitted, reused>>
        /\ \A q \in Procs \ {p} : proc'[q] = proc[q]
    BY <1>3 DEF Installation, Install, WriteScript, DigestScript, SetHookDigests, Goes, HooksTyped
  <2>2. proc'[p].phase \notin {"append", "print"}
    <3>1. CASE \E mode \in Modes : Install(p, mode)
      BY <3>1 DEF Install, HooksTyped, Idle
    <3>2. CASE WriteScript(p) \/ SetHookDigests(p)
      BY <3>2 DEF WriteScript, SetHookDigests, Goes, HooksTyped, Idle
    <3>3. CASE DigestScript(p)
      BY <3>3 DEF DigestScript, HooksTyped
    <3> QED
      BY <1>3, <3>1, <3>2, <3>3 DEF Installation
  <2> QED
    BY <2>1, <2>2, QuietKeepsIds
<1>4. ASSUME NEW event \in Events, Edit(event) PROVE IdsOnce'
  BY <1>4, QuietKeepsIds DEF Edit
<1>5. CASE UNCHANGED vars
  BY <1>5, QuietKeepsIds DEF vars
<1> QED
  BY <1>1, <1>2, <1>3, <1>4, <1>5, RecordKeepsIds, AppendKeepsIds, PrintKeepsIds, KillKeepsIds
     DEF Next, Hook

\* record_decision and replay_decision: while the agent uses no id twice, what a
\* recording hook printed for an id is what every replaying hook that finds
\* the id prints, however hooks interleave and wherever they are cut off.
THEOREM PrintedIsReplayed == Spec => []EmittedIsForced
<1>1. Init => IdsOnce /\ AnsweredByFirst
  BY DEF Init, IdsOnce, AnsweredByFirst, Idle
<1>2. HooksTyped /\ TornLast /\ IdsOnce /\ AnsweredByFirst /\ [Next]_vars
      => IdsOnce' /\ AnsweredByFirst'
  BY NextIds, AnsweredStep
<1>3. ASSUME HooksTyped, IdsOnce, AnsweredByFirst, ~reused,
             NEW line \in emitted, NEW answer \in forced, answer.id = line.id, answer.by = "id"
      PROVE  answer.decision = line.decision
  <2>1. PICK i \in DOMAIN decisions :
            decisions[i] # TornLine /\ decisions[i].id = answer.id
            /\ decisions[i].decision = answer.decision
    BY <1>3 DEF AnsweredByFirst, FirstWithId
  <2>2. ~NoLineOf(line.id)
    BY <1>3, <2>1 DEF NoLineOf
  <2>3. PICK j \in DOMAIN decisions : decisions[j] = line
    BY <1>3, <2>2 DEF IdsOnce, Kept
  <2>4. line # TornLine
    BY <1>3, HooksAssumption DEF IdsOnce
  <2>5. i = j
    BY <1>3, <2>1, <2>3, <2>4 DEF IdsOnce
  <2> QED
    BY <2>1, <2>3, <2>5
<1>4. HooksTyped /\ TornLast /\ IdsOnce /\ AnsweredByFirst => EmittedIsForced
  BY <1>3 DEF EmittedIsForced
<1> QED
  BY <1>1, <1>2, <1>4, HooksAreTyped, PTL DEF Spec

-----------------------------------------------------------------------------
(* Installations that do not overlap *)

\* The script of PreToolUse is written and digested, that of PostToolUse not.
Halfway(r) ==
    /\ r.todo = <<"PostToolUse">>
    /\ scripts["PreToolUse"] = r.mode
    /\ r.digests = [NoDigests EXCEPT !["PreToolUse"] = r.mode]

Begun(r) ==
    \/ r.todo = <<"PreToolUse", "PostToolUse">> /\ r.digests = NoDigests
    \/ Halfway(r)

\* What a process that installs hooks has written so far.
HasWritten(r) ==
    /\ r.phase \in {"write", "digest"} => Begun(r)
    /\ r.phase = "digest" => scripts[Head(r.todo)] = r.mode
    /\ r.phase = "header" =>
          \A e \in Events : scripts[e] = r.mode /\ r.digests[e] = r.mode

\* Unless installations have overlapped, one process at most installs hooks,
\* all it has done is there, the digests recorded are of one mode, and with
\* nothing under way a script that does not have its digest was edited.
InstallInv ==
    /\ kills \in Nat
    /\ ~raced =>
          /\ \A p, q \in Procs : Installing(p) /\ Installing(q) => p = q
          /\ \A p \in Procs : HasWritten(proc[p])
          /\ digests["PreToolUse"] = digests["PostToolUse"]
          /\ AtRest /\ kills = 0 => \A e \in Events : scripts[e] \in {digests[e], "edited"}

\* A step that installs nothing, writes no script and cuts nobody off.
LEMMA QuietKeepsInstall ==
    ASSUME InstallInv, UNCHANGED <<scripts, digests, raced, kills>>,
           \A q \in Procs : proc'[q] = proc[q] \/ (~Installing(q) /\ ~Installing(q)')
    PROVE  InstallInv'
<1>1. \A q \in Procs : Installing(q)' <=> Installing(q)
  BY DEF Installing
<1>2. ASSUME NEW q \in Procs, HasWritten(proc[q]) PROVE HasWritten(proc[q])'
  BY <1>2 DEF HasWritten, Installing, Begun, Halfway
<1> QED
  BY <1>1, <1>2 DEF InstallInv, AtRest

LEMMA InstallKeepsInstall ==
    ASSUME HooksTyped, InstallInv, NEW p \in Procs, NEW mode \in Modes, Install(p, mode)
    PROVE  InstallInv'
<1> SUFFICES ASSUME ~raced' PROVE InstallInv'
  BY DEF InstallInv, Install
<1>1. ~raced /\ \A q \in Procs : ~Installing(q)
  BY DEF Install
<1>2. /\ proc'[p] = [Idle EXCEPT !.phase = "write", !.mode = mode,
                                 !.todo = <<"PreToolUse", "PostToolUse">>]
      /\ \A q \in Procs \ {p} : proc'[q] = proc[q]
      /\ UNCHANGED <<scripts, digests, kills>>
  BY DEF Install, HooksTyped
<1>3. HasWritten(proc[p])' /\ Installing(p)'
  BY <1>2 DEF HasWritten, Begun, Idle, Installing
<1>4. ASSUME NEW q \in Procs \ {p} PROVE HasWritten(proc[q])' /\ ~Installing(q)'
  BY <1>1, <1>2 DEF HasWritten, Installing
<1> QED
  BY <1>1, <1>2, <1>3, <1>4 DEF InstallInv, AtRest

\* A step of the one process that installs hooks, which then still does.
LEMMA GoesOnInstalling ==
    ASSUME HooksTyped, InstallInv, NEW p \in Procs, Installing(p), Installing(p)',
           \A q \in Procs \ {p} : proc'[q] = proc[q],
           UNCHANGED <<digests, raced, kills>>, ~raced => HasWritten(proc[p])'
    PROVE  InstallInv'
<1> SUFFICES ASSUME ~raced PROVE InstallInv'
  BY DEF InstallInv
<1>1. ASSUME NEW q \in Procs \ {p} PROVE HasWritten(proc[q])' /\ ~Installing(q)'
  <2>1. ~Installing(q) /\ proc'[q] = proc[q]
    BY DEF InstallInv
  <2> QED
    BY <2>1 DEF HasWritten, Installing
<1> QED
  BY <1>1 DEF InstallInv, AtRest

LEMMA InstallationKeepsInstall ==
    ASSUME HooksTyped, InstallInv, NEW p \in Procs, Installation(p)
    PROVE  InstallInv'
<1> SUFFICES ASSUME ~raced PROVE InstallInv'
  BY DEF InstallInv, Installation, WriteScript, DigestScript, SetHookDigests, bounds
<1> DEFINE r == proc[p]
<1>1. /\ Installing(p) /\ HasWritten(r) /\ r.mode \in Modes
      /\ r = [phase |-> r.phase, mode |-> r.mode, request |-> r.request,
              decision |-> r.decision, digests |-> r.digests, todo |-> r.todo]
      /\ UNCHANGED raced
      /\ \A q \in Procs \ {p} : proc'[q] = proc[q]
  BY DEF Installation, WriteScript, DigestScript, SetHookDigests, Installing, InstallInv,
     HooksTyped, Goes
<1>2. CASE WriteScript(p)
  <2>1. /\ r.phase = "write" /\ Begun(r) /\ proc'[p] = [r EXCEPT !.phase = "digest"]
        /\ scripts' = [scripts EXCEPT ![Head(r.todo)] = r.mode]
        /\ UNCHANGED <<digests, kills>>
    BY <1>1, <1>2 DEF WriteScript, Written, Goes, HasWritten, HooksTyped, bounds
  <2>2. Head(r.todo) \in Events /\ (Halfway(r) => Head(r.todo) = "PostToolUse")
    BY <2>1 DEF Begun, Halfway, Events
  <2>3. /\ scripts'[Head(r.todo)] = r.mode
        /\ Halfway(r) => scripts'["PreToolUse"] = scripts["PreToolUse"]
    BY <2>1, <2>2 DEF HooksTyped, Events
  <2>4. HasWritten(proc[p])' /\ Installing(p)'
    BY <2>1, <2>3 DEF HasWritten, Begun, Halfway, Installing
  <2> QED
    BY <1>1, <2>1, <2>4, GoesOnInstalling
<1>3. CASE DigestScript(p)
  <2> DEFINE event == Head(r.todo)
             rest == Tail(r.todo)
             phase == IF rest = << >> THEN "header" ELSE "write"
             dg == [r.digests EXCEPT ![event] = scripts[event]]
  <2>1. /\ r.phase = "digest" /\ Begun(r) /\ scripts[event] = r.mode
        /\ proc' = [proc EXCEPT ![p] = [@ EXCEPT !.digests[event] = scripts[event],
                                         !.todo = rest, !.phase = phase]]
        /\ UNCHANGED <<scripts, digests, kills>>
    BY <1>1, <1>3 DEF DigestScript, HasWritten, bounds
  <2>2. proc'[p] = [r EXCEPT !.digests = dg, !.todo = rest, !.phase = phase]
    BY <2>1 DEF HooksTyped
  <2>3. CASE r.todo = <<"PreToolUse", "PostToolUse">> /\ r.digests = NoDigests
    <3>1. event = "PreToolUse" /\ rest = <<"PostToolUse">> /\ phase = "write"
      BY <2>3
    <3>2. dg = [NoDigests EXCEPT !["PreToolUse"] = r.mode]
      BY <2>1, <2>3, <3>1
    <3>3. proc'[p].todo = <<"PostToolUse">> /\ proc'[p].phase = "write"
          /\ proc'[p].digests = [NoDigests EXCEPT !["PreToolUse"] = r.mode]
          /\ proc'[p].mode = r.mode
      BY <1>1, <2>2, <3>1, <3>2
    <3>4. HasWritten(proc[p])' /\ Installing(p)'
      BY <2>1, <3>1, <3>3 DEF HasWritten, Begun, Halfway, Installing
    <3> QED
      BY <1>1, <2>1, <3>4, GoesOnInstalling
  <2>4. CASE Halfway(r)
    <3>1. event = "PostToolUse" /\ rest = << >> /\ phase = "header"
      BY <2>4 DEF Halfway
    <3>2. \A e \in Events : dg[e] = r.mode /\ scripts[e] = r.mode
      BY <2>1, <2>4, <3>1 DEF Halfway, NoDigests, Events
    <3>3. proc'[p].phase = "header" /\ proc'[p].digests = dg /\ proc'[p].mode = r.mode
      BY <1>1, <2>2, <3>1
    <3>4. HasWritten(proc[p])' /\ Installing(p)'
      BY <2>1, <3>2, <3>3 DEF HasWritten, Installing
    <3> QED
      BY <1>1, <2>1, <3>4, GoesOnInstalling
  <2> QED
    BY <2>1, <2>3, <2>4 DEF Begun
<1>4. CASE SetHookDigests(p)
  <2>1. /\ r.phase = "header" /\ proc'[p] = Idle /\ UNCHANGED <<scripts, kills>>
        /\ digests' = Merged(digests, r.digests)
        /\ \A e \in Events : scripts[e] = r.mode /\ r.digests[e] = r.mode
    BY <1>1, <1>4 DEF SetHookDigests, HasWritten, HooksTyped, bounds
  <2>2. \A e \in Events : digests'[e] = r.mode /\ scripts'[e] = r.mode
    BY <1>1, <2>1 DEF Merged, Modes
  <2>3. ASSUME NEW q \in Procs PROVE HasWritten(proc[q])' /\ ~Installing(q)'
    <3>1. q # p => ~Installing(q) /\ proc'[q] = proc[q]
      BY <1>1 DEF InstallInv
    <3> QED
      BY <2>1, <3>1 DEF HasWritten, Installing, Idle
  <2> QED
    BY <1>1, <2>1, <2>2, <2>3 DEF InstallInv, AtRest, Events
<1> QED
  BY <1>2, <1>3, <1>4 DEF Installation

LEMMA EditKeepsInstall ==
    ASSUME HooksTyped, InstallInv, NEW event \in Events, Edit(event)
    PROVE  InstallInv'
<1> SUFFICES ASSUME ~raced' PROVE InstallInv'
  BY DEF InstallInv, Edit
<1>1. /\ ~raced /\ \A q \in Procs : ~Installing(q)
      /\ UNCHANGED <<digests, proc, kills>>
  BY DEF Edit
<1>2. \A e \in Events : scripts'[e] = scripts[e] \/ scripts'[e] = "edited"
  BY DEF Edit, HooksTyped
<1>3. \A q \in Procs : HasWritten(proc[q])' /\ ~Installing(q)'
  BY <1>1 DEF HasWritten, Installing
<1> QED
  BY <1>1, <1>2, <1>3 DEF InstallInv, AtRest

LEMMA KillKeepsInstall ==
    ASSUME HooksTyped, InstallInv, NEW p \in Procs, Kill(p)
    PROVE  InstallInv'
<1> SUFFICES ASSUME ~raced PROVE InstallInv'
  BY DEF InstallInv, Kill
<1>1. /\ UNCHANGED <<digests, raced>> /\ kills' \in Nat /\ kills' # 0
      /\ proc'[p] = Idle /\ \A q \in Procs \ {p} : proc'[q] = proc[q]
      /\ scripts' # scripts => Installing(p)
  BY DEF Kill, InstallInv, HooksTyped, Installing
<1>2. HasWritten(proc[p])' /\ ~Installing(p)'
  BY <1>1 DEF HasWritten, Installing, Idle
<1>3. ASSUME NEW q \in Procs \ {p} PROVE HasWritten(proc[q])' /\ (Installing(q)' <=> Installing(q))
  <2>1. proc'[q] = proc[q] /\ HasWritten(proc[q]) /\ (Installing(q) => scripts' = scripts)
    BY <1>1 DEF InstallInv
  <2> QED
    BY <2>1 DEF HasWritten, Installing, Begun, Halfway
<1> QED
  BY <1>1, <1>2, <1>3 DEF InstallInv

LEMMA NextInstall ==
    ASSUME HooksTyped, InstallInv, [Next]_vars
    PROVE  InstallInv'
<1>0. ASSUME NEW p \in Procs, NEW r \in Requests, Record(p, r) PROVE InstallInv'
  <2>1. UNCHANGED <<scripts, digests, raced, kills>>
    BY <1>0 DEF Record
  <2>2. PICK kind \in Forces \cup {"allow"} :
            proc' = [proc EXCEPT ![p] = [Idle EXCEPT !.phase = "append", !.request = r,
                                         !.decision = kind]]
    BY <1>0 DEF Record
  <2>3. proc[p] = Idle
    BY <1>0 DEF Record
  <2>4. ~Installing(p) /\ ~Installing(p)' /\ \A q \in Procs \ {p} : proc'[q] = proc[q]
    BY <2>2, <2>3 DEF Installing, HooksTyped, Idle
  <2> QED
    BY <2>1, <2>4, QuietKeepsInstall
<1>1. ASSUME NEW p \in Procs, NEW r \in Requests, Replay(p, r) PROVE InstallInv'
  <2>1. UNCHANGED <<scripts, digests, raced, kills>>
    BY <1>1, Zenon DEF Replay
  <2>2. \/ proc' = [proc EXCEPT ![p] = Idle]
        \/ proc' = [proc EXCEPT ![p] = [Idle EXCEPT !.phase = "byId", !.request = r]]
    BY <1>1, Zenon DEF Replay, Answers
  <2>3. proc[p] = Idle
    BY <1>1 DEF Replay
  <2>4. proc'[p].phase \in {"idle", "byId"} /\ \A q \in Procs \ {p} : proc'[q] = proc[q]
    <3>1. Idle.phase = "idle" /\ [Idle EXCEPT !.phase = "byId", !.request = r].phase = "byId"
      BY DEF Idle
    <3> QED
      BY <2>2, <3>1 DEF HooksTyped
  <2>5. ~Installing(p) /\ ~Installing(p)'
    BY <2>3, <2>4 DEF Installing, Idle
  <2> QED
    BY <2>1, <2>4, <2>5, QuietKeepsInstall
<1>2. ASSUME NEW p \in Procs, Hook(p) PROVE InstallInv'
  <2>1. /\ UNCHANGED <<scripts, digests, raced, kills>> /\ ~Installing(p)
        /\ \A q \in Procs \ {p} : proc'[q] = proc[q]
    BY <1>2 DEF Hook, RecordDecision, AskById, AskByTool, PrintDecision, Answers, Goes,
       Installing, HooksTyped, bounds
  <2>2. ~Installing(p)'
    BY <1>2 DEF Hook, RecordDecision, AskById, AskByTool, PrintDecision, Answers, Goes,
       Installing, Idle, HooksTyped
  <2> QED
    BY <2>1, <2>2, QuietKeepsInstall
<1>3. CASE UNCHANGED vars
  BY <1>3, QuietKeepsInstall DEF vars
<1> QED
  BY <1>0, <1>1, <1>2, <1>3, InstallKeepsInstall, InstallationKeepsInstall, EditKeepsInstall,
     KillKeepsInstall DEF Next

\* install_hooks and verify_hooks: while no two installations overlap, hooks
\* that were installed verify until one is edited or an installation is cut
\* off, and hooks that verify are of one mode wherever one was cut off.
THEOREM InstalledHooksVerify == Spec => []InstallHolds
<1>1. Init => InstallInv
  BY DEF Init, InstallInv, HasWritten, Installing, Idle, NoDigests, Events
<1>2. ASSUME HooksTyped, InstallInv PROVE InstallHolds
  BY <1>2 DEF InstallInv, InstallHolds, Verifies, Events
<1>3. HooksTyped /\ InstallInv /\ [Next]_vars => InstallInv'
  BY NextInstall
<1> QED
  BY <1>1, <1>2, <1>3, HooksAreTyped, PTL DEF Spec

=============================================================================
