-------------------------- MODULE Workspace_proof ----------------------------
(***************************************************************************)
(* Proofs about Workspace: marks that nothing overlapped stay, a restore   *)
(* that returns has brought back what its snapshot was taken of, wherever  *)
(* snapshots are kept and whatever is cut off, and a snapshot that nothing *)
(* disturbed can be restored.                                              *)
(***************************************************************************)
EXTENDS Workspace, TLAPS

-----------------------------------------------------------------------------
(* The inductive invariant *)

Fields == {"phase", "alone", "id", "dir", "mark", "marks", "todo", "seen", "hash", "goal"}

\* The variables are functions on the sets they should be.
ShapeOK ==
    /\ DOMAIN disk = Dirs \X Paths
    /\ DOMAIN taken = Ids
    /\ DOMAIN proc = Procs
    /\ \A p \in Procs : DOMAIN proc[p] = Fields /\ proc[p].alone \in BOOLEAN

\* Of two calls under way neither is alone.
AloneOK ==
    \A p, q \in Procs :
        p # q /\ proc[p].phase # "idle" /\ proc[q].phase # "idle" => ~proc[p].alone

\* A description says what taken says of it.
DescribedOK ==
    \A id \in Ids : disk[<<SnapDir, Meta(id)>>] \notin {Absent, Broken} =>
        disk[<<SnapDir, Meta(id)>>][2] = taken[id]

Restoring == {"opening", "extracting", "checking", "restored", "mismatch"}

\* What a call holds that nothing disturbed: the marks of the file, all marks
\* that count, and of a directory what it has read of it.
HoldsOK(p) ==
    LET call == proc[p]
        yaml == disk[<<Home, Yaml>>]
    IN  /\ call.phase = "marking" => call.marks = MarksIn(yaml)
        /\ call.phase = "dumping" => marked \subseteq call.marks
        /\ call.phase = "checking" =>
              /\ call.todo \subseteq Tracked(call.dir)
              /\ call.seen = [path \in Tracked(call.dir) \ call.todo |-> disk[<<call.dir, path>>]]
        /\ call.phase = "restored" => Content(call.dir) = call.hash

\* A call has a directory and, unless it marks, the id of a snapshot.
Placed(call) ==
    call.dir \in Dirs /\ (call.phase \notin {"idle", "marking", "dumping"} => call.id \in Ids)

CallOK(p) ==
    /\ Placed(proc[p])
    /\ proc[p].phase \in Restoring => proc[p].hash = proc[p].goal
    /\ proc[p].alone => HoldsOK(p)

WInv ==
    /\ ShapeOK
    /\ AloneOK
    /\ DescribedOK
    /\ MarksKept
    /\ \A p \in Procs : CallOK(p)

-----------------------------------------------------------------------------
(* Kinds of steps *)

LEMMA PathsDiffer ==
    /\ \A n : File(n) # Yaml /\ \A id : File(n) # Meta(id) /\ File(n) # Archive(id)
    /\ \A id : Meta(id) # Yaml /\ Archive(id) # Yaml /\ \A o : Archive(o) # Meta(id)
    /\ \A id, o : Meta(id) = Meta(o) => id = o
BY DEF File, Yaml, Meta, Archive

LEMMA IdleFacts ==
    /\ DOMAIN Idle = Fields /\ Idle.phase = "idle" /\ Idle.alone = TRUE
    /\ Idle.dir \in Dirs
BY WorkspaceAssumption DEF Idle, Fields

\* A step of a call under way: the others, if any, are not alone.
LEMMA CallStep ==
    ASSUME WInv, NEW p \in Procs, proc[p].phase # "idle",
           NEW call, DOMAIN call = Fields, call.alone \in BOOLEAN,
           call.phase = "idle" \/ call.alone = proc[p].alone,
           proc' = [proc EXCEPT ![p] = call],
           DOMAIN disk' = Dirs \X Paths, DOMAIN taken' = Ids,
           DescribedOK', MarksKept', CallOK(p)'
    PROVE  WInv'
<1>1. proc'[p] = call /\ \A q \in Procs \ {p} : proc'[q] = proc[q]
  BY DEF WInv, ShapeOK
<1>2. ShapeOK'
  BY <1>1 DEF WInv, ShapeOK
<1>3. AloneOK'
  BY <1>1 DEF WInv, AloneOK
<1>4. ASSUME NEW q \in Procs, q # p PROVE CallOK(q)'
  <2>1. proc'[q] = proc[q] /\ CallOK(q)
    BY <1>1, <1>4 DEF WInv
  <2>2. CASE proc[q].phase = "idle"
    BY <2>1, <2>2 DEF CallOK, HoldsOK, Restoring
  <2>3. CASE proc[q].phase # "idle"
    BY <1>4, <2>1, <2>3 DEF WInv, AloneOK, CallOK
  <2> QED
    BY <2>2, <2>3
<1> QED
  BY <1>2, <1>3, <1>4 DEF WInv

\* A call that ends.
LEMMA EndStep ==
    ASSUME WInv, NEW p \in Procs, proc[p].phase # "idle", Ends(p),
           DOMAIN disk' = Dirs \X Paths, DOMAIN taken' = Ids,
           DescribedOK', MarksKept'
    PROVE  WInv'
<1>1. proc' = [proc EXCEPT ![p] = Idle] /\ proc'[p] = Idle
  BY DEF Ends, WInv, ShapeOK
<1>2. CallOK(p)'
  BY <1>1, IdleFacts DEF CallOK, Placed, HoldsOK, Restoring
<1> QED
  BY <1>1, <1>2, IdleFacts, CallStep

\* A step that changes nothing but the record of a call which does not enter or
\* leave the writing of llmreplay.yaml.
LEMMA OnlyProcStep ==
    ASSUME WInv, NEW p \in Procs, proc[p].phase \notin {"idle", "dumping"},
           NEW call, DOMAIN call = Fields, call.alone = proc[p].alone, call.phase # "dumping",
           proc' = [proc EXCEPT ![p] = call], OnlyProc,
           CallOK(p)'
    PROVE  WInv'
<1>1. proc'[p] = call /\ \A q \in Procs \ {p} : proc'[q] = proc[q]
  BY DEF WInv, ShapeOK
<1>2. DescribedOK'
  BY DEF WInv, DescribedOK, OnlyProc
<1>3. MarksKept'
  BY <1>1 DEF WInv, MarksKept, OnlyProc
<1>4. call.alone \in BOOLEAN /\ DOMAIN disk' = Dirs \X Paths /\ DOMAIN taken' = Ids
  BY DEF WInv, ShapeOK, OnlyProc
<1> QED
  BY <1>1, <1>2, <1>3, <1>4, CallStep

\* A call that ends without a trace.
LEMMA QuietEndStep ==
    ASSUME WInv, NEW p \in Procs, proc[p].phase \notin {"idle", "dumping"}, Ends(p), OnlyProc
    PROVE  WInv'
<1>1. proc' = [proc EXCEPT ![p] = Idle] /\ DOMAIN proc = Procs
  BY DEF Ends, WInv, ShapeOK
<1>2. DescribedOK'
  BY DEF WInv, DescribedOK, OnlyProc
<1>3. MarksKept'
  BY <1>1 DEF WInv, MarksKept, OnlyProc
<1>4. DOMAIN disk' = Dirs \X Paths /\ DOMAIN taken' = Ids
  BY DEF WInv, ShapeOK, OnlyProc
<1> QED
  BY <1>2, <1>3, <1>4, EndStep

\* A call that begins, with what it read.
LEMMA BeginStep ==
    ASSUME WInv, NEW p \in Procs,
           NEW call, DOMAIN call = Fields, call.phase \notin {"idle", "dumping", "checking", "restored"},
           call.phase = "marking" => call.marks = MarksIn(disk[<<Home, Yaml>>]),
           call.phase \in Restoring => call.hash = call.goal, Placed(call),
           Begins(p, call),
           UNCHANGED <<disk, marked, quiet, taken, edits, kills>>
    PROVE  WInv'
<1> DEFINE begun == [call EXCEPT !.alone = Active = {}]
<1>1. /\ proc[p].phase = "idle"
      /\ proc' = [q \in Procs |->
                     IF q = p THEN begun
                     ELSE IF q \in Active THEN [proc[q] EXCEPT !.alone = FALSE]
                     ELSE proc[q]]
  BY DEF Begins, InPhase
<1>2. /\ DOMAIN begun = Fields /\ begun.alone = (Active = {})
      /\ begun.phase = call.phase /\ begun.marks = call.marks
      /\ begun.hash = call.hash /\ begun.goal = call.goal
      /\ begun.dir = call.dir /\ begun.id = call.id
  BY DEF Fields
<1> HIDE DEF begun
<1>3. proc'[p] = begun
  BY <1>1
<1>4. ASSUME NEW q \in Procs, q # p, proc[q].phase # "idle"
      PROVE  /\ DOMAIN proc'[q] = Fields /\ proc'[q].alone = FALSE
             /\ proc'[q].phase = proc[q].phase
             /\ proc'[q].hash = proc[q].hash /\ proc'[q].goal = proc[q].goal
             /\ proc'[q].dir = proc[q].dir /\ proc'[q].id = proc[q].id
             /\ Active # {}
  <2>1. q \in Active
    BY <1>4 DEF Active, InPhase
  <2>2. proc'[q] = [proc[q] EXCEPT !.alone = FALSE]
    BY <1>1, <1>4, <2>1
  <2>3. DOMAIN proc[q] = Fields
    BY DEF WInv, ShapeOK
  <2> QED
    BY <2>1, <2>2, <2>3 DEF Fields
<1>5. ASSUME NEW q \in Procs, q # p, proc[q].phase = "idle"
      PROVE  proc'[q] = proc[q]
  BY <1>1, <1>5 DEF Active, InPhase
<1>6. ShapeOK'
  BY <1>1, <1>2, <1>3, <1>4, <1>5 DEF WInv, ShapeOK
<1>7. AloneOK'
  <2> SUFFICES ASSUME NEW q \in Procs, NEW o \in Procs, q # o,
                      proc'[q].phase # "idle", proc'[o].phase # "idle"
               PROVE  ~proc'[q].alone
    BY DEF AloneOK
  <2>1. CASE q = p
    BY <1>2, <1>3, <1>4, <1>5, <2>1
  <2>2. CASE q # p
    BY <1>4, <1>5, <2>2
  <2> QED
    BY <2>1, <2>2
<1>8. \A q \in Procs : proc'[q].phase = "dumping" <=> proc[q].phase = "dumping"
  BY <1>1, <1>2, <1>3, <1>4, <1>5
<1>9. DescribedOK' /\ MarksKept'
  BY <1>8 DEF WInv, DescribedOK, MarksKept
<1>10. ASSUME NEW q \in Procs PROVE CallOK(q)'
  <2>1. CASE q = p
    BY <1>2, <1>3, <2>1 DEF CallOK, HoldsOK, Placed
  <2>2. CASE q # p /\ proc[q].phase # "idle"
    BY <1>4, <2>2 DEF WInv, CallOK, Placed
  <2>3. CASE q # p /\ proc[q].phase = "idle"
    BY <1>5, <2>3 DEF WInv, CallOK, HoldsOK, Restoring
  <2> QED
    BY <2>1, <2>2, <2>3
<1> QED
  BY <1>6, <1>7, <1>9, <1>10 DEF WInv

\* A write changes one path of one directory.
LEMMA Written ==
    ASSUME ShapeOK, NEW dir, NEW path, NEW content, disk' = Holding(dir, path, content)
    PROVE  /\ DOMAIN disk' = Dirs \X Paths
           /\ \A d \in Dirs, x \in Paths :
                 disk'[<<d, x>>] = IF d = dir /\ x = path THEN content ELSE disk[<<d, x>>]
BY DEF ShapeOK, Holding

LEMMA PathFacts ==
    /\ Home \in Dirs /\ SnapDir \in Dirs /\ Yaml \in Paths
    /\ \A id \in Ids : Meta(id) \in Paths
BY WorkspaceAssumption DEF Paths

\* An agent's edit is not of a description or of llmreplay.yaml.
LEMMA AgentEditsStep ==
    ASSUME WInv, NEW dir \in Dirs, NEW name \in Names, NEW content,
           AgentEdits(dir, name, content)
    PROVE  WInv'
<1>1. /\ disk' = Holding(dir, File(name), content)
      /\ proc' = [p \in Procs |-> IF p \in Active THEN [proc[p] EXCEPT !.alone = FALSE] ELSE proc[p]]
      /\ UNCHANGED <<marked, taken>> /\ ShapeOK
  BY DEF AgentEdits, WInv
<1>2. DOMAIN disk' = Dirs \X Paths /\ DescribedOK'
  BY <1>1, Written, PathFacts, PathsDiffer DEF WInv, DescribedOK
<1>3. disk'[<<Home, Yaml>>] = disk[<<Home, Yaml>>]
  BY <1>1, Written, PathFacts, PathsDiffer
<1>4. ASSUME NEW p \in Procs, proc[p].phase # "idle"
      PROVE  /\ DOMAIN proc'[p] = Fields /\ proc'[p].alone = FALSE
             /\ proc'[p].phase = proc[p].phase
             /\ proc'[p].hash = proc[p].hash /\ proc'[p].goal = proc[p].goal
             /\ proc'[p].dir = proc[p].dir /\ proc'[p].id = proc[p].id
  <2>1. proc'[p] = [proc[p] EXCEPT !.alone = FALSE]
    BY <1>1, <1>4 DEF Active, InPhase
  <2>2. DOMAIN proc[p] = Fields
    BY <1>1 DEF ShapeOK
  <2> QED
    BY <2>1, <2>2 DEF Fields
<1>5. ASSUME NEW p \in Procs, proc[p].phase = "idle"
      PROVE  proc'[p] = proc[p]
  BY <1>1, <1>5 DEF Active, InPhase
<1>6. ShapeOK'
  BY <1>1, <1>2, <1>4, <1>5 DEF ShapeOK
<1>7. AloneOK'
  BY <1>4, <1>5 DEF AloneOK
<1>8. MarksKept'
  BY <1>1, <1>3, <1>4, <1>5 DEF WInv, MarksKept
<1>9. ASSUME NEW p \in Procs PROVE CallOK(p)'
  <2>1. CASE proc[p].phase # "idle"
    BY <1>4, <2>1 DEF WInv, CallOK, Placed
  <2>2. CASE proc[p].phase = "idle"
    BY <1>5, <2>2 DEF WInv, CallOK, HoldsOK, Restoring
  <2> QED
    BY <2>1, <2>2
<1> QED
  BY <1>2, <1>6, <1>7, <1>8, <1>9 DEF WInv

-----------------------------------------------------------------------------
(* Marks *)

LEMMA MarkLoadStep ==
    ASSUME WInv, NEW p \in Procs, NEW mark \in Marks, MarkLoad(p, mark)
    PROVE  WInv'
<1> DEFINE call == [Idle EXCEPT !.phase = "marking", !.mark = mark,
                                !.marks = MarksIn(disk[<<Home, Yaml>>])]
<1>1. /\ DOMAIN call = Fields /\ call.phase = "marking" /\ call.dir \in Dirs
      /\ call.marks = MarksIn(disk[<<Home, Yaml>>])
  BY IdleFacts DEF Fields
<1>2. Begins(p, call) /\ UNCHANGED <<disk, marked, quiet, taken, edits, kills>>
  BY DEF MarkLoad
<1> HIDE DEF call
<1>3. Placed(call)
  BY <1>1 DEF Placed
<1> QED
  BY <1>1, <1>2, <1>3, BeginStep DEF Restoring

\* While a call is alone, no other is under way.
LEMMA OthersIdle ==
    ASSUME WInv, NEW p \in Procs, proc[p].phase # "idle", proc[p].alone
    PROVE  \A q \in Procs \ {p} : proc[q].phase = "idle"
BY DEF WInv, AloneOK

LEMMA MarkTruncateStep ==
    ASSUME WInv, NEW p \in Procs, MarkTruncate(p)
    PROVE  WInv'
<1>1. /\ proc[p].phase = "marking" /\ disk' = Holding(Home, Yaml, Config({}))
      /\ UNCHANGED <<marked, taken>> /\ ShapeOK /\ CallOK(p)
  BY DEF MarkTruncate, InPhase, WInv
<1> DEFINE call == [proc[p] EXCEPT !.phase = "dumping"]
<1>2. /\ DOMAIN call = Fields /\ call.phase = "dumping" /\ call.alone = proc[p].alone
      /\ call.marks = proc[p].marks /\ call.dir = proc[p].dir
  BY <1>1 DEF ShapeOK, Fields
<1>3. proc' = [proc EXCEPT ![p] = call]
  BY DEF MarkTruncate, Goes
<1> HIDE DEF call
<1>4. proc'[p] = call
  BY <1>1, <1>3 DEF ShapeOK
<1>5. DOMAIN disk' = Dirs \X Paths /\ DescribedOK'
  BY <1>1, Written, PathFacts, PathsDiffer DEF WInv, DescribedOK
<1>6. MarksKept'
  BY <1>2, <1>4 DEF MarksKept
<1>7. proc[p].alone => marked \subseteq proc[p].marks
  <2> SUFFICES ASSUME proc[p].alone PROVE marked \subseteq proc[p].marks
    OBVIOUS
  <2>1. \A q \in Procs : proc[q].phase # "dumping"
    BY <1>1, OthersIdle
  <2> QED
    BY <1>1, <2>1 DEF WInv, MarksKept, CallOK, HoldsOK
<1>8. CallOK(p)'
  BY <1>1, <1>2, <1>4, <1>7 DEF CallOK, Placed, HoldsOK, Restoring
<1>9. call.alone \in BOOLEAN /\ DOMAIN taken' = Ids
  BY <1>1, <1>2 DEF ShapeOK
<1> QED
  BY <1>1, <1>2, <1>3, <1>5, <1>6, <1>8, <1>9, CallStep

LEMMA MarkWriteStep ==
    ASSUME WInv, NEW p \in Procs, MarkWrite(p)
    PROVE  WInv'
<1> DEFINE marks == Marked(proc[p].marks, proc[p].mark)
<1>1. /\ proc[p].phase = "dumping" /\ disk' = Holding(Home, Yaml, Config(marks))
      /\ marked' = IF proc[p].alone THEN marked \cup {proc[p].mark} ELSE {}
      /\ UNCHANGED taken /\ Ends(p) /\ ShapeOK /\ CallOK(p)
  BY DEF MarkWrite, InPhase, WInv
<1>2. DOMAIN disk' = Dirs \X Paths /\ DescribedOK'
  BY <1>1, Written, PathFacts, PathsDiffer DEF WInv, DescribedOK
<1>3. MarksIn(disk'[<<Home, Yaml>>]) = marks
  <2>1. disk'[<<Home, Yaml>>] = Config(marks)
    BY <1>1, Written, PathFacts
  <2> QED
    BY <2>1 DEF MarksIn, Config, Absent
<1>4. MarksKept'
  <2>1. CASE proc[p].alone
    <3>1. marked \subseteq proc[p].marks
      BY <1>1, <2>1 DEF CallOK, HoldsOK
    <3>2. marked' \subseteq MarksIn(disk[<<Home, Yaml>>])'
      BY <1>1, <1>3, <2>1, <3>1 DEF Marked
    <3> QED
      BY <3>2 DEF MarksKept
  <2>2. CASE ~proc[p].alone
    BY <1>1, <2>2 DEF MarksKept
  <2> QED
    BY <2>1, <2>2
<1>5. DOMAIN taken' = Ids
  BY <1>1 DEF ShapeOK
<1> QED
  BY <1>1, <1>2, <1>4, <1>5, EndStep

-----------------------------------------------------------------------------
(* Snapshots *)

LEMMA CreateBeginStep ==
    ASSUME WInv, NEW p \in Procs, NEW id \in Ids, CreateBegin(p, id)
    PROVE  WInv'
<1> DEFINE call == [Idle EXCEPT !.phase = "hashing", !.id = id, !.todo = Tracked(Home)]
<1>1. DOMAIN call = Fields /\ call.phase = "hashing" /\ call.dir \in Dirs /\ call.id = id
  BY IdleFacts DEF Fields
<1>2. Begins(p, call) /\ UNCHANGED <<disk, marked, quiet, taken, edits, kills>>
  BY DEF CreateBegin
<1> HIDE DEF call
<1>3. Placed(call)
  BY <1>1 DEF Placed
<1> QED
  BY <1>1, <1>2, <1>3, BeginStep DEF Restoring

\* One more path read is one more path that agrees with the directory.
LEMMA ReadNextStep ==
    ASSUME WInv, NEW p \in Procs, ReadNext(p)
    PROVE  WInv'
<1>1. /\ proc[p].phase \in {"hashing", "archiving", "checking"} /\ proc[p].todo # {}
      /\ OnlyProc /\ ShapeOK /\ CallOK(p)
  BY DEF ReadNext, WInv
<1>2. PICK path \in proc[p].todo :
          LET content == disk[<<proc[p].dir, path>>]
          IN  IF content = Absent THEN Ends(p)
              ELSE proc' = [proc EXCEPT ![p].todo = @ \ {path},
                                        ![p].seen = With(@, path, content)]
  BY <1>1 DEF ReadNext
<1> DEFINE content == disk[<<proc[p].dir, path>>]
<1>3. CASE content = Absent
  BY <1>1, <1>2, <1>3, QuietEndStep
<1>4. CASE content # Absent
  <2> DEFINE todo == proc[p].todo \ {path}
             seen == With(proc[p].seen, path, content)
             call1 == [proc[p] EXCEPT !.todo = todo]
             call == [call1 EXCEPT !.seen = seen]
  <2>1. /\ DOMAIN call1 = Fields /\ call1.phase = proc[p].phase /\ call1.alone = proc[p].alone
        /\ call1.todo = todo /\ call1.hash = proc[p].hash /\ call1.goal = proc[p].goal
        /\ call1.dir = proc[p].dir /\ call1.id = proc[p].id
    BY <1>1 DEF ShapeOK, Fields
  <2>2. proc' = [proc EXCEPT ![p] = call]
    BY <1>1, <1>2, <1>4 DEF ShapeOK, Fields
  <2>3. HoldsOK(p) /\ proc[p].phase = "checking" =>
            /\ todo \subseteq Tracked(proc[p].dir)
            /\ seen = [x \in Tracked(proc[p].dir) \ todo |-> disk[<<proc[p].dir, x>>]]
    <3> SUFFICES ASSUME HoldsOK(p), proc[p].phase = "checking"
                 PROVE  /\ todo \subseteq Tracked(proc[p].dir)
                        /\ seen = [x \in Tracked(proc[p].dir) \ todo |-> disk[<<proc[p].dir, x>>]]
      OBVIOUS
    <3>1. /\ proc[p].todo \subseteq Tracked(proc[p].dir)
          /\ proc[p].seen = [x \in Tracked(proc[p].dir) \ proc[p].todo |-> disk[<<proc[p].dir, x>>]]
      BY DEF HoldsOK
    <3>2. PICK T, left, old, d : /\ T = Tracked(proc[p].dir) /\ left = proc[p].todo
                                 /\ old = proc[p].seen /\ d = proc[p].dir
      OBVIOUS
    <3>3. left \subseteq T /\ path \in left /\ old = [x \in T \ left |-> disk[<<d, x>>]]
      BY <3>1, <3>2
    <3>4. With(old, path, disk[<<d, path>>]) = [x \in T \ (left \ {path}) |-> disk[<<d, x>>]]
      <4>1. DOMAIN old \cup {path} = T \ (left \ {path})
        BY <3>3
      <4>2. \A x \in T \ (left \ {path}) :
                (IF x = path THEN disk[<<d, path>>] ELSE old[x]) = disk[<<d, x>>]
        BY <3>3
      <4> QED
        BY <4>1, <4>2 DEF With
    <3> QED
      BY <3>1, <3>2, <3>4
  <2> HIDE DEF todo, seen, call1
  <2>4. /\ DOMAIN call = Fields /\ call.phase = proc[p].phase /\ call.alone = proc[p].alone
        /\ call.todo = todo /\ call.seen = seen
        /\ call.hash = proc[p].hash /\ call.goal = proc[p].goal
        /\ call.dir = proc[p].dir /\ call.id = proc[p].id
    BY <2>1 DEF Fields
  <2> HIDE DEF call
  <2>5. proc'[p] = call
    BY <1>1, <2>2 DEF ShapeOK
  <2>6. HoldsOK(p) => HoldsOK(p)'
    <3>1. UNCHANGED <<disk, marked>>
      BY <1>1 DEF OnlyProc
    <3>2. proc'[p].phase = proc[p].phase /\ proc'[p].todo = todo /\ proc'[p].seen = seen
          /\ proc'[p].dir = proc[p].dir
      BY <2>4, <2>5
    <3>3. Tracked(proc[p].dir)' = Tracked(proc[p].dir)
      BY <3>1, <3>2 DEF Tracked, There
    <3> QED
      BY <1>1, <2>3, <3>1, <3>2, <3>3 DEF HoldsOK
  <2>7. CallOK(p)'
    BY <1>1, <2>4, <2>5, <2>6 DEF CallOK, Placed
  <2> QED
    BY <1>1, <2>2, <2>4, <2>7, OnlyProcStep
<1> QED
  BY <1>3, <1>4

LEMMA CreateArchiveStep ==
    ASSUME WInv, NEW p \in Procs, CreateArchive(p)
    PROVE  WInv'
<1>1. proc[p].phase = "hashing" /\ OnlyProc /\ ShapeOK /\ CallOK(p)
  BY DEF CreateArchive, InPhase, WInv
<1> DEFINE seen == proc[p].seen
           call1 == [proc[p] EXCEPT !.phase = "archiving"]
           call2 == [call1 EXCEPT !.todo = DOMAIN seen]
           call3 == [call2 EXCEPT !.hash = seen]
           call == [call3 EXCEPT !.seen = << >>]
<1>2. proc' = [proc EXCEPT ![p] = call]
  BY DEF CreateArchive
<1>3. /\ DOMAIN call = Fields /\ call.phase = "archiving" /\ call.alone = proc[p].alone
      /\ call.dir = proc[p].dir /\ call.id = proc[p].id
  BY <1>1 DEF ShapeOK, Fields
<1> HIDE DEF call
<1>4. proc'[p] = call
  BY <1>1, <1>2 DEF ShapeOK
<1>5. CallOK(p)'
  BY <1>1, <1>3, <1>4 DEF CallOK, Placed, HoldsOK, Restoring
<1> QED
  BY <1>1, <1>2, <1>3, <1>5, OnlyProcStep

LEMMA CreateWriteStep ==
    ASSUME WInv, NEW p \in Procs, CreateWrite(p)
    PROVE  WInv'
<1>1. /\ proc[p].phase = "archiving" /\ UNCHANGED <<marked, taken>> /\ ShapeOK /\ CallOK(p)
      /\ disk' = Holding(SnapDir, Archive(proc[p].id), Files(proc[p].seen))
  BY DEF CreateWrite, InPhase, WInv
<1> DEFINE call == [proc[p] EXCEPT !.phase = "describing"]
<1>2. proc' = [proc EXCEPT ![p] = call]
  BY DEF CreateWrite, Goes
<1>3. /\ DOMAIN call = Fields /\ call.phase = "describing" /\ call.alone = proc[p].alone
      /\ call.dir = proc[p].dir /\ call.id = proc[p].id
  BY <1>1 DEF ShapeOK, Fields
<1> HIDE DEF call
<1>4. proc'[p] = call /\ \A q \in Procs \ {p} : proc'[q] = proc[q]
  BY <1>1, <1>2 DEF ShapeOK
<1>5. CallOK(p)'
  BY <1>1, <1>3, <1>4 DEF CallOK, Placed, HoldsOK, Restoring
<1>6. DOMAIN disk' = Dirs \X Paths /\ DescribedOK'
  BY <1>1, Written, PathFacts, PathsDiffer DEF WInv, DescribedOK
<1>7. disk'[<<Home, Yaml>>] = disk[<<Home, Yaml>>]
  BY <1>1, Written, PathFacts, PathsDiffer
<1>8. MarksKept'
  BY <1>1, <1>3, <1>4, <1>7 DEF WInv, MarksKept
<1>9. call.alone \in BOOLEAN /\ DOMAIN taken' = Ids
  BY <1>1, <1>3 DEF ShapeOK
<1> QED
  BY <1>1, <1>2, <1>3, <1>5, <1>6, <1>8, <1>9, CallStep

LEMMA CreateDescribeStep ==
    ASSUME WInv, NEW p \in Procs, CreateDescribe(p)
    PROVE  WInv'
<1> DEFINE id == proc[p].id
<1>1. /\ proc[p].phase = "describing" /\ UNCHANGED marked /\ Ends(p) /\ ShapeOK /\ CallOK(p)
      /\ disk' = Holding(SnapDir, Meta(id), Files(proc[p].hash))
      /\ taken' = [taken EXCEPT ![id] = proc[p].hash]
  BY DEF CreateDescribe, InPhase, WInv
<1>2. id \in Ids /\ Files(proc[p].hash)[2] = proc[p].hash
  BY <1>1 DEF CallOK, Placed, Files
<1>3. DOMAIN disk' = Dirs \X Paths /\ DOMAIN taken' = Ids
  BY <1>1, Written DEF ShapeOK
<1>4. DescribedOK'
  <2> SUFFICES ASSUME NEW o \in Ids, disk'[<<SnapDir, Meta(o)>>] \notin {Absent, Broken}
               PROVE  disk'[<<SnapDir, Meta(o)>>][2] = taken'[o]
    BY DEF DescribedOK
  <2>1. CASE o = id
    <3>1. disk'[<<SnapDir, Meta(o)>>] = Files(proc[p].hash)
      BY <1>1, <2>1, Written, PathFacts
    <3>2. taken'[o] = proc[p].hash
      BY <1>1, <1>2, <2>1 DEF ShapeOK
    <3> QED
      BY <1>2, <3>1, <3>2
  <2>2. CASE o # id
    <3>1. disk'[<<SnapDir, Meta(o)>>] = disk[<<SnapDir, Meta(o)>>]
      BY <1>1, <2>2, Written, PathFacts, PathsDiffer
    <3>2. taken'[o] = taken[o]
      BY <1>1, <2>2 DEF ShapeOK
    <3> QED
      BY <3>1, <3>2 DEF WInv, DescribedOK
  <2> QED
    BY <2>1, <2>2
<1>5. disk'[<<Home, Yaml>>] = disk[<<Home, Yaml>>]
  BY <1>1, Written, PathFacts, PathsDiffer
<1>6. MarksKept'
  <2>1. proc' = [proc EXCEPT ![p] = Idle] /\ DOMAIN proc = Procs
    BY <1>1 DEF Ends, ShapeOK
  <2> QED
    BY <1>1, <1>5, <2>1 DEF WInv, MarksKept
<1> QED
  BY <1>1, <1>3, <1>4, <1>6, EndStep

-----------------------------------------------------------------------------
(* Restores *)

LEMMA RestoreBeginStep ==
    ASSUME WInv, NEW p \in Procs, NEW id \in Ids, NEW dir \in Dirs, NEW force \in BOOLEAN,
           RestoreBegin(p, id, dir, force)
    PROVE  WInv'
<1>1. PICK hash : hash = disk[<<SnapDir, Meta(id)>>][2]
  OBVIOUS
<1> DEFINE call == [Idle EXCEPT !.phase = "opening", !.id = id, !.dir = dir,
                                !.hash = hash, !.goal = taken[id]]
<1>2. /\ DOMAIN call = Fields /\ call.phase = "opening" /\ call.dir = dir /\ call.id = id
      /\ call.hash = hash /\ call.goal = taken[id]
  BY IdleFacts DEF Fields
<1>3. Begins(p, call) /\ UNCHANGED <<disk, marked, quiet, taken, edits, kills>>
  BY <1>1 DEF RestoreBegin
<1>4. hash = taken[id]
  BY <1>1 DEF RestoreBegin, WInv, DescribedOK
<1> HIDE DEF call
<1>5. Placed(call)
  BY <1>2 DEF Placed
<1> QED
  BY <1>2, <1>3, <1>4, <1>5, BeginStep DEF Restoring

LEMMA RestoreOpenStep ==
    ASSUME WInv, NEW p \in Procs, RestoreOpen(p)
    PROVE  WInv'
<1>1. proc[p].phase = "opening" /\ OnlyProc /\ ShapeOK /\ CallOK(p)
  BY DEF RestoreOpen, InPhase, WInv
<1>2. CASE Ends(p)
  BY <1>1, <1>2, QuietEndStep
<1>3. CASE \E files : proc' = [proc EXCEPT ![p].phase = "extracting", ![p].seen = files,
                                           ![p].todo = DOMAIN files]
  <2>1. PICK files : proc' = [proc EXCEPT ![p].phase = "extracting", ![p].seen = files,
                                          ![p].todo = DOMAIN files]
    BY <1>3
  <2> DEFINE call1 == [proc[p] EXCEPT !.phase = "extracting"]
             call2 == [call1 EXCEPT !.seen = files]
             call == [call2 EXCEPT !.todo = DOMAIN files]
  <2>2. proc' = [proc EXCEPT ![p] = call]
    BY <2>1
  <2>3. /\ DOMAIN call = Fields /\ call.phase = "extracting" /\ call.alone = proc[p].alone
        /\ call.dir = proc[p].dir /\ call.id = proc[p].id
        /\ call.hash = proc[p].hash /\ call.goal = proc[p].goal
    BY <1>1 DEF ShapeOK, Fields
  <2> HIDE DEF call
  <2>4. proc'[p] = call
    BY <1>1, <2>2 DEF ShapeOK
  <2>5. CallOK(p)'
    BY <1>1, <2>3, <2>4 DEF CallOK, Placed, HoldsOK, Restoring
  <2> QED
    BY <1>1, <2>2, <2>3, <2>5, OnlyProcStep
<1> QED
  BY <1>2, <1>3 DEF RestoreOpen

\* Extracting a description brings back what it was taken of.
LEMMA RestoreExtractStep ==
    ASSUME WInv, NEW p \in Procs, RestoreExtract(p)
    PROVE  WInv'
<1> DEFINE dir == proc[p].dir
<1>1. proc[p].phase = "extracting" /\ ShapeOK /\ CallOK(p)
  BY DEF RestoreExtract, InPhase, WInv
<1>2. PICK path \in proc[p].todo :
          /\ disk' = Holding(dir, path, proc[p].seen[path])
          /\ proc' = [proc EXCEPT ![p].todo = @ \ {path}]
          /\ marked' = IF dir = Home /\ path = Yaml THEN {} ELSE marked
          /\ taken' = [id \in Ids |-> IF dir = SnapDir /\ path = Meta(id)
                                      THEN proc[p].seen[path][2] ELSE taken[id]]
  BY DEF RestoreExtract
<1> DEFINE todo == proc[p].todo \ {path}
           call == [proc[p] EXCEPT !.todo = todo]
<1>3. proc' = [proc EXCEPT ![p] = call]
  BY <1>2
<1>4. /\ DOMAIN call = Fields /\ call.phase = "extracting" /\ call.alone = proc[p].alone
      /\ call.dir = proc[p].dir /\ call.id = proc[p].id
      /\ call.hash = proc[p].hash /\ call.goal = proc[p].goal
  BY <1>1 DEF ShapeOK, Fields
<1> HIDE DEF call
<1>5. proc'[p] = call /\ \A q \in Procs \ {p} : proc'[q] = proc[q]
  BY <1>1, <1>3 DEF ShapeOK
<1>6. CallOK(p)'
  BY <1>1, <1>4, <1>5 DEF CallOK, Placed, HoldsOK, Restoring
<1>7. DOMAIN disk' = Dirs \X Paths /\ DOMAIN taken' = Ids
  BY <1>1, <1>2, Written
<1>8. DescribedOK'
  <2> SUFFICES ASSUME NEW id \in Ids, disk'[<<SnapDir, Meta(id)>>] \notin {Absent, Broken}
               PROVE  disk'[<<SnapDir, Meta(id)>>][2] = taken'[id]
    BY DEF DescribedOK
  <2>1. CASE dir = SnapDir /\ path = Meta(id)
    BY <1>1, <1>2, <2>1, Written, PathFacts
  <2>2. CASE ~(dir = SnapDir /\ path = Meta(id))
    <3>1. disk'[<<SnapDir, Meta(id)>>] = disk[<<SnapDir, Meta(id)>>]
      BY <1>1, <1>2, <2>2, Written, PathFacts
    <3>2. taken'[id] = taken[id]
      BY <1>2, <2>2
    <3> QED
      BY <3>1, <3>2 DEF WInv, DescribedOK
  <2> QED
    BY <2>1, <2>2
<1>9. MarksKept'
  <2>1. CASE dir = Home /\ path = Yaml
    BY <1>2, <2>1 DEF MarksKept
  <2>2. CASE ~(dir = Home /\ path = Yaml)
    <3>1. disk'[<<Home, Yaml>>] = disk[<<Home, Yaml>>]
      BY <1>1, <1>2, <2>2, Written, PathFacts
    <3> QED
      BY <1>1, <1>2, <1>4, <1>5, <2>2, <3>1 DEF WInv, MarksKept
  <2> QED
    BY <2>1, <2>2
<1>10. call.alone \in BOOLEAN
  BY <1>1, <1>4 DEF ShapeOK
<1> QED
  BY <1>1, <1>3, <1>4, <1>6, <1>7, <1>8, <1>9, <1>10, CallStep

LEMMA RestoreCheckStep ==
    ASSUME WInv, NEW p \in Procs, RestoreCheck(p)
    PROVE  WInv'
<1>1. proc[p].phase = "extracting" /\ OnlyProc /\ ShapeOK /\ CallOK(p)
  BY DEF RestoreCheck, InPhase, WInv
<1> DEFINE todo == Checked(proc[p].dir)
           call1 == [proc[p] EXCEPT !.phase = "checking"]
           call2 == [call1 EXCEPT !.seen = << >>]
           call == [call2 EXCEPT !.todo = todo]
<1>2. proc' = [proc EXCEPT ![p] = call]
  BY DEF RestoreCheck
<1>3. /\ DOMAIN call = Fields /\ call.phase = "checking" /\ call.alone = proc[p].alone
      /\ call.dir = proc[p].dir /\ call.id = proc[p].id
      /\ call.hash = proc[p].hash /\ call.goal = proc[p].goal
      /\ call.seen = << >> /\ call.todo = todo
  BY <1>1 DEF ShapeOK, Fields
<1> HIDE DEF call
<1>4. proc'[p] = call
  BY <1>1, <1>2 DEF ShapeOK
<1>5. << >> = [x \in Tracked(proc[p].dir) \ Tracked(proc[p].dir) |-> disk[<<proc[p].dir, x>>]]
  OBVIOUS
<1>6. HoldsOK(p)'
  BY <1>1, <1>3, <1>4, <1>5 DEF HoldsOK, Checked, Tracked, There, OnlyProc
<1>7. CallOK(p)'
  BY <1>1, <1>3, <1>4, <1>6 DEF CallOK, Placed, Restoring
<1> QED
  BY <1>1, <1>2, <1>3, <1>7, OnlyProcStep

\* Every path was read, and all of them agree with the description.
LEMMA RestoreVerifyStep ==
    ASSUME WInv, NEW p \in Procs, RestoreVerify(p)
    PROVE  WInv'
<1>1. /\ proc[p].phase = "checking" /\ proc[p].todo = {}
      /\ OnlyProc /\ ShapeOK /\ CallOK(p)
  BY DEF RestoreVerify, InPhase, WInv
<1>2. PICK phase \in {"restored", "mismatch"} :
          Goes(p, phase) /\ (phase = "restored" => Verified(p))
  BY DEF RestoreVerify
<1> DEFINE call == [proc[p] EXCEPT !.phase = phase]
<1>3. proc' = [proc EXCEPT ![p] = call]
  BY <1>2 DEF Goes
<1>4. /\ DOMAIN call = Fields /\ call.phase = phase /\ call.alone = proc[p].alone
      /\ call.dir = proc[p].dir /\ call.id = proc[p].id
      /\ call.hash = proc[p].hash /\ call.goal = proc[p].goal
  BY <1>1 DEF ShapeOK, Fields
<1> HIDE DEF call
<1>5. proc'[p] = call
  BY <1>1, <1>3 DEF ShapeOK
<1>6. proc[p].alone /\ phase = "restored" => Content(proc[p].dir) = proc[p].hash
  BY <1>1, <1>2 DEF CallOK, HoldsOK, Verified, Content
<1>7. Content(proc[p].dir)' = Content(proc'[p].dir)
  BY <1>1, <1>4, <1>5 DEF Content, Tracked, There, OnlyProc
<1>8. CallOK(p)'
  BY <1>1, <1>2, <1>4, <1>5, <1>6, <1>7 DEF CallOK, Placed, HoldsOK, Restoring
<1> QED
  BY <1>1, <1>2, <1>3, <1>4, <1>8, OnlyProcStep

LEMMA RestoreEndsStep ==
    ASSUME WInv, NEW p \in Procs, RestoreEnds(p)
    PROVE  WInv'
BY QuietEndStep DEF RestoreEnds

\* What a call that is cut off leaves of the file it was writing: nothing that
\* reads as a description.
LEMMA KillStep ==
    ASSUME WInv, NEW p \in Procs, Kill(p)
    PROVE  WInv'
<1>1. /\ proc[p].phase # "idle" /\ Ends(p) /\ ShapeOK /\ UNCHANGED taken
      /\ marked' = IF proc[p].phase = "dumping" THEN {} ELSE marked
  BY DEF Kill, Active, InPhase, WInv
<1>2. CASE UNCHANGED disk
  <2>1. DescribedOK'
    BY <1>1, <1>2 DEF WInv, DescribedOK
  <2>2. MarksKept'
    <3>1. proc' = [proc EXCEPT ![p] = Idle] /\ DOMAIN proc = Procs
      BY <1>1 DEF Ends, ShapeOK
    <3> QED
      BY <1>1, <1>2, <3>1 DEF WInv, MarksKept
  <2>3. DOMAIN disk' = Dirs \X Paths /\ DOMAIN taken' = Ids
    BY <1>1, <1>2 DEF ShapeOK
  <2> QED
    BY <1>1, <2>1, <2>2, <2>3, EndStep
<1>3. CASE \E write \in Write(p) : \E content \in CutOff(write[3]) :
              disk' = Holding(write[1], write[2], content)
  <2>0. PICK write \in Write(p) :
            \E content \in CutOff(write[3]) : disk' = Holding(write[1], write[2], content)
    BY <1>3
  <2>1. PICK content \in CutOff(write[3]) : disk' = Holding(write[1], write[2], content)
    BY <2>0
  <2>2. \/ proc[p].phase = "dumping" /\ write[1] = Home /\ write[2] = Yaml
        \/ /\ proc[p].phase = "archiving" /\ write[1] = SnapDir
           /\ write[2] = Archive(proc[p].id)
        \/ /\ proc[p].phase = "describing" /\ write[1] = SnapDir
           /\ write[2] = Meta(proc[p].id) /\ write[3] = Files(proc[p].hash)
    <3>1. CASE proc[p].phase = "dumping"
      <4>1. Write(p) = {<<Home, Yaml, Config(Marked(proc[p].marks, proc[p].mark))>>}
        BY <3>1 DEF Write, InPhase
      <4> QED
        BY <3>1, <4>1
    <3>2. CASE proc[p].phase = "archiving" /\ proc[p].todo = {}
      <4>1. Write(p) = {<<SnapDir, Archive(proc[p].id), Files(proc[p].seen)>>}
        BY <3>2 DEF Write, InPhase
      <4> QED
        BY <3>2, <4>1
    <3>3. CASE proc[p].phase = "describing"
      <4>1. Write(p) = {<<SnapDir, Meta(proc[p].id), Files(proc[p].hash)>>}
        BY <3>3 DEF Write, InPhase
      <4> QED
        BY <3>3, <4>1
    <3>4. CASE /\ proc[p].phase # "dumping" /\ proc[p].phase # "describing"
               /\ ~(proc[p].phase = "archiving" /\ proc[p].todo = {})
      <4>1. Write(p) = {}
        BY <3>4 DEF Write, InPhase
      <4> QED
        BY <4>1
    <3> QED
      BY <3>1, <3>2, <3>3, <3>4
  <2>3. DOMAIN disk' = Dirs \X Paths /\ DOMAIN taken' = Ids
    BY <1>1, <2>1, Written DEF ShapeOK
  <2>4. proc[p].phase = "describing" => content = Broken
    <3>1. Files(proc[p].hash)[1] # "config"
      BY DEF Files
    <3> QED
      BY <2>2, <3>1 DEF CutOff
  <2>5. DescribedOK'
    <3> SUFFICES ASSUME NEW id \in Ids, disk'[<<SnapDir, Meta(id)>>] \notin {Absent, Broken}
                 PROVE  disk'[<<SnapDir, Meta(id)>>][2] = taken'[id]
      BY DEF DescribedOK
    <3>1. disk'[<<SnapDir, Meta(id)>>] = disk[<<SnapDir, Meta(id)>>]
      BY <1>1, <2>1, <2>2, <2>4, Written, PathFacts, PathsDiffer
    <3> QED
      BY <1>1, <3>1 DEF WInv, DescribedOK
  <2>6. MarksKept'
    <3>1. CASE proc[p].phase = "dumping"
      BY <1>1, <3>1 DEF MarksKept
    <3>2. CASE proc[p].phase # "dumping"
      <4>1. disk'[<<Home, Yaml>>] = disk[<<Home, Yaml>>]
        BY <1>1, <2>1, <2>2, <3>2, Written, PathFacts, PathsDiffer
      <4>2. proc' = [proc EXCEPT ![p] = Idle] /\ DOMAIN proc = Procs
        BY <1>1 DEF Ends, ShapeOK
      <4> QED
        BY <1>1, <3>2, <4>1, <4>2 DEF WInv, MarksKept
    <3> QED
      BY <3>1, <3>2
  <2> QED
    BY <1>1, <2>3, <2>5, <2>6, EndStep
<1> QED
  BY <1>2, <1>3 DEF Kill

LEMMA StutterStep ==
    ASSUME WInv, UNCHANGED vars
    PROVE  WInv'
<1>1. UNCHANGED <<disk, proc, marked, taken>>
  BY DEF vars
<1>2. ShapeOK' /\ AloneOK' /\ DescribedOK' /\ MarksKept'
  BY <1>1 DEF WInv, ShapeOK, AloneOK, DescribedOK, MarksKept
<1>3. \A p \in Procs : CallOK(p)'
  BY <1>1 DEF WInv, CallOK, HoldsOK, Placed, Content, Tracked, There
<1> QED
  BY <1>2, <1>3 DEF WInv

-----------------------------------------------------------------------------
(* Theorems *)

\* The inductive invariant holds for any processes, directories and ids, and
\* wherever the snapshots are kept.
THEOREM WorkspaceInvariant == Spec => []WInv
<1>1. Init => WInv
  <2> SUFFICES ASSUME Init PROVE WInv
    OBVIOUS
  <2>1. /\ DOMAIN disk = Dirs \X Paths /\ DOMAIN taken = Ids /\ marked = {}
        /\ proc = [p \in Procs |-> Idle]
        /\ \A id \in Ids : disk[<<SnapDir, Meta(id)>>] = Absent
    BY PathFacts DEF Init, Meta
  <2>2. ShapeOK /\ AloneOK /\ DescribedOK /\ MarksKept
    BY <2>1, IdleFacts DEF ShapeOK, AloneOK, DescribedOK, MarksKept
  <2>3. \A p \in Procs : CallOK(p)
    BY <2>1, IdleFacts DEF CallOK, Placed, HoldsOK, Restoring
  <2> QED
    BY <2>2, <2>3 DEF WInv
<1>2. WInv /\ [Next]_vars => WInv'
  <2> SUFFICES ASSUME WInv, [Next]_vars PROVE WInv'
    OBVIOUS
  <2>1. CASE \E dir \in Dirs, name \in Names, content \in {Text(t) : t \in Texts} \cup {Absent} :
                AgentEdits(dir, name, content)
    BY <2>1, AgentEditsStep
  <2>2. ASSUME NEW p \in Procs,
               \/ \E mark \in Marks : MarkLoad(p, mark)
               \/ MarkTruncate(p)
               \/ MarkWrite(p)
               \/ \E id \in Ids : CreateBegin(p, id)
               \/ ReadNext(p)
               \/ CreateArchive(p)
               \/ CreateWrite(p)
               \/ CreateDescribe(p)
        PROVE  WInv'
    BY <2>2, MarkLoadStep, MarkTruncateStep, MarkWriteStep, CreateBeginStep, ReadNextStep,
       CreateArchiveStep, CreateWriteStep, CreateDescribeStep
  <2>3. ASSUME NEW p \in Procs,
               \/ \E id \in Ids, dir \in Dirs, force \in BOOLEAN : RestoreBegin(p, id, dir, force)
               \/ RestoreOpen(p)
               \/ RestoreExtract(p)
               \/ RestoreCheck(p)
               \/ RestoreVerify(p)
               \/ RestoreEnds(p)
               \/ Kill(p)
        PROVE  WInv'
    BY <2>3, RestoreBeginStep, RestoreOpenStep, RestoreExtractStep, RestoreCheckStep,
       RestoreVerifyStep, RestoreEndsStep, KillStep
  <2> QED
    BY <2>1, <2>2, <2>3, StutterStep DEF Next
<1> QED
  BY <1>1, <1>2, PTL DEF Spec

\* mark_ignore_fields and mark_live_tool: a mark that nothing overlapped stays,
\* whatever is marked, snapshot and restored later.
THEOREM MarksStay == Spec => []MarksKept
<1>1. WInv => MarksKept
  BY DEF WInv
<1> QED
  BY <1>1, WorkspaceInvariant, PTL

\* restore_snapshot: one that returns undisturbed has put back what its snapshot
\* was taken of, however that snapshot was made.
THEOREM RestoresAreExact == Spec => []RestoreIsExact
<1>1. WInv => RestoreIsExact
  BY DEF WInv, RestoreIsExact, InPhase, CallOK, HoldsOK, Restoring
<1> QED
  BY <1>1, WorkspaceInvariant, PTL

-----------------------------------------------------------------------------
(* Snapshots that can be restored again *)

\* Files that can be tracked, with contents.
IsSnapshot(map) ==
    /\ map = [path \in DOMAIN map |-> map[path]]
    /\ DOMAIN map \subseteq Paths \ {File(n) : n \in Denied}
    /\ \A path \in DOMAIN map : map[path] # Absent

\* A directory has the files of a map, those left to do aside.
HasFiles(dir, map, todo) == \A path \in DOMAIN map \ todo : disk[<<dir, path>>] = map[path]

\* What a call holds while it takes a snapshot that nothing disturbs.
TakesOK(call) ==
    /\ call.phase = "hashing" =>
          /\ call.dir = Home /\ call.todo \subseteq Paths \ {File(n) : n \in Denied}
          /\ IsSnapshot(call.seen) /\ HasFiles(Home, call.seen, {})
    /\ call.phase = "archiving" =>
          /\ call.dir = Home /\ call.todo \subseteq DOMAIN call.hash
          /\ IsSnapshot(call.hash) /\ HasFiles(Home, call.hash, {})
          /\ call.seen = [path \in DOMAIN call.hash \ call.todo |-> call.hash[path]]
    /\ call.phase = "describing" =>
          /\ IsSnapshot(call.hash)
          /\ disk[<<SnapDir, Archive(call.id)>>] = Files(call.hash)

\* What a call holds while it restores, undisturbed, one that was not.
RestoresOK(call) ==
    /\ call.phase = "opening" => call.hash = taken[call.id]
    /\ call.phase \in {"extracting", "checking"} => IsSnapshot(call.hash)
    /\ call.phase = "extracting" =>
          /\ call.seen = call.hash /\ call.todo \subseteq DOMAIN call.hash
          /\ HasFiles(call.dir, call.hash, call.todo)
    /\ call.phase = "checking" => HasFiles(call.dir, call.hash, {})
    /\ call.phase = "mismatch" => ~(Tracked(call.dir) \subseteq DOMAIN call.hash)

QuietOK(p) ==
    proc[p].alone => TakesOK(proc[p]) /\ (proc[p].id \in quiet => RestoresOK(proc[p]))

\* The archive of a snapshot that nothing disturbed is the one described.
ArchivesOK ==
    /\ quiet \subseteq Ids
    /\ \A id \in quiet :
          IsSnapshot(taken[id]) /\ disk[<<SnapDir, Archive(id)>>] = Files(taken[id])

QInv == ArchivesOK /\ \A p \in Procs : QuietOK(p)

LEMMA ArchivePaths ==
    /\ \A id \in Ids : Archive(id) \in Paths
    /\ \A id, o : Archive(id) = Archive(o) => id = o
BY DEF Archive, Paths

\* The phases in which a call holds something of a snapshot.
SnapshotPhases == {"hashing", "archiving", "describing", "opening", "extracting", "checking", "mismatch"}

LEMMA HoldsNothing ==
    ASSUME NEW p \in Procs, ~proc'[p].alone \/ proc'[p].phase \notin SnapshotPhases
    PROVE  QuietOK(p)'
BY DEF QuietOK, TakesOK, RestoresOK, SnapshotPhases

\* A step of a call under way: the others are idle or not alone.
LEMMA QuietCall ==
    ASSUME WInv, QInv, NEW p \in Procs, proc[p].phase # "idle",
           \A q \in Procs \ {p} : proc'[q] = proc[q],
           ArchivesOK', QuietOK(p)'
    PROVE  QInv'
<1>1. ASSUME NEW q \in Procs, q # p PROVE QuietOK(q)'
  <2>1. proc'[q] = proc[q] /\ (proc[q].phase = "idle" \/ ~proc[q].alone)
    BY <1>1 DEF WInv, AloneOK
  <2> QED
    BY <2>1, HoldsNothing DEF SnapshotPhases
<1> QED
  BY <1>1 DEF QInv

\* Nothing is written to the archives that count.
LEMMA ArchivesStay ==
    ASSUME ArchivesOK, quiet' \subseteq quiet,
           \A id \in quiet' : /\ taken'[id] = taken[id]
                              /\ disk'[<<SnapDir, Archive(id)>>] = disk[<<SnapDir, Archive(id)>>]
    PROVE  ArchivesOK'
<1>1. \A map : IsSnapshot(map)' <=> IsSnapshot(map)
  BY DEF IsSnapshot
<1>2. ASSUME NEW id \in quiet'
      PROVE  IsSnapshot(taken'[id]) /\ disk'[<<SnapDir, Archive(id)>>] = Files(taken'[id])
  BY <1>2 DEF ArchivesOK
<1> QED
  BY <1>1, <1>2 DEF ArchivesOK, IsSnapshot

\* A call that ends, or that holds nothing of a snapshot any more.
LEMMA QuietEnd ==
    ASSUME WInv, QInv, NEW p \in Procs, proc[p].phase # "idle",
           \/ Ends(p)
           \/ proc'[p].phase \notin SnapshotPhases /\ \A q \in Procs \ {p} : proc'[q] = proc[q],
           ArchivesOK'
    PROVE  QInv'
<1>1. proc'[p].phase \notin SnapshotPhases /\ \A q \in Procs \ {p} : proc'[q] = proc[q]
  <2>1. CASE Ends(p)
    <3>1. proc' = [proc EXCEPT ![p] = Idle] /\ DOMAIN proc = Procs
      BY <2>1 DEF Ends, WInv, ShapeOK
    <3> QED
      BY <3>1, IdleFacts DEF SnapshotPhases
  <2> QED
    BY <2>1
<1> QED
  BY <1>1, HoldsNothing, QuietCall

\* A call that begins.
LEMMA QuietBegin ==
    ASSUME WInv, QInv, NEW p \in Procs, NEW call, DOMAIN call = Fields, Begins(p, call),
           UNCHANGED <<disk, quiet, taken>>,
           TakesOK(call), call.id \in quiet => RestoresOK(call)
    PROVE  QInv'
<1> DEFINE begun == [call EXCEPT !.alone = Active = {}]
<1>1. proc' = [q \in Procs |->
                  IF q = p THEN begun
                  ELSE IF q \in Active THEN [proc[q] EXCEPT !.alone = FALSE]
                  ELSE proc[q]]
  BY DEF Begins
<1>2. /\ begun.phase = call.phase /\ begun.id = call.id /\ begun.dir = call.dir
      /\ begun.todo = call.todo /\ begun.seen = call.seen /\ begun.hash = call.hash
  BY DEF Fields
<1> HIDE DEF begun
<1>3. proc'[p] = begun
  BY <1>1
<1>4. QuietOK(p)'
  <2>1. TakesOK(begun)
    BY <1>2 DEF TakesOK
  <2>2. begun.id \in quiet => RestoresOK(begun)
    BY <1>2 DEF RestoresOK
  <2>3. TakesOK(proc[p])'
    BY <1>3, <2>1 DEF TakesOK, HasFiles, IsSnapshot
  <2>4. (proc[p].id \in quiet => RestoresOK(proc[p]))'
    BY <1>3, <2>2 DEF RestoresOK, HasFiles, IsSnapshot, Tracked, There
  <2> QED
    BY <2>3, <2>4 DEF QuietOK
<1>5. ASSUME NEW q \in Procs, q # p PROVE QuietOK(q)'
  <2>1. CASE q \in Active
    <3>1. proc'[q] = [proc[q] EXCEPT !.alone = FALSE] /\ DOMAIN proc[q] = Fields
      BY <1>1, <1>5, <2>1 DEF WInv, ShapeOK
    <3>2. ~proc'[q].alone
      BY <3>1 DEF Fields
    <3> QED
      BY <3>2, HoldsNothing
  <2>2. CASE q \notin Active
    <3>1. proc'[q].phase = "idle"
      BY <1>1, <1>5, <2>2 DEF Active, InPhase
    <3> QED
      BY <3>1, HoldsNothing DEF SnapshotPhases
  <2> QED
    BY <2>1, <2>2
<1>6. ArchivesOK'
  BY ArchivesStay DEF QInv
<1> QED
  BY <1>4, <1>5, <1>6 DEF QInv

LEMMA AgentEditsQuiet ==
    ASSUME WInv, QInv, NEW dir \in Dirs, NEW name \in Names, NEW content,
           AgentEdits(dir, name, content)
    PROVE  QInv'
<1>1. /\ disk' = Holding(dir, File(name), content) /\ UNCHANGED <<quiet, taken>>
      /\ proc' = [p \in Procs |-> IF p \in Active THEN [proc[p] EXCEPT !.alone = FALSE] ELSE proc[p]]
  BY DEF AgentEdits
<1>2. ASSUME NEW id \in Ids
      PROVE  disk'[<<SnapDir, Archive(id)>>] = disk[<<SnapDir, Archive(id)>>]
  BY <1>1, Written, PathFacts, ArchivePaths, PathsDiffer DEF WInv
<1>3. ArchivesOK'
  BY <1>1, <1>2, ArchivesStay DEF QInv, ArchivesOK
<1>4. ASSUME NEW p \in Procs PROVE QuietOK(p)'
  <2>1. CASE p \in Active
    <3>1. proc'[p] = [proc[p] EXCEPT !.alone = FALSE] /\ DOMAIN proc[p] = Fields
      BY <1>1, <2>1 DEF WInv, ShapeOK
    <3>2. ~proc'[p].alone
      BY <3>1 DEF Fields
    <3> QED
      BY <3>2, HoldsNothing
  <2>2. CASE p \notin Active
    <3>1. proc'[p].phase = "idle"
      BY <1>1, <2>2 DEF Active, InPhase
    <3> QED
      BY <3>1, HoldsNothing DEF SnapshotPhases
  <2> QED
    BY <2>1, <2>2
<1> QED
  BY <1>3, <1>4 DEF QInv

LEMMA MarkLoadQuiet ==
    ASSUME WInv, QInv, NEW p \in Procs, NEW mark \in Marks, MarkLoad(p, mark)
    PROVE  QInv'
<1> DEFINE call == [Idle EXCEPT !.phase = "marking", !.mark = mark,
                                !.marks = MarksIn(disk[<<Home, Yaml>>])]
<1>1. DOMAIN call = Fields /\ call.phase = "marking"
  BY IdleFacts DEF Fields
<1>2. Begins(p, call) /\ UNCHANGED <<disk, quiet, taken>>
  BY DEF MarkLoad
<1> HIDE DEF call
<1> QED
  BY <1>1, <1>2, QuietBegin DEF TakesOK, RestoresOK

LEMMA MarkTruncateQuiet ==
    ASSUME WInv, QInv, NEW p \in Procs, MarkTruncate(p)
    PROVE  QInv'
<1>1. /\ proc[p].phase = "marking" /\ disk' = Holding(Home, Yaml, Config({}))
      /\ UNCHANGED <<quiet, taken>> /\ Goes(p, "dumping") /\ ShapeOK
  BY DEF MarkTruncate, InPhase, WInv
<1>2. proc'[p].phase = "dumping" /\ \A q \in Procs \ {p} : proc'[q] = proc[q]
  <2>1. DOMAIN proc = Procs /\ "phase" \in DOMAIN proc[p]
    BY <1>1 DEF ShapeOK, Fields
  <2> QED
    BY <1>1, <2>1 DEF Goes
<1>3. \A id \in Ids : disk'[<<SnapDir, Archive(id)>>] = disk[<<SnapDir, Archive(id)>>]
  BY <1>1, Written, PathFacts, ArchivePaths, PathsDiffer
<1>4. ArchivesOK'
  BY <1>1, <1>3, ArchivesStay DEF QInv, ArchivesOK
<1> QED
  BY <1>1, <1>2, <1>4, QuietEnd DEF SnapshotPhases

LEMMA MarkWriteQuiet ==
    ASSUME WInv, QInv, NEW p \in Procs, MarkWrite(p)
    PROVE  QInv'
<1> DEFINE config == Config(Marked(proc[p].marks, proc[p].mark))
<1>1. /\ proc[p].phase = "dumping" /\ disk' = Holding(Home, Yaml, config)
      /\ UNCHANGED <<quiet, taken>> /\ Ends(p) /\ ShapeOK
  BY DEF MarkWrite, InPhase, WInv
<1>2. \A id \in Ids : disk'[<<SnapDir, Archive(id)>>] = disk[<<SnapDir, Archive(id)>>]
  BY <1>1, Written, PathFacts, ArchivePaths, PathsDiffer
<1>3. ArchivesOK'
  BY <1>1, <1>2, ArchivesStay DEF QInv, ArchivesOK
<1> QED
  BY <1>1, <1>3, QuietEnd

LEMMA CreateBeginQuiet ==
    ASSUME WInv, QInv, NEW p \in Procs, NEW id \in Ids, CreateBegin(p, id)
    PROVE  QInv'
<1> DEFINE call == [Idle EXCEPT !.phase = "hashing", !.id = id, !.todo = Tracked(Home)]
<1>1. /\ DOMAIN call = Fields /\ call.phase = "hashing" /\ call.dir = Home
      /\ call.todo = Tracked(Home) /\ call.seen = << >>
  BY IdleFacts DEF Fields, Idle
<1>2. Begins(p, call) /\ UNCHANGED <<disk, quiet, taken>>
  BY DEF CreateBegin
<1> HIDE DEF call
<1>3. IsSnapshot(<< >>) /\ HasFiles(Home, << >>, {})
  BY DEF IsSnapshot, HasFiles
<1>4. TakesOK(call)
  BY <1>1, <1>3 DEF TakesOK, Tracked, There
<1> QED
  BY <1>1, <1>2, <1>4, QuietBegin DEF RestoresOK

\* What is read of a directory.
LEMMA ReadMore ==
    ASSUME NEW seen, NEW path \in Paths \ {File(n) : n \in Denied}, NEW content, content # Absent,
           NEW dir, IsSnapshot(seen), HasFiles(dir, seen, {}), disk[<<dir, path>>] = content
    PROVE  IsSnapshot(With(seen, path, content)) /\ HasFiles(dir, With(seen, path, content), {})
<1>1. /\ DOMAIN With(seen, path, content) = DOMAIN seen \cup {path}
      /\ \A x \in DOMAIN seen \cup {path} :
            With(seen, path, content)[x] = IF x = path THEN content ELSE seen[x]
  BY DEF With
<1>2. With(seen, path, content) = [x \in DOMAIN seen \cup {path} |-> With(seen, path, content)[x]]
  BY DEF With
<1> QED
  BY <1>1, <1>2 DEF IsSnapshot, HasFiles

LEMMA ReadNextQuiet ==
    ASSUME WInv, QInv, NEW p \in Procs, ReadNext(p)
    PROVE  QInv'
<1>1. /\ proc[p].phase \in {"hashing", "archiving", "checking"} /\ proc[p].todo # {}
      /\ UNCHANGED <<disk, quiet, taken>> /\ ShapeOK /\ QuietOK(p)
  BY DEF ReadNext, OnlyProc, WInv, QInv
<1>2. ArchivesOK'
  BY <1>1, ArchivesStay DEF QInv
<1>3. CASE Ends(p)
  BY <1>1, <1>2, <1>3, QuietEnd
<1>4. ASSUME NEW path \in proc[p].todo, NEW content, content = disk[<<proc[p].dir, path>>],
             content # Absent,
             proc' = [proc EXCEPT ![p].todo = @ \ {path}, ![p].seen = With(@, path, content)]
      PROVE  QInv'
  <2>1. /\ proc'[p].phase = proc[p].phase /\ proc'[p].alone = proc[p].alone
        /\ proc'[p].id = proc[p].id /\ proc'[p].dir = proc[p].dir
        /\ proc'[p].todo = proc[p].todo \ {path}
        /\ proc'[p].seen = With(proc[p].seen, path, content)
        /\ proc'[p].hash = proc[p].hash /\ \A q \in Procs \ {p} : proc'[q] = proc[q]
    BY <1>1, <1>4 DEF ShapeOK, Fields
  <2>2. ASSUME proc[p].alone PROVE TakesOK(proc[p])'
    <3>1. TakesOK(proc[p])
      BY <1>1, <2>2 DEF QuietOK
    <3>2. CASE proc[p].phase = "hashing"
      <4>1. /\ path \in Paths \ {File(n) : n \in Denied} /\ proc[p].dir = Home
            /\ proc[p].todo \subseteq Paths \ {File(n) : n \in Denied}
            /\ IsSnapshot(proc[p].seen) /\ HasFiles(Home, proc[p].seen, {})
        BY <3>1, <3>2 DEF TakesOK
      <4>2. /\ IsSnapshot(With(proc[p].seen, path, content))
            /\ HasFiles(Home, With(proc[p].seen, path, content), {})
        BY <1>4, <4>1, ReadMore
      <4> QED
        BY <1>1, <2>1, <3>2, <4>1, <4>2 DEF TakesOK, IsSnapshot, HasFiles
    <3>3. CASE proc[p].phase = "archiving"
      <4>1. /\ proc[p].dir = Home /\ proc[p].todo \subseteq DOMAIN proc[p].hash
            /\ IsSnapshot(proc[p].hash) /\ HasFiles(Home, proc[p].hash, {})
            /\ proc[p].seen = [x \in DOMAIN proc[p].hash \ proc[p].todo |-> proc[p].hash[x]]
        BY <3>1, <3>3 DEF TakesOK
      <4>2. PICK hash, todo : hash = proc[p].hash /\ todo = proc[p].todo
        OBVIOUS
      <4>3. content = hash[path] /\ path \in DOMAIN hash /\ path \in todo
        BY <1>4, <4>1, <4>2 DEF HasFiles
      <4>4. With([x \in DOMAIN hash \ todo |-> hash[x]], path, content)
              = [x \in DOMAIN hash \ (todo \ {path}) |-> hash[x]]
        <5>1. (DOMAIN hash \ todo) \cup {path} = DOMAIN hash \ (todo \ {path})
          BY <4>3
        <5> QED
          BY <4>3, <5>1 DEF With
      <4> QED
        BY <1>1, <2>1, <3>3, <4>1, <4>2, <4>4 DEF TakesOK, IsSnapshot, HasFiles
    <3>4. CASE proc[p].phase = "checking"
      BY <2>1, <3>4 DEF TakesOK
    <3> QED
      BY <1>1, <3>2, <3>3, <3>4
  <2>3. (proc[p].id \in quiet => RestoresOK(proc[p])) => (proc[p].id \in quiet => RestoresOK(proc[p]))'
    BY <1>1, <2>1 DEF RestoresOK, IsSnapshot, HasFiles
  <2>4. QuietOK(p)'
    BY <1>1, <2>1, <2>2, <2>3 DEF QuietOK
  <2> QED
    BY <1>1, <1>2, <2>1, <2>4, QuietCall
<1>5. (CHOOSE path \in proc[p].todo : TRUE) \in proc[p].todo
  BY <1>1
<1> QED
  BY <1>3, <1>4, <1>5 DEF ReadNext

LEMMA CreateArchiveQuiet ==
    ASSUME WInv, QInv, NEW p \in Procs, CreateArchive(p)
    PROVE  QInv'
<1>1. /\ proc[p].phase = "hashing" /\ UNCHANGED <<disk, quiet, taken>> /\ ShapeOK /\ QuietOK(p)
  BY DEF CreateArchive, InPhase, OnlyProc, WInv, QInv
<1>2. /\ proc'[p].phase = "archiving" /\ proc'[p].alone = proc[p].alone
      /\ proc'[p].dir = proc[p].dir /\ proc'[p].todo = DOMAIN proc[p].seen
      /\ proc'[p].hash = proc[p].seen /\ proc'[p].seen = << >>
      /\ \A q \in Procs \ {p} : proc'[q] = proc[q]
  BY <1>1 DEF CreateArchive, ShapeOK, Fields
<1>3. ASSUME proc[p].alone PROVE TakesOK(proc[p])'
  <2>1. /\ proc[p].dir = Home /\ IsSnapshot(proc[p].seen) /\ HasFiles(Home, proc[p].seen, {})
    BY <1>1, <1>3 DEF QuietOK, TakesOK
  <2>2. << >> = [x \in DOMAIN proc[p].seen \ DOMAIN proc[p].seen |-> proc[p].seen[x]]
    OBVIOUS
  <2> QED
    BY <1>1, <1>2, <2>1, <2>2 DEF TakesOK, IsSnapshot, HasFiles
<1>4. QuietOK(p)'
  BY <1>2, <1>3 DEF QuietOK, RestoresOK
<1>5. ArchivesOK'
  BY <1>1, ArchivesStay DEF QInv
<1> QED
  BY <1>1, <1>2, <1>4, <1>5, QuietCall

\* An archive is written: what was read twice is the same.
LEMMA CreateWriteQuiet ==
    ASSUME WInv, QInv, NEW p \in Procs, CreateWrite(p)
    PROVE  QInv'
<1> DEFINE id == proc[p].id
<1>1. /\ proc[p].phase = "archiving" /\ proc[p].todo = {} /\ ShapeOK /\ QuietOK(p)
      /\ disk' = Holding(SnapDir, Archive(id), Files(proc[p].seen))
      /\ quiet' = quiet \ {id} /\ Goes(p, "describing") /\ taken' = taken
  BY DEF CreateWrite, InPhase, WInv, QInv
<1>2. id \in Ids
  BY <1>1 DEF WInv, CallOK, Placed
<1>3. /\ proc'[p].phase = "describing" /\ proc'[p].alone = proc[p].alone
      /\ proc'[p].id = id /\ proc'[p].hash = proc[p].hash
      /\ \A q \in Procs \ {p} : proc'[q] = proc[q]
  BY <1>1 DEF Goes, ShapeOK, Fields
<1>4. disk'[<<SnapDir, Archive(id)>>] = Files(proc[p].seen)
  BY <1>1, <1>2, Written, PathFacts, ArchivePaths
<1>5. ASSUME proc[p].alone PROVE TakesOK(proc[p])'
  <2>1. /\ IsSnapshot(proc[p].hash)
        /\ proc[p].seen = [x \in DOMAIN proc[p].hash \ {} |-> proc[p].hash[x]]
    BY <1>1, <1>5 DEF QuietOK, TakesOK
  <2>2. proc[p].seen = proc[p].hash
    BY <2>1 DEF IsSnapshot
  <2> QED
    BY <1>3, <1>4, <2>1, <2>2 DEF TakesOK, IsSnapshot
<1>6. QuietOK(p)'
  BY <1>3, <1>5 DEF QuietOK, RestoresOK
<1>7. \A o \in Ids \ {id} : disk'[<<SnapDir, Archive(o)>>] = disk[<<SnapDir, Archive(o)>>]
  BY <1>1, Written, PathFacts, ArchivePaths
<1>8. ArchivesOK'
  BY <1>1, <1>7, ArchivesStay DEF QInv, ArchivesOK
<1> QED
  BY <1>1, <1>3, <1>6, <1>8, QuietCall

\* It is described: from now on it counts, if nothing disturbed the call.
LEMMA CreateDescribeQuiet ==
    ASSUME WInv, QInv, NEW p \in Procs, CreateDescribe(p)
    PROVE  QInv'
<1> DEFINE id == proc[p].id
<1>1. /\ proc[p].phase = "describing" /\ ShapeOK /\ QuietOK(p) /\ Ends(p)
      /\ disk' = Holding(SnapDir, Meta(id), Files(proc[p].hash))
      /\ quiet' = IF proc[p].alone THEN quiet \cup {id} ELSE quiet \ {id}
      /\ taken' = [taken EXCEPT ![id] = proc[p].hash]
  BY DEF CreateDescribe, InPhase, WInv, QInv
<1>2. id \in Ids
  BY <1>1 DEF WInv, CallOK, Placed
<1>3. /\ taken'[id] = proc[p].hash /\ \A o \in Ids \ {id} : taken'[o] = taken[o]
      /\ \A o \in Ids : disk'[<<SnapDir, Archive(o)>>] = disk[<<SnapDir, Archive(o)>>]
  BY <1>1, <1>2, Written, PathFacts, ArchivePaths, PathsDiffer DEF ShapeOK
<1>4. ASSUME NEW o \in quiet', o # id
      PROVE  /\ o \in Ids /\ IsSnapshot(taken'[o])
             /\ disk'[<<SnapDir, Archive(o)>>] = Files(taken'[o])
  BY <1>1, <1>3, <1>4 DEF QInv, ArchivesOK
<1>5. ASSUME id \in quiet'
      PROVE  IsSnapshot(taken'[id]) /\ disk'[<<SnapDir, Archive(id)>>] = Files(taken'[id])
  BY <1>1, <1>2, <1>3, <1>5 DEF QuietOK, TakesOK
<1>6. ArchivesOK'
  BY <1>2, <1>4, <1>5 DEF ArchivesOK, IsSnapshot
<1> QED
  BY <1>1, <1>6, QuietEnd

\* The file that a call is inside of writing.
LEMMA WritesOwn ==
    ASSUME NEW p \in Procs, NEW write \in Write(p)
    PROVE  write[2] \in {Yaml, Archive(proc[p].id), Meta(proc[p].id)}
<1> DEFINE id == proc[p].id
<1>1. CASE proc[p].phase = "dumping"
  <2>1. Write(p) = {<<Home, Yaml, Config(Marked(proc[p].marks, proc[p].mark))>>}
    BY <1>1 DEF Write, InPhase
  <2> QED
    BY <2>1
<1>2. CASE proc[p].phase = "archiving" /\ proc[p].todo = {}
  <2>1. Write(p) = {<<SnapDir, Archive(id), Files(proc[p].seen)>>}
    BY <1>2 DEF Write, InPhase
  <2> QED
    BY <2>1
<1>3. CASE proc[p].phase = "describing"
  <2>1. Write(p) = {<<SnapDir, Meta(id), Files(proc[p].hash)>>}
    BY <1>3 DEF Write, InPhase
  <2> QED
    BY <2>1
<1>4. CASE /\ proc[p].phase # "dumping" /\ proc[p].phase # "describing"
           /\ ~(proc[p].phase = "archiving" /\ proc[p].todo = {})
  <2>1. Write(p) = {}
    BY <1>4 DEF Write, InPhase
  <2> QED
    BY <2>1
<1> QED
  BY <1>1, <1>2, <1>3, <1>4

LEMMA RestoreBeginQuiet ==
    ASSUME WInv, QInv, NEW p \in Procs, NEW id \in Ids, NEW dir \in Dirs, NEW force \in BOOLEAN,
           RestoreBegin(p, id, dir, force)
    PROVE  QInv'
<1>1. PICK hash : hash = disk[<<SnapDir, Meta(id)>>][2]
  OBVIOUS
<1> DEFINE call == [Idle EXCEPT !.phase = "opening", !.id = id, !.dir = dir,
                                !.hash = hash, !.goal = taken[id]]
<1>2. DOMAIN call = Fields /\ call.phase = "opening" /\ call.id = id /\ call.hash = hash
  BY IdleFacts DEF Fields
<1>3. Begins(p, call) /\ UNCHANGED <<disk, quiet, taken>>
  BY <1>1 DEF RestoreBegin
<1>4. hash = taken[id]
  BY <1>1 DEF RestoreBegin, WInv, DescribedOK
<1> HIDE DEF call
<1> QED
  BY <1>2, <1>3, <1>4, QuietBegin DEF TakesOK, RestoresOK

\* The archive of an undisturbed snapshot holds what its description says.
LEMMA RestoreOpenQuiet ==
    ASSUME WInv, QInv, NEW p \in Procs, RestoreOpen(p)
    PROVE  QInv'
<1> DEFINE archive == disk[<<SnapDir, Archive(proc[p].id)>>]
<1>1. /\ proc[p].phase = "opening" /\ UNCHANGED <<disk, quiet, taken>> /\ ShapeOK /\ QuietOK(p)
  BY DEF RestoreOpen, InPhase, OnlyProc, WInv, QInv
<1>2. ArchivesOK'
  BY <1>1, ArchivesStay DEF QInv
<1>3. CASE archive = Broken
  <2>1. Ends(p)
    BY <1>3 DEF RestoreOpen
  <2> QED
    BY <1>1, <1>2, <2>1, QuietEnd
<1>4. CASE archive # Broken
  <2>1. proc' = [proc EXCEPT ![p].phase = "extracting", ![p].seen = archive[2],
                             ![p].todo = DOMAIN archive[2]]
    BY <1>4 DEF RestoreOpen
  <2>2. /\ proc'[p].phase = "extracting" /\ proc'[p].alone = proc[p].alone
        /\ proc'[p].id = proc[p].id /\ proc'[p].dir = proc[p].dir
        /\ proc'[p].seen = archive[2] /\ proc'[p].todo = DOMAIN archive[2]
        /\ proc'[p].hash = proc[p].hash /\ \A q \in Procs \ {p} : proc'[q] = proc[q]
    BY <1>1, <2>1 DEF ShapeOK, Fields
  <2>3. ASSUME proc[p].alone, proc[p].id \in quiet PROVE RestoresOK(proc[p])'
    <3>1. proc[p].hash = taken[proc[p].id]
      BY <1>1, <2>3 DEF QuietOK, RestoresOK
    <3>2. archive[2] = proc[p].hash /\ IsSnapshot(proc[p].hash)
      BY <2>3, <3>1 DEF QInv, ArchivesOK, Files
    <3> QED
      BY <2>2, <3>2 DEF RestoresOK, IsSnapshot, HasFiles
  <2>4. QuietOK(p)'
    BY <1>1, <2>2, <2>3 DEF QuietOK, TakesOK
  <2> QED
    BY <1>1, <1>2, <2>2, <2>4, QuietCall
<1> QED
  BY <1>3, <1>4

\* One more file is put back; an archive or a description that is overwritten
\* no longer counts.
LEMMA RestoreExtractQuiet ==
    ASSUME WInv, QInv, NEW p \in Procs, RestoreExtract(p)
    PROVE  QInv'
<1> DEFINE dir == proc[p].dir
<1>1. /\ proc[p].phase = "extracting" /\ ShapeOK /\ QuietOK(p) /\ dir \in Dirs
  BY DEF RestoreExtract, InPhase, WInv, QInv, CallOK, Placed
<1>2. PICK path \in proc[p].todo :
          /\ disk' = Holding(dir, path, proc[p].seen[path])
          /\ proc' = [proc EXCEPT ![p].todo = @ \ {path}]
          /\ quiet' = IF dir = SnapDir THEN {id \in quiet : path \notin {Archive(id), Meta(id)}}
                      ELSE quiet
          /\ taken' = [id \in Ids |-> IF dir = SnapDir /\ path = Meta(id)
                                      THEN proc[p].seen[path][2] ELSE taken[id]]
  BY <1>1 DEF RestoreExtract
<1>3. /\ proc'[p].phase = "extracting" /\ proc'[p].alone = proc[p].alone
      /\ proc'[p].id = proc[p].id /\ proc'[p].dir = dir
      /\ proc'[p].todo = proc[p].todo \ {path} /\ proc'[p].seen = proc[p].seen
      /\ proc'[p].hash = proc[p].hash /\ \A q \in Procs \ {p} : proc'[q] = proc[q]
  BY <1>1, <1>2 DEF ShapeOK, Fields
<1>4. quiet' \subseteq quiet
  BY <1>2
<1>5. ArchivesOK'
  <2> SUFFICES ASSUME NEW id \in quiet'
               PROVE  /\ taken'[id] = taken[id]
                      /\ disk'[<<SnapDir, Archive(id)>>] = disk[<<SnapDir, Archive(id)>>]
    BY <1>4, ArchivesStay DEF QInv
  <2>1. id \in Ids /\ ~(dir = SnapDir /\ path \in {Archive(id), Meta(id)})
    BY <1>2, <1>4 DEF QInv, ArchivesOK
  <2>2. taken'[id] = taken[id]
    BY <1>2, <2>1
  <2>3. disk'[<<SnapDir, Archive(id)>>] = disk[<<SnapDir, Archive(id)>>]
    BY <1>1, <1>2, <2>1, Written, PathFacts, ArchivePaths
  <2> QED
    BY <2>2, <2>3
<1>6. ASSUME proc[p].alone, proc[p].id \in quiet PROVE RestoresOK(proc[p])'
  <2>1. /\ IsSnapshot(proc[p].hash) /\ proc[p].seen = proc[p].hash
        /\ proc[p].todo \subseteq DOMAIN proc[p].hash /\ HasFiles(dir, proc[p].hash, proc[p].todo)
    BY <1>1, <1>6 DEF QuietOK, RestoresOK
  <2>2. DOMAIN proc[p].hash \subseteq Paths
    BY <2>1 DEF IsSnapshot
  <2>3. \A x \in DOMAIN proc[p].hash \ (proc[p].todo \ {path}) :
            disk'[<<dir, x>>] = proc[p].hash[x]
    BY <1>1, <1>2, <2>1, <2>2, Written DEF HasFiles
  <2> QED
    BY <1>3, <2>1, <2>3 DEF RestoresOK, IsSnapshot, HasFiles
<1>7. QuietOK(p)'
  BY <1>3, <1>4, <1>6 DEF QuietOK, TakesOK
<1> QED
  BY <1>1, <1>3, <1>5, <1>7, QuietCall

LEMMA RestoreCheckQuiet ==
    ASSUME WInv, QInv, NEW p \in Procs, RestoreCheck(p)
    PROVE  QInv'
<1>1. /\ proc[p].phase = "extracting" /\ proc[p].todo = {}
      /\ UNCHANGED <<disk, quiet, taken>> /\ ShapeOK /\ QuietOK(p)
  BY DEF RestoreCheck, InPhase, OnlyProc, WInv, QInv
<1>2. /\ proc'[p].phase = "checking" /\ proc'[p].alone = proc[p].alone
      /\ proc'[p].id = proc[p].id /\ proc'[p].dir = proc[p].dir
      /\ proc'[p].hash = proc[p].hash /\ \A q \in Procs \ {p} : proc'[q] = proc[q]
  BY <1>1 DEF RestoreCheck, ShapeOK, Fields
<1>3. QuietOK(p)'
  BY <1>1, <1>2 DEF QuietOK, TakesOK, RestoresOK, IsSnapshot, HasFiles
<1>4. ArchivesOK'
  BY <1>1, ArchivesStay DEF QInv
<1> QED
  BY <1>1, <1>2, <1>3, <1>4, QuietCall

\* What the directory holds is not what was put back: there is more of it.
LEMMA RestoreVerifyQuiet ==
    ASSUME WInv, QInv, NEW p \in Procs, RestoreVerify(p)
    PROVE  QInv'
<1> DEFINE dir == proc[p].dir
<1>1. /\ proc[p].phase = "checking" /\ proc[p].todo = {}
      /\ UNCHANGED <<disk, quiet, taken>> /\ ShapeOK /\ QuietOK(p) /\ CallOK(p)
  BY DEF RestoreVerify, InPhase, OnlyProc, WInv, QInv
<1>2. PICK phase \in {"restored", "mismatch"} :
          Goes(p, phase) /\ (phase = "mismatch" => ~Verified(p))
  BY DEF RestoreVerify
<1>3. /\ proc'[p].phase = phase /\ proc'[p].alone = proc[p].alone
      /\ proc'[p].id = proc[p].id /\ proc'[p].dir = dir
      /\ proc'[p].hash = proc[p].hash /\ \A q \in Procs \ {p} : proc'[q] = proc[q]
  BY <1>1, <1>2 DEF Goes, ShapeOK, Fields
<1>4. ASSUME proc[p].alone, proc[p].id \in quiet, phase = "mismatch"
      PROVE  ~(Tracked(dir) \subseteq DOMAIN proc[p].hash)
  <2>1. proc[p].seen = [path \in Tracked(dir) |-> disk[<<dir, path>>]]
    BY <1>1, <1>4 DEF CallOK, HoldsOK
  <2>2. IsSnapshot(proc[p].hash) /\ HasFiles(dir, proc[p].hash, {})
    BY <1>1, <1>4 DEF QuietOK, RestoresOK
  <2>3. DOMAIN proc[p].hash \subseteq Tracked(dir)
    BY <2>2 DEF IsSnapshot, HasFiles, Tracked, There
  <2>4. ASSUME Tracked(dir) = DOMAIN proc[p].hash PROVE FALSE
    <3>1. proc[p].seen = [path \in DOMAIN proc[p].hash |-> proc[p].hash[path]]
      BY <2>1, <2>2, <2>4 DEF HasFiles
    <3>2. proc[p].seen = proc[p].hash
      BY <2>2, <3>1 DEF IsSnapshot
    <3> QED
      BY <1>2, <1>4, <3>2 DEF Verified
  <2> QED
    BY <2>3, <2>4
<1>5. RestoresOK(proc[p])' <=> (phase = "mismatch" => ~(Tracked(dir) \subseteq DOMAIN proc[p].hash))
  BY <1>1, <1>2, <1>3 DEF RestoresOK, Tracked, There
<1>6. QuietOK(p)'
  BY <1>1, <1>2, <1>3, <1>4, <1>5 DEF QuietOK, TakesOK
<1>7. ArchivesOK'
  BY <1>1, ArchivesStay DEF QInv
<1> QED
  BY <1>1, <1>3, <1>6, <1>7, QuietCall

LEMMA RestoreEndsQuiet ==
    ASSUME WInv, QInv, NEW p \in Procs, RestoreEnds(p)
    PROVE  QInv'
<1>1. proc[p].phase # "idle" /\ Ends(p) /\ UNCHANGED <<disk, quiet, taken>>
  BY DEF RestoreEnds, OnlyProc
<1>2. ArchivesOK'
  BY <1>1, ArchivesStay DEF QInv
<1> QED
  BY <1>1, <1>2, QuietEnd

\* A call that is cut off inside of a write spoils the snapshot it was taking.
LEMMA KillQuiet ==
    ASSUME WInv, QInv, NEW p \in Procs, Kill(p)
    PROVE  QInv'
<1>1. proc[p].phase # "idle" /\ Ends(p) /\ ShapeOK /\ UNCHANGED taken
  BY DEF Kill, Active, InPhase, WInv
<1>2. CASE UNCHANGED <<disk, quiet>>
  <2>1. ArchivesOK'
    BY <1>1, <1>2, ArchivesStay DEF QInv
  <2> QED
    BY <1>1, <2>1, QuietEnd
<1>3. ASSUME NEW write \in Write(p), NEW content,
             disk' = Holding(write[1], write[2], content), quiet' = quiet \ {proc[p].id}
      PROVE  QInv'
  <2>1. ASSUME NEW id \in quiet'
        PROVE  disk'[<<SnapDir, Archive(id)>>] = disk[<<SnapDir, Archive(id)>>]
    <3>1. id \in Ids /\ id # proc[p].id
      BY <1>3, <2>1 DEF QInv, ArchivesOK
    <3>2. write[2] \in {Yaml, Archive(proc[p].id), Meta(proc[p].id)}
      BY <1>3, WritesOwn
    <3>3. write[2] # Archive(id)
      BY <3>1, <3>2, ArchivePaths, PathsDiffer
    <3> QED
      BY <1>1, <1>3, <3>1, <3>3, Written, PathFacts, ArchivePaths
  <2>2. ArchivesOK'
    BY <1>1, <1>3, <2>1, ArchivesStay DEF QInv
  <2> QED
    BY <1>1, <2>2, QuietEnd
<1> QED
  BY <1>2, <1>3 DEF Kill

LEMMA StutterQuiet ==
    ASSUME WInv, QInv, UNCHANGED vars
    PROVE  QInv'
<1>1. UNCHANGED <<disk, proc, quiet, taken>>
  BY DEF vars
<1>2. ArchivesOK'
  BY <1>1, ArchivesStay DEF QInv
<1>3. \A p \in Procs : QuietOK(p)'
  BY <1>1 DEF QInv, QuietOK, TakesOK, RestoresOK, IsSnapshot, HasFiles, Tracked, There
<1> QED
  BY <1>2, <1>3 DEF QInv

\* create_snapshot and restore_snapshot: a snapshot that was taken undisturbed
\* can be restored again and again, unless the directory has tracked files of
\* its own; what is cut off or overlaps makes only its own snapshot count no
\* more.
THEOREM QuietSnapshotsRestore == Spec => []RestoreWorks
<1>1. Init => QInv
  <2> SUFFICES ASSUME Init PROVE QInv
    OBVIOUS
  <2>1. quiet = {} /\ \A p \in Procs : proc[p].phase = "idle"
    BY IdleFacts DEF Init
  <2> QED
    BY <2>1 DEF QInv, ArchivesOK, QuietOK, TakesOK, RestoresOK
<1>2. WInv /\ QInv /\ [Next]_vars => QInv'
  <2> SUFFICES ASSUME WInv, QInv, [Next]_vars PROVE QInv'
    OBVIOUS
  <2>1. CASE \E dir \in Dirs, name \in Names, content \in {Text(t) : t \in Texts} \cup {Absent} :
                AgentEdits(dir, name, content)
    BY <2>1, AgentEditsQuiet
  <2>2. ASSUME NEW p \in Procs,
               \/ \E mark \in Marks : MarkLoad(p, mark)
               \/ MarkTruncate(p)
               \/ MarkWrite(p)
               \/ \E id \in Ids : CreateBegin(p, id)
               \/ ReadNext(p)
               \/ CreateArchive(p)
               \/ CreateWrite(p)
               \/ CreateDescribe(p)
        PROVE  QInv'
    BY <2>2, MarkLoadQuiet, MarkTruncateQuiet, MarkWriteQuiet, CreateBeginQuiet, ReadNextQuiet,
       CreateArchiveQuiet, CreateWriteQuiet, CreateDescribeQuiet
  <2>3. ASSUME NEW p \in Procs,
               \/ \E id \in Ids, dir \in Dirs, force \in BOOLEAN : RestoreBegin(p, id, dir, force)
               \/ RestoreOpen(p)
               \/ RestoreExtract(p)
               \/ RestoreCheck(p)
               \/ RestoreVerify(p)
               \/ RestoreEnds(p)
               \/ Kill(p)
        PROVE  QInv'
    BY <2>3, RestoreBeginQuiet, RestoreOpenQuiet, RestoreExtractQuiet, RestoreCheckQuiet,
       RestoreVerifyQuiet, RestoreEndsQuiet, KillQuiet
  <2> QED
    BY <2>1, <2>2, <2>3, StutterQuiet DEF Next
<1>3. WInv /\ QInv => RestoreWorks
  BY DEF WInv, QInv, RestoreWorks, InPhase, CallOK, QuietOK, RestoresOK, Restoring
<1> QED
  BY <1>1, <1>2, <1>3, WorkspaceInvariant, PTL DEF Spec

=============================================================================
