----------------------------- MODULE Workspace ------------------------------
(***************************************************************************)
(* Directories that agents edit, snapshots of them (snapshot/engine.py),   *)
(* and the marks that diagnose/mark.py adds to the llmreplay.yaml in one.  *)
(* All of them work on files with no lock; a call reads and writes one     *)
(* file at a time and may be cut off in between.                           *)
(*                                                                         *)
(* The hash of files is the function from their names to their contents.   *)
(***************************************************************************)
EXTENDS Naturals

CONSTANTS
    Procs,          \* command lines
    Dirs,           \* directories
    Home,           \* the directory that agents edit and snapshots are taken of
    SnapDir,        \* where snapshots are kept: --dest
    Ids,            \* snapshot ids
    Names,          \* files of an agent
    Denied,         \* those of them on the denylist
    Texts,          \* what an agent writes into a file
    Marks,          \* fields and tools that may be marked
    NoId, NoMark,
    MaxCalls,       \* bound: how many calls are begun
    MaxEdits,       \* bound: how many edits an agent makes
    MaxKills        \* bound: how many calls are cut off

ASSUME WorkspaceAssumption ==
    /\ {Home, SnapDir} \subseteq Dirs
    /\ Denied \subseteq Names
    /\ NoId \notin Ids /\ NoMark \notin Marks
    /\ MaxCalls \in Nat /\ MaxEdits \in Nat /\ MaxKills \in Nat

Yaml == <<"yaml", "llmreplay">>
File(name) == <<"file", name>>
Archive(id) == <<"archive", id>>
Meta(id) == <<"meta", id>>
Paths == {Yaml} \cup {File(n) : n \in Names} \cup {Archive(id) : id \in Ids} \cup {Meta(id) : id \in Ids}

Absent == <<"absent", 0>>
Broken == <<"broken", 0>>       \* cut off: no archive, no JSON, no YAML
Text(text) == <<"text", text>>
Config(marks) == <<"config", marks>>
Files(map) == <<"files", map>>  \* of an archive, and of the hash in its JSON

VARIABLES
    disk,           \* the content of each path of each directory
    proc,           \* of each process: what it is doing
    marked,         \* history: the marks that can be counted on
    quiet,          \* history: ids whose last snapshot nothing disturbed
    taken,          \* history: of each id, the files its description was taken of
    calls, edits, kills

vars == <<disk, proc, marked, quiet, taken, calls, edits, kills>>

Idle == [phase |-> "idle", alone |-> TRUE, id |-> NoId, dir |-> Home, mark |-> NoMark,
         marks |-> {}, todo |-> {}, seen |-> << >>, hash |-> << >>,
         goal |-> << >>]        \* history: what taken said when a restore began

-----------------------------------------------------------------------------
(* The file system *)

There(dir) == {path \in Paths : disk[<<dir, path>>] # Absent}
Holding(dir, path, content) == [disk EXCEPT ![<<dir, path>>] = content]

\* iter_tracked_files: what is there and not on the denylist.
Tracked(dir) == There(dir) \ {File(n) : n \in Denied}

Content(dir) == [path \in Tracked(dir) |-> disk[<<dir, path>>]]

\* The marks in a llmreplay.yaml; an empty or missing one has none.
MarksIn(content) == IF content = Absent THEN {} ELSE content[2]

\* What a file may hold when it is read back after a write was cut off: of a
\* llmreplay.yaml the first part, which may be valid YAML.
CutOff(content) ==
    {Broken} \cup (IF content[1] = "config" THEN {Config(some) : some \in SUBSET content[2]} ELSE {})

-----------------------------------------------------------------------------

Init ==
    /\ disk = [x \in Dirs \X Paths |->
                  IF x[1] = Home /\ x[2][1] = "file" THEN Text("first") ELSE Absent]
    /\ proc = [p \in Procs |-> Idle]
    /\ marked = {}
    /\ quiet = {}
    /\ taken = [id \in Ids |-> << >>]
    /\ calls = 0 /\ edits = 0 /\ kills = 0

InPhase(p, phase) == proc[p].phase = phase
Active == {p \in Procs : ~InPhase(p, "idle")}
Goes(p, phase) == proc' = [proc EXCEPT ![p].phase = phase]
Ends(p) == proc' = [proc EXCEPT ![p] = Idle]
OnlyProc == UNCHANGED <<disk, marked, quiet, taken, calls, edits, kills>>

\* A call begins, and is no more alone than those it finds.
Begins(p, call) ==
    /\ InPhase(p, "idle")
    /\ calls < MaxCalls
    /\ calls' = calls + 1
    /\ proc' = [q \in Procs |->
                  IF q = p THEN [call EXCEPT !.alone = Active = {}]
                  ELSE IF q \in Active THEN [proc[q] EXCEPT !.alone = FALSE]
                  ELSE proc[q]]

\* An agent writes or removes a file.
AgentEdits(dir, name, content) ==
    /\ edits < MaxEdits
    /\ edits' = edits + 1
    /\ disk[<<dir, File(name)>>] # content
    /\ disk' = Holding(dir, File(name), content)
    /\ proc' = [p \in Procs |-> IF p \in Active THEN [proc[p] EXCEPT !.alone = FALSE] ELSE proc[p]]
    /\ UNCHANGED <<marked, quiet, taken, calls, kills>>

-----------------------------------------------------------------------------
(* mark-ignore and mark-live *)

\* (mutant) The new mark replaces the others.
MarkedOnly(marks, mark) == {mark}

\* A mark is added to those that were loaded, once.
Marked(marks, mark) == marks \cup {mark}

\* load_llmreplay_yaml; one that cannot be parsed raises.
MarkLoad(p, mark) ==
    /\ disk[<<Home, Yaml>>] # Broken
    /\ Begins(p, [Idle EXCEPT !.phase = "marking", !.mark = mark,
                              !.marks = MarksIn(disk[<<Home, Yaml>>])])
    /\ UNCHANGED <<disk, marked, quiet, taken, edits, kills>>

\* _dump_yaml: write_text empties the file,
MarkTruncate(p) ==
    /\ InPhase(p, "marking")
    /\ disk' = Holding(Home, Yaml, Config({}))
    /\ Goes(p, "dumping")
    /\ UNCHANGED <<marked, quiet, taken, calls, edits, kills>>

\* and fills it.
MarkWrite(p) ==
    /\ InPhase(p, "dumping")
    /\ disk' = Holding(Home, Yaml, Config(Marked(proc[p].marks, proc[p].mark)))
    /\ marked' = IF proc[p].alone THEN marked \cup {proc[p].mark} ELSE {}
    /\ Ends(p)
    /\ UNCHANGED <<quiet, taken, calls, edits, kills>>

-----------------------------------------------------------------------------
(* create_snapshot and restore_snapshot *)

\* The tracked files are listed, to be read for their hash.
CreateBegin(p, id) ==
    /\ Begins(p, [Idle EXCEPT !.phase = "hashing", !.id = id, !.todo = Tracked(Home)])
    /\ UNCHANGED <<disk, marked, quiet, taken, edits, kills>>

\* A map with one more file.
With(map, path, content) ==
    [x \in DOMAIN map \cup {path} |-> IF x = path THEN content ELSE map[x]]

\* The next file of the list is read, for a hash or for the archive; one that
\* is gone raises.
ReadNext(p) ==
    LET path == CHOOSE path \in proc[p].todo : TRUE
        content == disk[<<proc[p].dir, path>>]
    IN  /\ proc[p].phase \in {"hashing", "archiving", "checking"}
        /\ proc[p].todo # {}
        /\ IF content = Absent THEN Ends(p)
           ELSE proc' = [proc EXCEPT ![p].todo = @ \ {path},
                                     ![p].seen = With(@, path, content)]
        /\ OnlyProc

\* The files that were hashed are read again for the archive.
CreateArchive(p) ==
    /\ InPhase(p, "hashing") /\ proc[p].todo = {}
    /\ proc' = [proc EXCEPT ![p].phase = "archiving", ![p].todo = DOMAIN proc[p].seen,
                            ![p].hash = proc[p].seen, ![p].seen = << >>]
    /\ OnlyProc

CreateWrite(p) ==
    /\ InPhase(p, "archiving") /\ proc[p].todo = {}
    /\ disk' = Holding(SnapDir, Archive(proc[p].id), Files(proc[p].seen))
    /\ quiet' = quiet \ {proc[p].id}
    /\ Goes(p, "describing")
    /\ UNCHANGED <<marked, taken, calls, edits, kills>>

CreateDescribe(p) ==
    LET id == proc[p].id IN
    /\ InPhase(p, "describing")
    /\ disk' = Holding(SnapDir, Meta(id), Files(proc[p].hash))
    /\ quiet' = IF proc[p].alone THEN quiet \cup {id} ELSE quiet \ {id}
    /\ taken' = [taken EXCEPT ![id] = proc[p].hash]
    /\ Ends(p)
    /\ UNCHANGED <<marked, calls, edits, kills>>

\* The description is read and the directory looked at: without force it must
\* hold no file at all.  Otherwise the call raises and nothing happens.
RestoreBegin(p, id, dir, force) ==
    /\ disk[<<SnapDir, Meta(id)>>] \notin {Absent, Broken}
    /\ disk[<<SnapDir, Archive(id)>>] # Absent
    /\ force \/ There(dir) = {}
    /\ Begins(p, [Idle EXCEPT !.phase = "opening", !.id = id, !.dir = dir,
                              !.hash = disk[<<SnapDir, Meta(id)>>][2], !.goal = taken[id]])
    /\ UNCHANGED <<disk, marked, quiet, taken, edits, kills>>

\* The archive is read into memory; a broken one raises.
RestoreOpen(p) ==
    LET archive == disk[<<SnapDir, Archive(proc[p].id)>>] IN
    /\ InPhase(p, "opening")
    /\ IF archive = Broken THEN Ends(p)
       ELSE proc' = [proc EXCEPT ![p].phase = "extracting", ![p].seen = archive[2],
                                 ![p].todo = DOMAIN archive[2]]
    /\ OnlyProc

\* One of its files is written over what the directory holds; it may be the
\* archive or the description of a snapshot.
RestoreExtract(p) ==
    LET path == CHOOSE path \in proc[p].todo : TRUE
        dir == proc[p].dir
    IN  /\ InPhase(p, "extracting")
        /\ proc[p].todo # {}
        /\ disk' = Holding(dir, path, proc[p].seen[path])
        /\ proc' = [proc EXCEPT ![p].todo = @ \ {path}]
        /\ marked' = IF dir = Home /\ path = Yaml THEN {} ELSE marked
        /\ quiet' = IF dir = SnapDir THEN {id \in quiet : path \notin {Archive(id), Meta(id)}}
                    ELSE quiet
        /\ taken' = [id \in Ids |-> IF dir = SnapDir /\ path = Meta(id)
                                    THEN proc[p].seen[path][2] ELSE taken[id]]
        /\ UNCHANGED <<calls, edits, kills>>

\* (mutant) The denylist of the description is not looked at.
CheckedAll(dir) == There(dir)

\* The files that the hash of a restored directory covers.
Checked(dir) == Tracked(dir)

\* Every tracked file of the directory is read for its hash.
RestoreCheck(p) ==
    /\ InPhase(p, "extracting") /\ proc[p].todo = {}
    /\ proc' = [proc EXCEPT ![p].phase = "checking", ![p].seen = << >>,
                            ![p].todo = Checked(proc[p].dir)]
    /\ OnlyProc

\* (mutant) The hash is not compared.
Unverified(p) == TRUE

\* The hash is the one of the description.
Verified(p) == proc[p].seen = proc[p].hash

\* The call is about to return, or to raise a mismatch.
RestoreVerify(p) ==
    /\ InPhase(p, "checking") /\ proc[p].todo = {}
    /\ Goes(p, IF Verified(p) THEN "restored" ELSE "mismatch")
    /\ OnlyProc

RestoreEnds(p) ==
    /\ proc[p].phase \in {"restored", "mismatch"}
    /\ Ends(p)
    /\ OnlyProc

-----------------------------------------------------------------------------

\* The file that a call is inside of writing, and with what.
Write(p) ==
    LET id == proc[p].id IN
    CASE InPhase(p, "dumping") ->
            {<<Home, Yaml, Config(Marked(proc[p].marks, proc[p].mark))>>}
      [] InPhase(p, "archiving") /\ proc[p].todo = {} ->
            {<<SnapDir, Archive(id), Files(proc[p].seen)>>}
      [] InPhase(p, "describing") -> {<<SnapDir, Meta(id), Files(proc[p].hash)>>}
      [] OTHER -> {}

\* A call is cut off, between two writes or inside of one.
Kill(p) ==
    /\ p \in Active
    /\ kills < MaxKills
    /\ kills' = kills + 1
    /\ Ends(p)
    /\ marked' = IF InPhase(p, "dumping") THEN {} ELSE marked
    /\ \/ UNCHANGED <<disk, quiet>>
       \/ \E write \in Write(p) : \E content \in CutOff(write[3]) :
             /\ disk' = Holding(write[1], write[2], content)
             /\ quiet' = quiet \ {proc[p].id}
    /\ UNCHANGED <<taken, calls, edits>>

Next ==
    \/ \E dir \in Dirs, name \in Names, content \in {Text(t) : t \in Texts} \cup {Absent} :
          AgentEdits(dir, name, content)
    \/ \E p \in Procs :
          \/ \E mark \in Marks : MarkLoad(p, mark)
          \/ MarkTruncate(p)
          \/ MarkWrite(p)
          \/ \E id \in Ids : CreateBegin(p, id)
          \/ ReadNext(p)
          \/ CreateArchive(p)
          \/ CreateWrite(p)
          \/ CreateDescribe(p)
          \/ \E id \in Ids, dir \in Dirs, force \in BOOLEAN : RestoreBegin(p, id, dir, force)
          \/ RestoreOpen(p)
          \/ RestoreExtract(p)
          \/ RestoreCheck(p)
          \/ RestoreVerify(p)
          \/ RestoreEnds(p)
          \/ Kill(p)

Spec == Init /\ [][Next]_vars

-----------------------------------------------------------------------------
(* Properties *)

\* A mark that was made stays in llmreplay.yaml, whatever was marked since,
\* until a restore brings back another llmreplay.yaml, a mark is cut off while
\* it writes, or a mark overlaps with another call.
MarksKept ==
    (\A p \in Procs : proc[p].phase # "dumping") => marked \subseteq MarksIn(disk[<<Home, Yaml>>])

\* A restore that returns, and that nobody disturbed, leaves in the directory
\* the files that the last complete snapshot with the id was taken of (or the
\* one whose description a restore brought back since), with the contents they
\* had then: also when calls that made the snapshot overlapped with edits and
\* with each other, or were cut off.
RestoreIsExact ==
    \A p \in Procs : InPhase(p, "restored") /\ proc[p].alone => Content(proc[p].dir) = proc[p].goal

\* A snapshot that was taken undisturbed can be restored again and again, into
\* any directory that has no tracked files but those of the snapshot, by force
\* if it has any.
RestoreWorks ==
    \A p \in Procs : InPhase(p, "mismatch") /\ proc[p].alone =>
        \/ proc[p].id \notin quiet
        \/ ~(Tracked(proc[p].dir) \subseteq DOMAIN proc[p].goal)

\* (stated by docs/concepts/snapshots.md) A restore by force of a snapshot that
\* was taken undisturbed into the very directory it was taken of, where no
\* file was added since but by snapshots, does not fail.
ForcedRestoreWorks ==
    \A p \in Procs : InPhase(p, "mismatch") /\ proc[p].alone /\ proc[p].dir = Home
                     /\ proc[p].id \in quiet =>
        \E n \in Names : File(n) \in Tracked(Home) \ DOMAIN taken[proc[p].id]

=============================================================================
