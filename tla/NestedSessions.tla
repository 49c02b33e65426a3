--------------------------- MODULE NestedSessions ---------------------------
(***************************************************************************)
(* Nested sessions, session/nested.py: the cassette of a parent session    *)
(* holds in its extensions the digests of the cassette.json of its         *)
(* children.  link_child_cassette loads cassettes with no lock and writes  *)
(* both, with the lock taken for each write alone, while recording         *)
(* processes append to them.  A write is two renames, and between them     *)
(* there is no cassette.json: a load then finds an empty manifest or       *)
(* raises, and a digest raises.                                            *)
(*                                                                         *)
(* A cassette.json is its cassette_id, its number of transactions and its  *)
(* session; SHA-256 is injective, so a digest is the file it was taken of. *)
(***************************************************************************)
EXTENDS Integers, Sequences, FiniteSets

CONSTANTS
    Cassettes,      \* cassette directories; the name is the cassette_id
    Procs,          \* processes that link
    NoParent,       \* the parent of a session that is nobody's child
    MaxTxs,         \* bound: transactions appended to all cassettes
    MaxLinks,       \* bound: how many links are started
    MaxKills        \* bound: how many processes are killed

ASSUME NestedAssumption ==
    /\ NoParent \notin Cassettes
    /\ MaxTxs \in Nat /\ MaxLinks \in Nat /\ MaxKills \in Nat

VARIABLES
    file,           \* cassette.json of each cassette
    draft,          \* of each cassette: what the holder of its lock, who is
                    \* between the two renames, installs
    proc,           \* of each process: its link
    raced,          \* history: a link began while another was under way
    linked,         \* history: parents that some link returned for
    adopted,        \* history: children that some link began for
    cut,            \* history: cassettes whose writer died between the renames
    txs, links, kills \* how many appends, links and kills there were

vars == <<file, draft, proc, raced, linked, adopted, cut, txs, links, kills>>

Manifest(id, n, session) == [id |-> id, txs |-> n, session |-> session]
Session(id, parent, depth, children) ==
    [id |-> id, parent |-> parent, depth |-> depth, children |-> children]

\* No session in the extensions; no cassette.json, no manifest to be installed.
NoSession == [none |-> TRUE]
NoFile == [absent |-> TRUE]

LinkAt(phase, parent, child, meta, kid, copy) ==
    [phase |-> phase, parent |-> parent, child |-> child,
     meta |-> meta, kid |-> kid, copy |-> copy]

Idle == LinkAt("idle", NoParent, NoParent, NoSession, NoSession, NoFile)

Values(s) == {s[i] : i \in DOMAIN s}

-----------------------------------------------------------------------------

\* The manifest load_manifest makes up when there is no file; its id is new.
Empty(who, phase) == Manifest(<<who, links, txs, phase>>, 0, NoSession)

\* load_manifest.
Loaded(c, who, phase) == IF file[c] = NoFile THEN Empty(who, phase) ELSE file[c]

\* What link_child_cassette takes the parent's session to be.
ParentSession(m) ==
    IF m.session = NoSession THEN Session(m.id, NoParent, 0, << >>) ELSE m.session

\* The session written to the child: it starts with no children.
ChildSession(m, meta) == Session(m.id, meta.id, meta.depth + 1, << >>)

\* (mutant) The new digest is computed and not kept.
NotRegistered(children, digest) == children

\* A digest is registered once.
Registered(children, digest) ==
    IF digest \in Values(children) THEN children ELSE Append(children, digest)

\* What write_nested_meta writes: the loaded manifest with another session.
WithSession(copy, meta) == [copy EXCEPT !.session = meta]

Init ==
    /\ file = [c \in Cassettes |-> Manifest(c, 0, NoSession)]
    /\ draft = [c \in Cassettes |-> NoFile]
    /\ proc = [p \in Procs |-> Idle]
    /\ raced = FALSE
    /\ linked = {} /\ adopted = {} /\ cut = {}
    /\ txs = 0 /\ links = 0 /\ kills = 0

\* write_manifest, from its lock to the first rename, and the second rename.
Retires(c, m) ==
    /\ draft[c] = NoFile
    /\ draft' = [draft EXCEPT ![c] = m]
    /\ file' = [file EXCEPT ![c] = NoFile]

Installs(c) ==
    /\ file' = [file EXCEPT ![c] = draft[c]]
    /\ draft' = [draft EXCEPT ![c] = NoFile]

\* The link of p goes on.
Moves(p, phase, meta, kid, copy) ==
    proc' = [proc EXCEPT ![p] =
               LinkAt(phase, proc[p].parent, proc[p].child, meta, kid, copy)]

\* A link between the renames of its write to c.
Installing(p, c) ==
    \/ proc[p].phase = "installChild" /\ proc[p].child = c
    \/ proc[p].phase = "installParent" /\ proc[p].parent = c

\* A recording process appends: all under the lock, its load included.
AppendRetire(c) ==
    LET m == Loaded(c, "recorder", "append") IN
    /\ txs < MaxTxs
    /\ txs' = txs + 1
    /\ Retires(c, [m EXCEPT !.txs = @ + 1])
    /\ UNCHANGED <<proc, raced, linked, adopted, cut, links, kills>>

Recording(c) == draft[c] # NoFile /\ ~\E p \in Procs : Installing(p, c)

AppendInstall(c) ==
    /\ Recording(c)
    /\ Installs(c)
    /\ UNCHANGED <<proc, raced, linked, adopted, cut, txs, links, kills>>

\* link_child_cassette loads the parent.
LinkBegin(p, parent, child) ==
    /\ proc[p] = Idle
    /\ parent # child
    /\ links < MaxLinks
    /\ links' = links + 1
    /\ proc' = [proc EXCEPT ![p] =
                  LinkAt("childId", parent, child,
                         ParentSession(Loaded(parent, p, "parent")), NoSession, NoFile)]
    /\ raced' = (raced \/ \E q \in Procs \ {p} : proc[q] # Idle)
    /\ adopted' = adopted \cup {child}
    /\ UNCHANGED <<file, draft, linked, cut, txs, kills>>

\* It loads the child for its cassette_id,
LoadChildId(p) ==
    LET l == proc[p] IN
    /\ l.phase = "childId"
    /\ Moves(p, "loadChild", l.meta,
             ChildSession(Loaded(l.child, p, "childId"), l.meta), NoFile)
    /\ UNCHANGED <<file, draft, raced, linked, adopted, cut, txs, links, kills>>

\* and write_nested_meta of the child loads it again
LoadChild(p) ==
    LET l == proc[p] IN
    /\ l.phase = "loadChild"
    /\ Moves(p, "writeChild", l.meta, l.kid, Loaded(l.child, p, "loadChild"))
    /\ UNCHANGED <<file, draft, raced, linked, adopted, cut, txs, links, kills>>

\* and writes it back with its new session.
RetireChild(p) ==
    LET l == proc[p] IN
    /\ l.phase = "writeChild"
    /\ Retires(l.child, WithSession(l.copy, l.kid))
    /\ Moves(p, "installChild", l.meta, l.kid, NoFile)
    /\ UNCHANGED <<raced, linked, adopted, cut, txs, links, kills>>

InstallChild(p) ==
    LET l == proc[p] IN
    /\ l.phase = "installChild"
    /\ Installs(l.child)
    /\ Moves(p, "digest", l.meta, l.kid, NoFile)
    /\ UNCHANGED <<raced, linked, adopted, cut, txs, links, kills>>

\* (mutant) The digest is of the child before it got its session.
DigestBefore(p) == WithSession(file[proc[p].child], NoSession)

\* _manifest_digest of the child, which has its session by now.
DigestOf(p) == file[proc[p].child]

\* The digest of the child's file is registered in the loaded session.
TakeDigest(p) ==
    LET l == proc[p] IN
    /\ l.phase = "digest"
    /\ file[l.child] # NoFile
    /\ Moves(p, "loadParent",
             [l.meta EXCEPT !.children = Registered(@, DigestOf(p))], NoSession, NoFile)
    /\ UNCHANGED <<file, draft, raced, linked, adopted, cut, txs, links, kills>>

\* write_nested_meta of the parent.
LoadParent(p) ==
    LET l == proc[p] IN
    /\ l.phase = "loadParent"
    /\ Moves(p, "writeParent", l.meta, NoSession, Loaded(l.parent, p, "loadParent"))
    /\ UNCHANGED <<file, draft, raced, linked, adopted, cut, txs, links, kills>>

RetireParent(p) ==
    LET l == proc[p] IN
    /\ l.phase = "writeParent"
    /\ Retires(l.parent, WithSession(l.copy, l.meta))
    /\ Moves(p, "installParent", l.meta, NoSession, NoFile)
    /\ UNCHANGED <<raced, linked, adopted, cut, txs, links, kills>>

InstallParent(p) ==
    /\ proc[p].phase = "installParent"
    /\ Installs(proc[p].parent)
    /\ linked' = linked \cup {proc[p].parent}
    /\ proc' = [proc EXCEPT ![p] = Idle]
    /\ UNCHANGED <<raced, adopted, cut, txs, links, kills>>

\* A read that finds no file raises: a digest always does, a load does if the
\* file goes between its is_file and its read_text.
Raises(p) ==
    LET l == proc[p] IN
    /\ \/ l.phase \in {"childId", "loadChild", "digest"} /\ file[l.child] = NoFile
       \/ l.phase = "loadParent" /\ file[l.parent] = NoFile
    /\ proc' = [proc EXCEPT ![p] = Idle]
    /\ UNCHANGED <<file, draft, raced, linked, adopted, cut, txs, links, kills>>

Link(p) ==
    \/ LoadChildId(p) \/ LoadChild(p) \/ RetireChild(p) \/ InstallChild(p)
    \/ TakeDigest(p) \/ LoadParent(p) \/ RetireParent(p) \/ InstallParent(p)
    \/ Raises(p)

\* A process is killed, and its locks are free.  Between the renames it leaves
\* a cassette with no cassette.json.
KillLink(p) ==
    LET left == {c \in Cassettes : Installing(p, c)} IN
    /\ kills < MaxKills /\ kills' = kills + 1
    /\ proc[p] # Idle
    /\ proc' = [proc EXCEPT ![p] = Idle]
    /\ draft' = [c \in Cassettes |-> IF c \in left THEN NoFile ELSE draft[c]]
    /\ cut' = cut \cup left
    /\ UNCHANGED <<file, raced, linked, adopted, txs, links>>

KillAppend(c) ==
    /\ kills < MaxKills /\ kills' = kills + 1
    /\ Recording(c)
    /\ draft' = [draft EXCEPT ![c] = NoFile]
    /\ cut' = cut \cup {c}
    /\ UNCHANGED <<file, proc, raced, linked, adopted, txs, links>>

Next ==
    \/ \E c \in Cassettes : AppendRetire(c) \/ AppendInstall(c) \/ KillAppend(c)
    \/ \E p \in Procs :
          \/ \E parent, child \in Cassettes : LinkBegin(p, parent, child)
          \/ Link(p) \/ KillLink(p)

Spec == Init /\ [][Next]_vars

-----------------------------------------------------------------------------
(* Properties *)

\* As long as links do not overlap and no writer died between its renames, a
\* digest a session holds was taken of a manifest that names the session as
\* its parent, one level down: in whatever order cassettes are linked, linked
\* again and appended to, also when a load of a link finds no file between the
\* renames of an append.
DigestsNameParent ==
    ~raced /\ cut = {} =>
        \A c \in Cassettes :
            file[c] # NoFile /\ file[c].session # NoSession =>
                LET session == file[c].session
                IN  \A digest \in Values(session.children) :
                        /\ digest.session # NoSession
                        /\ digest.session.parent = session.id
                        /\ digest.session.depth = session.depth + 1

\* A parent that some link returned for, and that no link began for as a
\* child, has digests whenever it has its cassette.json, unless a writer of it
\* died between the renames: only in the moment between the renames of a write
\* does verify_children find nothing wrong for want of digests, however links
\* and appends race, raise and die elsewhere.
VerifyNotVacuous ==
    \A parent \in (linked \ adopted) \ cut :
        file[parent] # NoFile =>
            /\ file[parent].session # NoSession
            /\ file[parent].session.children # << >>

=============================================================================
