------------------------- MODULE NestedSessions_proof -------------------------
(***************************************************************************)
(* Proofs about NestedSessions: while links do not overlap a digest a      *)
(* session holds names it as its parent, and a parent that was linked has  *)
(* digests whenever its cassette.json is there; for any number of          *)
(* cassettes, processes, links, appends and kills.                         *)
(***************************************************************************)
EXTENDS NestedSessions, SequenceTheorems, TLAPS

\* A sequence of something.
IsSequence(s) == s \in Seq(Values(s))

IsSession(s) ==
    /\ s = Session(s.id, s.parent, s.depth, s.children)
    /\ IsSequence(s.children)

IsManifest(m) ==
    /\ m = Manifest(m.id, m.txs, m.session)
    /\ m.session = NoSession \/ IsSession(m.session)

IsFile(m) == m = NoFile \/ IsManifest(m)

IsLink(r) ==
    \/ r = Idle
    \/ /\ r.phase \in {"childId", "loadChild", "writeChild", "installChild", "digest",
                       "loadParent", "writeParent", "installParent"}
       /\ r.parent \in Cassettes /\ r.child \in Cassettes /\ IsSession(r.meta)
       /\ r.phase \in {"loadChild", "writeChild", "installChild", "digest"} => IsSession(r.kid)
       /\ r.phase \in {"writeChild", "writeParent"} => IsManifest(r.copy)
       /\ r.phase \in {"loadParent", "writeParent"} => r.meta.children # << >>

FilesTyped ==
    /\ file = [c \in Cassettes |-> file[c]] /\ \A c \in Cassettes : IsFile(file[c])
    /\ draft = [c \in Cassettes |-> draft[c]] /\ \A c \in Cassettes : IsFile(draft[c])

\* The files and the links under way have their form, and the digest that was
\* taken is in the session that is to be written.
NestedTyped ==
    /\ FilesTyped
    /\ proc = [p \in Procs |-> proc[p]] /\ \A p \in Procs : IsLink(proc[p])
    /\ linked \subseteq Cassettes
    /\ \A p \in Procs : proc[p].phase # "idle" => proc[p].child \in adopted

-----------------------------------------------------------------------------

\* A session is not the absence of one.
LEMMA SessionIsThere ==
    ASSUME NEW s, IsSession(s)
    PROVE  s # NoSession
<1>1. "id" \in DOMAIN s /\ DOMAIN NoSession = {"none"}
  BY DEF IsSession, Session, NoSession
<1> QED
  BY <1>1

LEMMA NewSessions ==
    /\ ~IsSession(NoSession)
    /\ \A id, parent, depth : IsSession(Session(id, parent, depth, << >>))
<1>1. << >> \in Seq(Values(<< >>))
  OBVIOUS
<1> QED
  BY <1>1, SessionIsThere DEF IsSession, Session, IsSequence

\* Registering a digest leaves a sequence of the old digests and the new one.
LEMMA RegisteredDigests ==
    ASSUME NEW s, IsSequence(s), NEW d
    PROVE  /\ IsSequence(Registered(s, d)) /\ Registered(s, d) # << >>
           /\ Values(Registered(s, d)) = Values(s) \cup {d}
<1>1. CASE d \in Values(s)
  BY <1>1 DEF Registered, Values
<1>2. CASE d \notin Values(s)
  <2> DEFINE t == Append(s, d)
  <2>1. s \in Seq(Values(s) \cup {d})
    BY DEF IsSequence
  <2>2. /\ t \in Seq(Values(s) \cup {d}) /\ t # << >> /\ Len(t) = Len(s) + 1
        /\ \A i \in 1 .. Len(s) : t[i] = s[i]
        /\ t[Len(s) + 1] = d
    BY <2>1, AppendProperties
  <2> HIDE DEF t
  <2>3. /\ Len(s) \in Nat /\ DOMAIN s = 1 .. Len(s) /\ DOMAIN t = 1 .. (Len(s) + 1)
    BY <2>1, <2>2
  <2>4. Values(t) = Values(s) \cup {d}
    <3>1. \A x \in Values(t) : x \in Values(s) \cup {d}
      BY <2>2, <2>3 DEF Values
    <3>2. \A x \in Values(s) : x \in Values(t)
      BY <2>2, <2>3 DEF Values
    <3>3. d \in Values(t)
      <4>1. Len(s) + 1 \in DOMAIN t
        BY <2>3
      <4> QED
        BY <2>2, <4>1 DEF Values
    <3> QED
      BY <3>1, <3>2, <3>3
  <2>5. IsSequence(t)
    BY <2>2, <2>4 DEF IsSequence
  <2> QED
    BY <1>2, <2>2, <2>4, <2>5 DEF Registered, t
<1> QED
  BY <1>1, <1>2

\* A manifest is not the absence of one, and its session can be replaced.
LEMMA ManifestIsThere ==
    ASSUME NEW m, IsManifest(m)
    PROVE  m # NoFile
<1>1. "id" \in DOMAIN m /\ DOMAIN NoFile = {"absent"}
  BY DEF IsManifest, Manifest, NoFile
<1> QED
  BY <1>1

LEMMA WithSessionForm ==
    ASSUME NEW m, IsManifest(m), NEW s, IsSession(s)
    PROVE  IsManifest(WithSession(m, s)) /\ WithSession(m, s).session = s
BY DEF IsManifest, Manifest, WithSession

\* One more transaction leaves the session.
LEMMA OneMoreForm ==
    ASSUME NEW m, IsManifest(m)
    PROVE  IsManifest([m EXCEPT !.txs = @ + 1]) /\ [m EXCEPT !.txs = @ + 1].session = m.session
BY DEF IsManifest, Manifest

\* A load gives a manifest: that of the file, or one with no session.
LEMMA LoadedForm ==
    ASSUME NestedTyped, NEW c \in Cassettes, NEW who, NEW phase
    PROVE  /\ IsManifest(Loaded(c, who, phase))
           /\ file[c] # NoFile => Loaded(c, who, phase) = file[c]
           /\ file[c] = NoFile => Loaded(c, who, phase).session = NoSession
BY DEF NestedTyped, FilesTyped, IsFile, Loaded, Empty, IsManifest, Manifest

\* What link_child_cassette starts from, and what it gives the child.
LEMMA LinkSessions ==
    ASSUME NEW m, IsManifest(m), NEW s
    PROVE  IsSession(ParentSession(m)) /\ IsSession(ChildSession(m, s))
BY NewSessions DEF IsManifest, ParentSession, ChildSession

\* The session of a link with one more digest.
LEMMA OneMoreDigest ==
    ASSUME NEW s, IsSession(s), NEW d
    PROVE  LET t == [s EXCEPT !.children = Registered(@, d)]
           IN  /\ t = Session(s.id, s.parent, s.depth, Registered(s.children, d))
               /\ IsSession(t) /\ t.children # << >>
<1> DEFINE new == Registered(s.children, d)
<1>1. IsSequence(new) /\ new # << >>
  BY RegisteredDigests DEF IsSession
<1>2. [s EXCEPT !.children = Registered(@, d)] = Session(s.id, s.parent, s.depth, new)
  BY DEF IsSession, Session
<1>3. IsSession(Session(s.id, s.parent, s.depth, new))
  BY <1>1 DEF IsSession, Session
<1> QED
  BY <1>1, <1>2, <1>3 DEF Session

\* What the two halves of a write do to the files.
LEMMA Writes ==
    ASSUME FilesTyped, NEW c \in Cassettes
    PROVE  /\ \A m : IsManifest(m) /\ Retires(c, m) =>
                 /\ FilesTyped'
                 /\ draft[c] = NoFile /\ draft'[c] = m /\ file'[c] = NoFile
                 /\ \A b \in Cassettes \ {c} : draft'[b] = draft[b] /\ file'[b] = file[b]
           /\ Installs(c) =>
                 /\ FilesTyped'
                 /\ draft'[c] = NoFile /\ file'[c] = draft[c]
                 /\ \A b \in Cassettes \ {c} : draft'[b] = draft[b] /\ file'[b] = file[b]
<1>1. ASSUME NEW m, IsManifest(m), Retires(c, m)
      PROVE  /\ FilesTyped'
             /\ draft[c] = NoFile /\ draft'[c] = m /\ file'[c] = NoFile
             /\ \A b \in Cassettes \ {c} : draft'[b] = draft[b] /\ file'[b] = file[b]
  <2>1. /\ draft[c] = NoFile /\ draft'[c] = m /\ file'[c] = NoFile
        /\ \A b \in Cassettes \ {c} : draft'[b] = draft[b] /\ file'[b] = file[b]
    BY <1>1 DEF FilesTyped, Retires
  <2>2. /\ file' = [b \in Cassettes |-> file'[b]] /\ draft' = [b \in Cassettes |-> draft'[b]]
    BY <1>1 DEF FilesTyped, Retires
  <2>3. \A b \in Cassettes : IsFile(file'[b]) /\ IsFile(draft'[b])
    BY <1>1, <2>1 DEF FilesTyped, IsFile
  <2> QED
    BY <2>1, <2>2, <2>3 DEF FilesTyped, IsFile, IsManifest
<1>2. ASSUME Installs(c)
      PROVE  /\ FilesTyped'
             /\ draft'[c] = NoFile /\ file'[c] = draft[c]
             /\ \A b \in Cassettes \ {c} : draft'[b] = draft[b] /\ file'[b] = file[b]
  <2>1. /\ draft'[c] = NoFile /\ file'[c] = draft[c]
        /\ \A b \in Cassettes \ {c} : draft'[b] = draft[b] /\ file'[b] = file[b]
    BY <1>2 DEF FilesTyped, Installs
  <2>2. /\ file' = [b \in Cassettes |-> file'[b]] /\ draft' = [b \in Cassettes |-> draft'[b]]
    BY <1>2 DEF FilesTyped, Installs
  <2>3. \A b \in Cassettes : IsFile(file'[b]) /\ IsFile(draft'[b])
    BY <2>1 DEF FilesTyped, IsFile
  <2> QED
    BY <2>1, <2>2, <2>3 DEF FilesTyped, IsFile, IsManifest
<1> QED
  BY <1>1, <1>2

-----------------------------------------------------------------------------
(* Types *)

LEMMA InitNested == Init => NestedTyped
BY DEF Init, NestedTyped, FilesTyped, IsFile, IsManifest, Manifest, IsLink, Idle, LinkAt

\* A link of p under way, and what it has by then.
LEMMA LinkUnderWay ==
    ASSUME NestedTyped, NEW p \in Procs, Link(p)
    PROVE  /\ proc[p] # Idle /\ proc[p].phase # "idle"
           /\ proc[p].parent \in Cassettes /\ proc[p].child \in Cassettes
           /\ proc[p].child \in adopted
           /\ IsSession(proc[p].meta)
           /\ proc[p].phase \in {"loadChild", "writeChild", "installChild", "digest"} =>
                 IsSession(proc[p].kid)
           /\ proc[p].phase \in {"writeChild", "writeParent"} => IsManifest(proc[p].copy)
           /\ proc[p].phase \in {"loadParent", "writeParent"} => proc[p].meta.children # << >>
<1>1. proc[p].phase # "idle"
  BY DEF Link, LoadChildId, LoadChild, RetireChild, InstallChild, TakeDigest, LoadParent,
         RetireParent, InstallParent, Raises
<1>2. proc[p] # Idle
  BY <1>1 DEF Idle, LinkAt
<1> QED
  BY <1>1, <1>2 DEF NestedTyped, IsLink

\* The link of one process changes.
LEMMA LinkChanges ==
    ASSUME NestedTyped, NEW p \in Procs, NEW r, IsLink(r),
           proc' = [proc EXCEPT ![p] = r], FilesTyped',
           r = Idle \/ r.child \in adopted',
           adopted \subseteq adopted', linked' \subseteq Cassettes
    PROVE  NestedTyped'
<1>1. /\ proc' = [q \in Procs |-> proc'[q]] /\ proc'[p] = r
      /\ \A q \in Procs \ {p} : proc'[q] = proc[q]
  BY DEF NestedTyped
<1>2. \A q \in Procs : IsLink(proc'[q])
  BY <1>1 DEF NestedTyped
<1>3. \A q \in Procs : proc'[q].phase # "idle" => proc'[q].child \in adopted'
  BY <1>1 DEF NestedTyped, Idle, LinkAt
<1> QED
  BY <1>1, <1>2, <1>3 DEF NestedTyped, IsLink

LEMMA LinkTyped ==
    ASSUME NestedTyped, NEW p \in Procs, Link(p)
    PROVE  NestedTyped'
<1> DEFINE l == proc[p]
<1>0. /\ l.parent \in Cassettes /\ l.child \in Cassettes /\ l.child \in adopted
      /\ IsSession(l.meta) /\ FilesTyped /\ linked \subseteq Cassettes
  BY LinkUnderWay DEF NestedTyped
<1>1. CASE LoadChildId(p)
  <2> DEFINE r == LinkAt("loadChild", l.parent, l.child, l.meta,
                         ChildSession(Loaded(l.child, p, "childId"), l.meta), NoFile)
  <2>1. IsLink(r) /\ r.child = l.child
    BY <1>0, LoadedForm, LinkSessions DEF IsLink, LinkAt
  <2>2. proc' = [proc EXCEPT ![p] = r] /\ UNCHANGED <<adopted, linked>> /\ FilesTyped'
    BY <1>0, <1>1 DEF LoadChildId, Moves, FilesTyped, IsFile, IsManifest
  <2> HIDE DEF r
  <2> QED
    BY <1>0, <2>1, <2>2, LinkChanges
<1>2. CASE LoadChild(p)
  <2> DEFINE r == LinkAt("writeChild", l.parent, l.child, l.meta, l.kid,
                         Loaded(l.child, p, "loadChild"))
  <2>1. IsSession(l.kid)
    BY <1>2, LinkUnderWay DEF LoadChild
  <2>2. IsLink(r) /\ r.child = l.child
    BY <1>0, <2>1, LoadedForm DEF IsLink, LinkAt
  <2>3. proc' = [proc EXCEPT ![p] = r] /\ UNCHANGED <<adopted, linked>> /\ FilesTyped'
    BY <1>0, <1>2 DEF LoadChild, Moves, FilesTyped, IsFile, IsManifest
  <2> HIDE DEF r
  <2> QED
    BY <1>0, <2>2, <2>3, LinkChanges
<1>3. CASE RetireChild(p)
  <2> DEFINE r == LinkAt("installChild", l.parent, l.child, l.meta, l.kid, NoFile)
  <2>1. IsSession(l.kid) /\ IsManifest(l.copy)
    BY <1>3, LinkUnderWay DEF RetireChild
  <2>2. IsLink(r) /\ r.child = l.child
    BY <1>0, <2>1 DEF IsLink, LinkAt
  <2>3. IsManifest(WithSession(l.copy, l.kid))
    BY <2>1, WithSessionForm
  <2>4. proc' = [proc EXCEPT ![p] = r] /\ UNCHANGED <<adopted, linked>>
        /\ Retires(l.child, WithSession(l.copy, l.kid))
    BY <1>3 DEF RetireChild, Moves
  <2>5. FilesTyped'
    BY <1>0, <2>3, <2>4, Writes
  <2> HIDE DEF r
  <2> QED
    BY <1>0, <2>2, <2>4, <2>5, LinkChanges
<1>4. CASE InstallChild(p)
  <2> DEFINE r == LinkAt("digest", l.parent, l.child, l.meta, l.kid, NoFile)
  <2>1. IsSession(l.kid)
    BY <1>4, LinkUnderWay DEF InstallChild
  <2>2. IsLink(r) /\ r.child = l.child
    BY <1>0, <2>1 DEF IsLink, LinkAt
  <2>3. proc' = [proc EXCEPT ![p] = r] /\ UNCHANGED <<adopted, linked>> /\ Installs(l.child)
    BY <1>4 DEF InstallChild, Moves
  <2>4. FilesTyped'
    BY <1>0, <2>3, Writes
  <2> HIDE DEF r
  <2> QED
    BY <1>0, <2>2, <2>3, <2>4, LinkChanges
<1>5. CASE TakeDigest(p)
  <2> DEFINE t == [l.meta EXCEPT !.children = Registered(@, DigestOf(p))]
             r == LinkAt("loadParent", l.parent, l.child, t, NoSession, NoFile)
  <2>1. IsSession(t) /\ t.children # << >>
    BY <1>0, OneMoreDigest
  <2>2. proc' = [proc EXCEPT ![p] = r] /\ UNCHANGED <<adopted, linked>> /\ FilesTyped'
    BY <1>0, <1>5 DEF TakeDigest, Moves, FilesTyped, IsFile, IsManifest
  <2> HIDE DEF t
  <2>3. IsLink(r) /\ r.child = l.child
    BY <1>0, <2>1 DEF IsLink, LinkAt
  <2> HIDE DEF r
  <2> QED
    BY <1>0, <2>2, <2>3, LinkChanges
<1>6. CASE LoadParent(p)
  <2> DEFINE r == LinkAt("writeParent", l.parent, l.child, l.meta, NoSession,
                         Loaded(l.parent, p, "loadParent"))
  <2>1. l.meta.children # << >>
    BY <1>6, LinkUnderWay DEF LoadParent
  <2>2. IsLink(r) /\ r.child = l.child
    BY <1>0, <2>1, LoadedForm DEF IsLink, LinkAt
  <2>3. proc' = [proc EXCEPT ![p] = r] /\ UNCHANGED <<adopted, linked>> /\ FilesTyped'
    BY <1>0, <1>6 DEF LoadParent, Moves, FilesTyped, IsFile, IsManifest
  <2> HIDE DEF r
  <2> QED
    BY <1>0, <2>2, <2>3, LinkChanges
<1>7. CASE RetireParent(p)
  <2> DEFINE r == LinkAt("installParent", l.parent, l.child, l.meta, NoSession, NoFile)
  <2>1. IsManifest(l.copy)
    BY <1>7, LinkUnderWay DEF RetireParent
  <2>2. IsLink(r) /\ r.child = l.child
    BY <1>0, <2>1 DEF IsLink, LinkAt
  <2>3. IsManifest(WithSession(l.copy, l.meta))
    BY <1>0, <2>1, WithSessionForm
  <2>4. proc' = [proc EXCEPT ![p] = r] /\ UNCHANGED <<adopted, linked>>
        /\ Retires(l.parent, WithSession(l.copy, l.meta))
    BY <1>7 DEF RetireParent, Moves
  <2>5. FilesTyped'
    BY <1>0, <2>3, <2>4, Writes
  <2> HIDE DEF r
  <2> QED
    BY <1>0, <2>2, <2>4, <2>5, LinkChanges
<1>8. CASE InstallParent(p)
  <2>1. /\ proc' = [proc EXCEPT ![p] = Idle] /\ adopted' = adopted
        /\ linked' \subseteq Cassettes /\ Installs(l.parent)
    BY <1>0, <1>8 DEF InstallParent
  <2>2. FilesTyped'
    BY <1>0, <2>1, Writes
  <2> QED
    BY <2>1, <2>2, LinkChanges DEF IsLink
<1>9. CASE Raises(p)
  <2>1. /\ proc' = [proc EXCEPT ![p] = Idle] /\ UNCHANGED <<adopted, linked>> /\ FilesTyped'
    BY <1>0, <1>9 DEF Raises, FilesTyped, IsFile, IsManifest
  <2> QED
    BY <1>0, <2>1, LinkChanges DEF IsLink
<1> QED
  BY <1>1, <1>2, <1>3, <1>4, <1>5, <1>6, <1>7, <1>8, <1>9 DEF Link

LEMMA NextNested ==
    ASSUME NestedTyped, [Next]_vars
    PROVE  NestedTyped'
<1>0. FilesTyped /\ linked \subseteq Cassettes
  BY DEF NestedTyped
<1>a. ASSUME UNCHANGED <<proc, linked, adopted>>, FilesTyped' PROVE NestedTyped'
  BY <1>a DEF NestedTyped, IsLink
<1>1. ASSUME NEW c \in Cassettes, AppendRetire(c) PROVE NestedTyped'
  <2> PICK m : m = Loaded(c, "recorder", "append")
    OBVIOUS
  <2> PICK n : n = [m EXCEPT !.txs = @ + 1]
    OBVIOUS
  <2>1. IsManifest(m) /\ IsManifest(n)
    BY LoadedForm, OneMoreForm
  <2>2. Retires(c, n) /\ UNCHANGED <<proc, linked, adopted>>
    BY <1>1 DEF AppendRetire
  <2>3. FilesTyped'
    BY <1>0, <2>1, <2>2, Writes
  <2> QED
    BY <1>a, <2>2, <2>3
<1>2. ASSUME NEW c \in Cassettes, AppendInstall(c) PROVE NestedTyped'
  <2>1. FilesTyped' /\ UNCHANGED <<proc, linked, adopted>>
    BY <1>0, <1>2, Writes DEF AppendInstall
  <2> QED
    BY <1>a, <2>1
<1>3. ASSUME NEW c \in Cassettes, KillAppend(c) PROVE NestedTyped'
  <2>1. /\ draft' = [b \in Cassettes |-> draft'[b]]
        /\ \A b \in Cassettes : draft'[b] \in {draft[b], NoFile}
    BY <1>0, <1>3 DEF KillAppend, FilesTyped
  <2>2. FilesTyped' /\ UNCHANGED <<proc, linked, adopted>>
    BY <1>0, <1>3, <2>1 DEF KillAppend, FilesTyped, IsFile, IsManifest
  <2> QED
    BY <1>a, <2>2
<1>4. ASSUME NEW p \in Procs, NEW parent \in Cassettes, NEW child \in Cassettes,
             LinkBegin(p, parent, child)
      PROVE  NestedTyped'
  <2> DEFINE r == LinkAt("childId", parent, child,
                         ParentSession(Loaded(parent, p, "parent")), NoSession, NoFile)
  <2>1. IsLink(r) /\ r.child = child
    BY LoadedForm, LinkSessions DEF IsLink, LinkAt
  <2>2. /\ proc' = [proc EXCEPT ![p] = r] /\ adopted' = adopted \cup {child}
        /\ linked' = linked /\ FilesTyped'
    BY <1>0, <1>4 DEF LinkBegin, FilesTyped, IsFile, IsManifest
  <2> HIDE DEF r
  <2> QED
    BY <1>0, <2>1, <2>2, LinkChanges
<1>5. ASSUME NEW p \in Procs, KillLink(p) PROVE NestedTyped'
  <2>1. /\ draft' = [b \in Cassettes |-> draft'[b]]
        /\ \A b \in Cassettes : draft'[b] \in {draft[b], NoFile}
    BY <1>0, <1>5 DEF KillLink, FilesTyped
  <2>2. /\ FilesTyped' /\ UNCHANGED <<linked, adopted>> /\ proc' = [proc EXCEPT ![p] = Idle]
    BY <1>0, <1>5, <2>1 DEF KillLink, FilesTyped, IsFile, IsManifest
  <2> QED
    BY <1>0, <2>2, LinkChanges DEF IsLink
<1>6. CASE UNCHANGED vars
  BY <1>6 DEF vars, NestedTyped, FilesTyped, IsFile, IsManifest, IsLink
<1> QED
  BY <1>1, <1>2, <1>3, <1>4, <1>5, <1>6, LinkTyped DEF Next

LEMMA NestedInvariant == Spec => []NestedTyped
<1>1. NestedTyped /\ [Next]_vars => NestedTyped'
  BY NextNested
<1> QED
  BY InitNested, <1>1, PTL DEF Spec

-----------------------------------------------------------------------------
(* A parent that was linked has digests *)

HasDigests(m) == m.session # NoSession /\ m.session.children # << >>

\* One writer holds the lock of a cassette between the renames; unless one died
\* there, the file or its draft is there.
Locked ==
    /\ \A p \in Procs, c \in Cassettes : Installing(p, c) => draft[c] # NoFile
    /\ \A p, q \in Procs, c \in Cassettes : Installing(p, c) /\ Installing(q, c) => p = q
    /\ \A c \in Cassettes \ cut : file[c] = NoFile => draft[c] # NoFile

\* What there is of a parent that was linked has digests, and so has what a
\* link is about to install there.
DigestsThere ==
    /\ \A p \in Procs : proc[p].phase = "installParent" => HasDigests(draft[proc[p].parent])
    /\ \A c \in (linked \ adopted) \ cut :
          /\ file[c] # NoFile => HasDigests(file[c])
          /\ draft[c] # NoFile => HasDigests(draft[c])

DigestsInv == Locked /\ DigestsThere

\* The files stay, and no link comes to be between the renames.
LEMMA NoWrite ==
    ASSUME DigestsInv, UNCHANGED <<file, draft, linked>>,
           adopted \subseteq adopted', cut \subseteq cut',
           \A q \in Procs : proc'[q] = proc[q]
                            \/ proc'[q].phase \notin {"installChild", "installParent"}
    PROVE  DigestsInv'
<1>1. \A q \in Procs, c \in Cassettes : Installing(q, c)' => Installing(q, c)
  BY DEF Installing
<1>2. Locked'
  BY <1>1 DEF DigestsInv, Locked
<1>3. DigestsThere'
  BY DEF DigestsInv, DigestsThere, HasDigests
<1> QED
  BY <1>2, <1>3 DEF DigestsInv

\* An append from its lock to the first rename keeps the session.
LEMMA AppendRetireKeeps ==
    ASSUME NestedTyped, DigestsInv, NEW c \in Cassettes, AppendRetire(c)
    PROVE  DigestsInv'
<1> PICK m : m = Loaded(c, "recorder", "append")
  OBVIOUS
<1> PICK n : n = [m EXCEPT !.txs = @ + 1]
  OBVIOUS
<1>1. /\ IsManifest(n) /\ n.session = m.session /\ n # NoFile
      /\ file[c] # NoFile => m = file[c]
  BY LoadedForm, OneMoreForm, ManifestIsThere
<1>2. Retires(c, n) /\ UNCHANGED <<proc, linked, adopted, cut>>
  BY DEF AppendRetire
<1>3. /\ draft[c] = NoFile /\ draft'[c] = n /\ file'[c] = NoFile
      /\ \A b \in Cassettes \ {c} : draft'[b] = draft[b] /\ file'[b] = file[b]
  BY <1>1, <1>2, Writes DEF NestedTyped
<1>4. \A p \in Procs, b \in Cassettes : Installing(p, b)' = Installing(p, b)
  BY <1>2 DEF Installing
<1>5. Locked'
  BY <1>1, <1>2, <1>3, <1>4 DEF DigestsInv, Locked
<1>6. \A p \in Procs : proc[p].phase = "installParent" =>
         proc[p].parent \in Cassettes \ {c}
  <2>1. \A p \in Procs : ~Installing(p, c)
    BY <1>3 DEF DigestsInv, Locked
  <2> QED
    BY <2>1 DEF Installing, NestedTyped, IsLink, Idle, LinkAt
<1>7. \A b \in (linked \ adopted) \ cut : b \in Cassettes
  BY DEF NestedTyped
<1>8. c \in (linked \ adopted) \ cut => HasDigests(n)
  <2>1. c \notin cut => file[c] # NoFile
    BY <1>3 DEF DigestsInv, Locked
  <2> QED
    BY <1>1, <2>1 DEF DigestsInv, DigestsThere, HasDigests
<1>9. \A p \in Procs : proc'[p].phase = "installParent" => HasDigests(draft'[proc'[p].parent])
  BY <1>2, <1>3, <1>6 DEF DigestsInv, DigestsThere
<1>10. ASSUME NEW b \in (linked \ adopted) \ cut
       PROVE  /\ file'[b] # NoFile => HasDigests(file'[b])
              /\ draft'[b] # NoFile => HasDigests(draft'[b])
  <2>1. CASE b = c
    BY <1>3, <1>8, <2>1
  <2>2. CASE b # c
    BY <1>3, <1>7, <2>2 DEF DigestsInv, DigestsThere
  <2> QED
    BY <2>1, <2>2
<1>11. DigestsThere'
  BY <1>2, <1>9, <1>10 DEF DigestsThere, HasDigests
<1> QED
  BY <1>5, <1>11 DEF DigestsInv

\* A write that ends installs its draft.
LEMMA InstallKeeps ==
    ASSUME NestedTyped, DigestsInv, NEW c \in Cassettes, Installs(c), draft[c] # NoFile,
           UNCHANGED <<adopted, cut>>,
           linked' = linked \/ (linked' = linked \cup {c} /\ HasDigests(draft[c])),
           \A q \in Procs : \/ proc'[q] = proc[q] /\ ~Installing(q, c)
                            \/ proc'[q].phase \notin {"installChild", "installParent"}
    PROVE  DigestsInv'
<1>1. /\ draft'[c] = NoFile /\ file'[c] = draft[c]
      /\ \A b \in Cassettes \ {c} : draft'[b] = draft[b] /\ file'[b] = file[b]
  BY Writes DEF NestedTyped
<1>2. \A q \in Procs, b \in Cassettes : Installing(q, b)' => Installing(q, b) /\ b # c
  BY DEF Installing
<1>3. Locked'
  BY <1>1, <1>2 DEF DigestsInv, Locked
<1>4. \A q \in Procs : proc'[q].phase = "installParent" =>
         proc[q] = proc'[q] /\ proc[q].parent \in Cassettes \ {c}
  BY DEF Installing, NestedTyped, IsLink, Idle, LinkAt
<1>5. \A b \in (linked' \ adopted) \ cut : b \in Cassettes
  BY DEF NestedTyped
<1>6. DigestsThere'
  BY <1>1, <1>4, <1>5 DEF DigestsInv, DigestsThere, HasDigests
<1> QED
  BY <1>3, <1>6 DEF DigestsInv

\* A write of a link begins.
LEMMA RetireKeeps ==
    ASSUME NestedTyped, DigestsInv, NEW p \in Procs, NEW c \in Cassettes, NEW m, IsManifest(m),
           Retires(c, m), UNCHANGED <<linked, adopted, cut>>,
           \A q \in Procs \ {p} : proc'[q] = proc[q],
           proc[p].phase \notin {"installChild", "installParent"},
           \/ proc'[p].phase = "installChild" /\ proc'[p].child = c /\ c \in adopted
           \/ proc'[p].phase = "installParent" /\ proc'[p].parent = c /\ HasDigests(m)
    PROVE  DigestsInv'
<1>1. /\ draft[c] = NoFile /\ draft'[c] = m /\ file'[c] = NoFile /\ m # NoFile
      /\ \A b \in Cassettes \ {c} : draft'[b] = draft[b] /\ file'[b] = file[b]
  BY Writes, ManifestIsThere DEF NestedTyped
<1>2. \A q \in Procs : ~Installing(q, c)
  BY <1>1 DEF DigestsInv, Locked
<1>3. /\ \A q \in Procs \ {p}, b \in Cassettes : Installing(q, b)' => Installing(q, b) /\ b # c
      /\ \A b \in Cassettes : Installing(p, b)' => b = c
  BY <1>2 DEF Installing
<1>4. Locked'
  BY <1>1, <1>3 DEF DigestsInv, Locked
<1>5. \A q \in Procs \ {p} : proc'[q].phase = "installParent" =>
         proc[q] = proc'[q] /\ proc[q].parent \in Cassettes \ {c}
  BY <1>2 DEF Installing, NestedTyped, IsLink, Idle, LinkAt
<1>6. \A b \in (linked \ adopted) \ cut : b \in Cassettes
  BY DEF NestedTyped
<1>7. proc'[p].phase = "installParent" => HasDigests(draft'[proc'[p].parent])
  BY <1>1
<1>8. c \in (linked \ adopted) \ cut => HasDigests(m)
  OBVIOUS
<1>9. \A q \in Procs : proc'[q].phase = "installParent" => HasDigests(draft'[proc'[q].parent])
  BY <1>1, <1>5, <1>7 DEF DigestsInv, DigestsThere
<1>10. DigestsThere'
  BY <1>1, <1>6, <1>8, <1>9 DEF DigestsInv, DigestsThere, HasDigests
<1> QED
  BY <1>4, <1>10 DEF DigestsInv

\* A writer dies between the renames, or a link elsewhere.
LEMMA KillKeeps ==
    ASSUME NestedTyped, DigestsInv, NEW left, left \subseteq Cassettes,
           draft' = [c \in Cassettes |-> IF c \in left THEN NoFile ELSE draft[c]],
           UNCHANGED <<file, linked, adopted>>, cut' = cut \cup left,
           \A q \in Procs : \/ proc'[q] = proc[q] /\ \A c \in left : ~Installing(q, c)
                            \/ proc'[q].phase \notin {"installChild", "installParent"}
    PROVE  DigestsInv'
<1>1. \A c \in Cassettes : IF c \in left THEN draft'[c] = NoFile ELSE draft'[c] = draft[c]
  OBVIOUS
<1>2. \A q \in Procs, b \in Cassettes : Installing(q, b)' => Installing(q, b) /\ b \notin left
  BY DEF Installing
<1>3. Locked'
  BY <1>1, <1>2 DEF DigestsInv, Locked
<1>4. \A q \in Procs : proc'[q].phase = "installParent" =>
         proc[q] = proc'[q] /\ proc[q].parent \in Cassettes \ left
  BY DEF Installing, NestedTyped, IsLink, Idle, LinkAt
<1>5. \A b \in (linked \ adopted) \ cut' : b \in Cassettes \ left
  BY DEF NestedTyped
<1>6. DigestsThere'
  BY <1>1, <1>4, <1>5 DEF DigestsInv, DigestsThere, HasDigests
<1> QED
  BY <1>3, <1>6 DEF DigestsInv

LEMMA LinkKeepsDigests ==
    ASSUME NestedTyped, DigestsInv, NEW p \in Procs, Link(p)
    PROVE  DigestsInv'
<1> DEFINE l == proc[p]
<1>0. /\ l.parent \in Cassettes /\ l.child \in Cassettes /\ l.child \in adopted
      /\ IsSession(l.meta)
  BY LinkUnderWay
<1>f. \A q \in Procs \ {p} : proc'[q] = proc[q]
  BY DEF NestedTyped, Link, LoadChildId, LoadChild, RetireChild, InstallChild, TakeDigest,
         LoadParent, RetireParent, InstallParent, Raises, Moves
<1>1. CASE LoadChildId(p) \/ LoadChild(p) \/ TakeDigest(p) \/ LoadParent(p) \/ Raises(p)
  <2>1. proc'[p].phase \in {"idle", "loadChild", "writeChild", "loadParent", "writeParent"}
    BY <1>1 DEF NestedTyped, LoadChildId, LoadChild, TakeDigest, LoadParent, Raises, Moves,
                LinkAt, Idle
  <2>2. UNCHANGED <<file, draft, linked, adopted, cut>>
    BY <1>1 DEF LoadChildId, LoadChild, TakeDigest, LoadParent, Raises
  <2> QED
    BY <1>f, <2>1, <2>2, NoWrite
<1>2. CASE RetireChild(p)
  <2>1. IsManifest(WithSession(l.copy, l.kid))
    BY <1>2, LinkUnderWay, WithSessionForm DEF RetireChild
  <2>2. /\ proc'[p].phase = "installChild" /\ proc'[p].child = l.child
        /\ proc[p].phase = "writeChild"
        /\ Retires(l.child, WithSession(l.copy, l.kid)) /\ UNCHANGED <<linked, adopted, cut>>
    BY <1>2 DEF NestedTyped, RetireChild, Moves, LinkAt
  <2> QED
    BY <1>0, <1>f, <2>1, <2>2, RetireKeeps
<1>3. CASE RetireParent(p)
  <2>1. l.meta.children # << >> /\ IsManifest(l.copy)
    BY <1>3, LinkUnderWay DEF RetireParent
  <2>2. IsManifest(WithSession(l.copy, l.meta)) /\ HasDigests(WithSession(l.copy, l.meta))
    BY <1>0, <2>1, WithSessionForm, SessionIsThere DEF HasDigests
  <2>3. /\ proc'[p].phase = "installParent" /\ proc'[p].parent = l.parent
        /\ proc[p].phase = "writeParent"
        /\ Retires(l.parent, WithSession(l.copy, l.meta)) /\ UNCHANGED <<linked, adopted, cut>>
    BY <1>3 DEF NestedTyped, RetireParent, Moves, LinkAt
  <2> QED
    BY <1>0, <1>f, <2>2, <2>3, RetireKeeps
<1>4. CASE InstallChild(p)
  <2>1. /\ proc'[p].phase = "digest" /\ Installing(p, l.child)
        /\ Installs(l.child) /\ UNCHANGED <<linked, adopted, cut>>
    BY <1>4 DEF NestedTyped, InstallChild, Installing, Moves, LinkAt
  <2>2. draft[l.child] # NoFile /\ \A q \in Procs \ {p} : ~Installing(q, l.child)
    BY <1>0, <2>1 DEF DigestsInv, Locked
  <2> QED
    BY <1>0, <1>f, <2>1, <2>2, InstallKeeps
<1>5. CASE InstallParent(p)
  <2>1. /\ proc'[p].phase = "idle" /\ Installing(p, l.parent) /\ HasDigests(draft[l.parent])
        /\ Installs(l.parent) /\ UNCHANGED <<adopted, cut>> /\ linked' = linked \cup {l.parent}
    BY <1>5 DEF NestedTyped, InstallParent, Installing, Idle, LinkAt, DigestsInv, DigestsThere
  <2>2. draft[l.parent] # NoFile /\ \A q \in Procs \ {p} : ~Installing(q, l.parent)
    BY <1>0, <2>1 DEF DigestsInv, Locked
  <2> QED
    BY <1>0, <1>f, <2>1, <2>2, InstallKeeps
<1> QED
  BY <1>1, <1>2, <1>3, <1>4, <1>5 DEF Link

LEMMA NextDigests ==
    ASSUME NestedTyped, DigestsInv, [Next]_vars
    PROVE  DigestsInv'
<1>1. ASSUME NEW c \in Cassettes, AppendInstall(c) PROVE DigestsInv'
  BY <1>1, InstallKeeps DEF AppendInstall, Recording
<1>2. ASSUME NEW c \in Cassettes, KillAppend(c) PROVE DigestsInv'
  <2>1. draft' = [b \in Cassettes |-> IF b \in {c} THEN NoFile ELSE draft[b]]
    BY <1>2 DEF KillAppend, NestedTyped, FilesTyped
  <2> QED
    BY <1>2, <2>1, KillKeeps DEF KillAppend, Recording
<1>3. ASSUME NEW p \in Procs, KillLink(p) PROVE DigestsInv'
  <2>1. PICK left : left = {c \in Cassettes : Installing(p, c)}
    OBVIOUS
  <2>2. /\ left \subseteq Cassettes /\ UNCHANGED <<file, linked, adopted>> /\ cut' = cut \cup left
        /\ draft' = [c \in Cassettes |-> IF c \in left THEN NoFile ELSE draft[c]]
    BY <1>3, <2>1 DEF KillLink
  <2>3. /\ proc'[p].phase = "idle"
        /\ \A q \in Procs \ {p} : proc'[q] = proc[q] /\ \A c \in left : ~Installing(q, c)
    BY <1>3, <2>1 DEF KillLink, NestedTyped, Idle, LinkAt, DigestsInv, Locked
  <2> QED
    BY <2>2, <2>3, KillKeeps
<1>4. ASSUME NEW p \in Procs, NEW parent \in Cassettes, NEW child \in Cassettes,
             LinkBegin(p, parent, child)
      PROVE  DigestsInv'
  <2>1. /\ proc'[p].phase = "childId" /\ \A q \in Procs \ {p} : proc'[q] = proc[q]
        /\ UNCHANGED <<file, draft, linked, cut>> /\ adopted \subseteq adopted'
    BY <1>4 DEF LinkBegin, NestedTyped, LinkAt
  <2> QED
    BY <2>1, NoWrite
<1>5. CASE UNCHANGED vars
  BY <1>5, NoWrite DEF vars
<1> QED
  BY <1>1, <1>2, <1>3, <1>4, <1>5, AppendRetireKeeps, LinkKeepsDigests DEF Next

LEMMA DigestsInvariant == Spec => []DigestsInv
<1>1. Init => DigestsInv
  <2>1. Init => \A p \in Procs : proc[p].phase = "idle"
    BY DEF Init, Idle, LinkAt
  <2>2. Init => \A c \in Cassettes : file[c] # NoFile
    BY ManifestIsThere DEF Init, IsManifest, Manifest
  <2> QED
    BY <2>1, <2>2 DEF Init, DigestsInv, Locked, DigestsThere, Installing
<1>2. NestedTyped /\ DigestsInv /\ [Next]_vars => DigestsInv'
  BY NextDigests
<1> QED
  BY <1>1, <1>2, NestedInvariant, PTL DEF Spec

\* link_child_cassette: a parent that a link returned for and that was never a
\* child holds digests to verify whenever its cassette.json is there, however
\* links and appends race, raise and are killed, unless a writer of this
\* cassette died between the renames.
THEOREM LinkedHaveDigests == Spec => []VerifyNotVacuous
<1>1. DigestsInv => VerifyNotVacuous
  BY DEF DigestsInv, DigestsThere, HasDigests, VerifyNotVacuous
<1> QED
  BY <1>1, DigestsInvariant, PTL

-----------------------------------------------------------------------------
(* Digests name their session, while links do not overlap *)

\* A session one level below that of meta.
Fits(s, meta) == s # NoSession /\ s.parent = meta.id /\ s.depth = meta.depth + 1

\* A digest was taken of a manifest whose session has this one as its parent.
NamedBy(session) == \A digest \in Values(session.children) : Fits(digest.session, session)

\* What a manifest, or the absence of one, says of its digests.
Names(m) == m # NoFile /\ m.session # NoSession => NamedBy(m.session)

\* If it is there, it has a session one level below that of meta.
FitsFile(m, meta) == m # NoFile => Fits(m.session, meta)

\* One link is under way; the child has its session until its digest is taken,
\* and what is to be written names its digests.
NamesInv ==
    ~raced /\ cut = {} =>
        /\ \A p, q \in Procs : proc[p] # Idle /\ proc[q] # Idle => p = q
        /\ \A c \in Cassettes : Names(file[c]) /\ Names(draft[c])
        /\ \A p \in Procs :
              /\ proc[p].phase # "idle" => NamedBy(proc[p].meta)
              /\ proc[p].phase \in {"loadChild", "writeChild", "installChild"} =>
                    Fits(proc[p].kid, proc[p].meta) /\ NamedBy(proc[p].kid)
              /\ proc[p].phase = "installChild" => FitsFile(draft[proc[p].child], proc[p].meta)
              /\ proc[p].phase = "digest" =>
                    /\ FitsFile(file[proc[p].child], proc[p].meta)
                    /\ FitsFile(draft[proc[p].child], proc[p].meta)

LEMMA NamedIsStated == NamesInv => DigestsNameParent
BY DEF NamesInv, Names, NamedBy, Fits, DigestsNameParent

\* A session with no children names none, and one more child that it names
\* may be registered.
LEMMA NamedSessions ==
    /\ \A id, parent, depth : NamedBy(Session(id, parent, depth, << >>))
    /\ \A s, d : IsSession(s) /\ NamedBy(s) /\ Fits(d.session, s)
                => NamedBy(Session(s.id, s.parent, s.depth, Registered(s.children, d)))
<1>1. \A id, parent, depth : NamedBy(Session(id, parent, depth, << >>))
  <2>1. Values(<< >>) = {}
    BY DEF Values
  <2> QED
    BY <2>1 DEF NamedBy, Session
<1>2. ASSUME NEW s, NEW d, IsSession(s), NamedBy(s), Fits(d.session, s)
      PROVE  NamedBy(Session(s.id, s.parent, s.depth, Registered(s.children, d)))
  <2>1. Values(Registered(s.children, d)) = Values(s.children) \cup {d}
    BY <1>2, RegisteredDigests DEF IsSession
  <2> QED
    BY <1>2, <2>1 DEF NamedBy, Session, Fits
<1> QED
  BY <1>1, <1>2

\* One link at a time: what the step of the one makes of the files and of
\* itself is enough.
LEMMA OneLink ==
    ASSUME NestedTyped, NamesInv, NEW p \in Procs, ~raced' => ~raced, cut' = {} => cut = {},
           ~raced' => \A q \in Procs \ {p} : proc'[q] = Idle,
           ~raced' /\ cut' = {} =>
             /\ \A c \in Cassettes : Names(file'[c]) /\ Names(draft'[c])
             /\ proc'[p].phase # "idle" => NamedBy(proc'[p].meta)
             /\ proc'[p].phase \in {"loadChild", "writeChild", "installChild"} =>
                   Fits(proc'[p].kid, proc'[p].meta) /\ NamedBy(proc'[p].kid)
             /\ proc'[p].phase = "installChild" => FitsFile(draft'[proc'[p].child], proc'[p].meta)
             /\ proc'[p].phase = "digest" =>
                   /\ FitsFile(file'[proc'[p].child], proc'[p].meta)
                   /\ FitsFile(draft'[proc'[p].child], proc'[p].meta)
    PROVE  NamesInv'
<1>1. Idle.phase = "idle"
  BY DEF Idle, LinkAt
<1> SUFFICES ASSUME ~raced', cut' = {} PROVE NamesInv'
  BY DEF NamesInv
<1> QED
  BY <1>1 DEF NamesInv, Names, NamedBy, Fits, FitsFile

LEMMA BeginKeepsNames ==
    ASSUME NestedTyped, NamesInv, NEW p \in Procs, NEW a \in Cassettes, NEW b \in Cassettes,
           LinkBegin(p, a, b)
    PROVE  NamesInv'
<1> PICK m : m = Loaded(a, p, "parent")
  OBVIOUS
<1>1. /\ (~raced' => ~raced) /\ UNCHANGED <<file, draft, cut>>
      /\ ~raced' => \A q \in Procs \ {p} : proc[q] = Idle /\ proc'[q] = Idle
      /\ proc'[p].phase = "childId" /\ proc'[p].meta = ParentSession(m)
  BY DEF LinkBegin, NestedTyped, LinkAt
<1>2. /\ IsManifest(m) /\ m # NoFile /\ (file[a] # NoFile => m = file[a])
      /\ (file[a] = NoFile => m.session = NoSession)
  BY LoadedForm, ManifestIsThere
<1>3. ~raced' /\ cut' = {} => NamedBy(ParentSession(m))
  BY <1>1, <1>2, NamedSessions DEF NamesInv, Names, ParentSession
<1> QED
  BY <1>1, <1>3, OneLink DEF NamesInv

LEMMA LinkKeepsNames ==
    ASSUME NestedTyped, NamesInv, NEW p \in Procs, Link(p)
    PROVE  NamesInv'
<1> DEFINE l == proc[p]
<1>0. /\ l # Idle /\ l.phase # "idle"
      /\ l.parent \in Cassettes /\ l.child \in Cassettes /\ IsSession(l.meta)
  BY LinkUnderWay
<1>1. /\ UNCHANGED <<raced, cut>> /\ proc = [q \in Procs |-> proc[q]] /\ FilesTyped
      /\ \A q \in Procs \ {p} : proc'[q] = proc[q]
  BY DEF NestedTyped, Link, LoadChildId, LoadChild, RetireChild, InstallChild, TakeDigest,
         LoadParent, RetireParent, InstallParent, Raises, Moves
<1> SUFFICES ASSUME ~raced, cut = {} PROVE NamesInv'
  BY <1>1 DEF NamesInv
<1>2. /\ \A c \in Cassettes : Names(file[c]) /\ Names(draft[c])
      /\ NamedBy(l.meta) /\ \A q \in Procs \ {p} : proc'[q] = Idle
  BY <1>0, <1>1 DEF NamesInv
<1>3. CASE LoadChildId(p)
  <2> PICK m : m = Loaded(l.child, p, "childId")
    OBVIOUS
  <2> PICK k : k = ChildSession(m, l.meta)
    OBVIOUS
  <2>1. Fits(k, l.meta) /\ NamedBy(k)
    <3>1. k # NoSession
      BY <1>0, LoadedForm, LinkSessions, SessionIsThere
    <3> QED
      BY <3>1, NamedSessions DEF ChildSession, Session, Fits
  <2>2. /\ proc'[p].phase = "loadChild" /\ proc'[p].meta = l.meta /\ proc'[p].kid = k
        /\ UNCHANGED <<file, draft>>
    BY <1>1, <1>3 DEF LoadChildId, Moves, LinkAt
  <2> HIDE DEF l
  <2> QED
    BY <1>1, <1>2, <2>1, <2>2, OneLink
<1>4. CASE LoadChild(p)
  <2>1. /\ proc'[p].phase = "writeChild" /\ proc'[p].meta = l.meta /\ proc'[p].kid = l.kid
        /\ l.phase = "loadChild" /\ UNCHANGED <<file, draft>>
    BY <1>1, <1>4 DEF LoadChild, Moves, LinkAt
  <2>2. Fits(l.kid, l.meta) /\ NamedBy(l.kid)
    BY <2>1 DEF NamesInv
  <2> HIDE DEF l
  <2> QED
    BY <1>1, <1>2, <2>1, <2>2, OneLink
<1>5. CASE RetireChild(p)
  <2> PICK m : m = WithSession(l.copy, l.kid)
    OBVIOUS
  <2>1. IsManifest(m) /\ m.session = l.kid
    BY <1>5, LinkUnderWay, WithSessionForm DEF RetireChild
  <2>2. /\ proc'[p].phase = "installChild" /\ proc'[p].meta = l.meta /\ proc'[p].kid = l.kid
        /\ proc'[p].child = l.child /\ l.phase = "writeChild" /\ Retires(l.child, m)
    BY <1>1, <1>5 DEF RetireChild, Moves, LinkAt
  <2>3. Fits(l.kid, l.meta) /\ NamedBy(l.kid)
    BY <2>2 DEF NamesInv
  <2>4. /\ draft'[l.child] = m /\ file'[l.child] = NoFile
        /\ \A b \in Cassettes \ {l.child} : draft'[b] = draft[b] /\ file'[b] = file[b]
    BY <1>0, <1>1, <2>1, <2>2, Writes
  <2>5. \A c \in Cassettes : Names(file'[c]) /\ Names(draft'[c])
    BY <1>2, <2>1, <2>3, <2>4 DEF Names
  <2>6. FitsFile(draft'[l.child], l.meta)
    BY <2>1, <2>3, <2>4 DEF FitsFile
  <2> HIDE DEF l
  <2> QED
    BY <1>1, <1>2, <2>2, <2>3, <2>5, <2>6, OneLink
<1>6. CASE InstallChild(p)
  <2>1. /\ proc'[p].phase = "digest" /\ proc'[p].meta = l.meta
        /\ proc'[p].child = l.child /\ l.phase = "installChild" /\ Installs(l.child)
    BY <1>1, <1>6 DEF InstallChild, Moves, LinkAt
  <2>2. /\ draft'[l.child] = NoFile /\ file'[l.child] = draft[l.child]
        /\ \A b \in Cassettes \ {l.child} : draft'[b] = draft[b] /\ file'[b] = file[b]
    BY <1>0, <1>1, <2>1, Writes
  <2>3. FitsFile(draft[l.child], l.meta)
    BY <2>1 DEF NamesInv
  <2>4. \A c \in Cassettes : Names(file'[c]) /\ Names(draft'[c])
    BY <1>2, <2>2 DEF Names
  <2>5. FitsFile(file'[l.child], l.meta) /\ FitsFile(draft'[l.child], l.meta)
    BY <2>2, <2>3 DEF FitsFile
  <2> HIDE DEF l
  <2> QED
    BY <1>1, <1>2, <2>1, <2>4, <2>5, OneLink
<1>7. CASE TakeDigest(p)
  <2> PICK d : d = file[l.child]
    OBVIOUS
  <2> PICK t : t = [l.meta EXCEPT !.children = Registered(@, d)]
    OBVIOUS
  <2>1. t = Session(l.meta.id, l.meta.parent, l.meta.depth, Registered(l.meta.children, d))
    BY <1>0, OneMoreDigest
  <2>2. /\ proc'[p].phase = "loadParent" /\ proc'[p].meta = t /\ l.phase = "digest"
        /\ d # NoFile /\ UNCHANGED <<file, draft>>
    BY <1>1, <1>7 DEF TakeDigest, DigestOf, Moves, LinkAt
  <2>3. Fits(d.session, l.meta)
    BY <2>2 DEF NamesInv, FitsFile
  <2>4. NamedBy(t)
    BY <1>0, <1>2, <2>1, <2>3, NamedSessions
  <2> HIDE DEF l
  <2> QED
    BY <1>1, <1>2, <2>2, <2>4, OneLink
<1>8. CASE LoadParent(p)
  <2>1. /\ proc'[p].phase = "writeParent" /\ proc'[p].meta = l.meta /\ UNCHANGED <<file, draft>>
    BY <1>1, <1>8 DEF LoadParent, Moves, LinkAt
  <2> HIDE DEF l
  <2> QED
    BY <1>1, <1>2, <2>1, OneLink
<1>9. CASE RetireParent(p)
  <2> PICK m : m = WithSession(l.copy, l.meta)
    OBVIOUS
  <2>1. IsManifest(m) /\ m.session = l.meta
    BY <1>0, <1>9, LinkUnderWay, WithSessionForm DEF RetireParent
  <2>2. /\ proc'[p].phase = "installParent" /\ proc'[p].meta = l.meta /\ Retires(l.parent, m)
    BY <1>1, <1>9 DEF RetireParent, Moves, LinkAt
  <2>3. /\ draft'[l.parent] = m /\ file'[l.parent] = NoFile
        /\ \A b \in Cassettes \ {l.parent} : draft'[b] = draft[b] /\ file'[b] = file[b]
    BY <1>0, <1>1, <2>1, <2>2, Writes
  <2>4. \A c \in Cassettes : Names(file'[c]) /\ Names(draft'[c])
    BY <1>2, <2>1, <2>3 DEF Names
  <2> HIDE DEF l
  <2> QED
    BY <1>1, <1>2, <2>2, <2>4, OneLink
<1>10. CASE InstallParent(p)
  <2>1. proc'[p].phase = "idle" /\ Installs(l.parent)
    BY <1>1, <1>10 DEF InstallParent, Idle, LinkAt
  <2>2. /\ draft'[l.parent] = NoFile /\ file'[l.parent] = draft[l.parent]
        /\ \A b \in Cassettes \ {l.parent} : draft'[b] = draft[b] /\ file'[b] = file[b]
    BY <1>0, <1>1, <2>1, Writes
  <2>3. \A c \in Cassettes : Names(file'[c]) /\ Names(draft'[c])
    BY <1>2, <2>2 DEF Names
  <2> HIDE DEF l
  <2> QED
    BY <1>1, <1>2, <2>1, <2>3, OneLink
<1>11. CASE Raises(p)
  <2>1. proc'[p].phase = "idle" /\ UNCHANGED <<file, draft>>
    BY <1>1, <1>11 DEF Raises, Idle, LinkAt
  <2> HIDE DEF l
  <2> QED
    BY <1>1, <1>2, <2>1, OneLink
<1> QED
  BY <1>3, <1>4, <1>5, <1>6, <1>7, <1>8, <1>9, <1>10, <1>11 DEF Link

LEMMA AppendKeepsNames ==
    ASSUME NestedTyped, DigestsInv, NamesInv, NEW c \in Cassettes,
           AppendRetire(c) \/ AppendInstall(c)
    PROVE  NamesInv'
<1>1. UNCHANGED <<proc, raced, cut>> /\ FilesTyped
  BY DEF NestedTyped, AppendRetire, AppendInstall
<1> SUFFICES ASSUME ~raced, cut = {} PROVE NamesInv'
  BY <1>1 DEF NamesInv
<1>a. \A p \in Procs : proc[p].phase \in {"installChild", "digest"} => proc[p].child \in Cassettes
  BY DEF NestedTyped, IsLink, Idle, LinkAt
<1>2. ASSUME \A b \in Cassettes : Names(file'[b]) /\ Names(draft'[b]),
             \A p \in Procs : proc[p].phase = "installChild" => proc[p].child # c,
             \A b \in Cassettes \ {c} : draft'[b] = draft[b] /\ file'[b] = file[b],
             \A meta : FitsFile(file[c], meta) /\ FitsFile(draft[c], meta)
                       => FitsFile(file'[c], meta) /\ FitsFile(draft'[c], meta)
      PROVE  NamesInv'
  <2>1. \A p \in Procs : proc[p].phase = "installChild" =>
           FitsFile(draft'[proc[p].child], proc[p].meta)
    BY <1>a, <1>2 DEF NamesInv
  <2>2. \A p \in Procs : proc[p].phase = "digest" =>
           /\ FitsFile(file'[proc[p].child], proc[p].meta)
           /\ FitsFile(draft'[proc[p].child], proc[p].meta)
    BY <1>a, <1>2 DEF NamesInv
  <2> QED
    BY <1>1, <1>2, <2>1, <2>2 DEF NamesInv, Names, NamedBy, Fits, FitsFile
<1>3. CASE AppendRetire(c)
  <2> PICK m : m = Loaded(c, "recorder", "append")
    OBVIOUS
  <2> PICK n : n = [m EXCEPT !.txs = @ + 1]
    OBVIOUS
  <2>1. IsManifest(n) /\ n.session = m.session /\ (file[c] # NoFile => m = file[c])
    BY LoadedForm, OneMoreForm
  <2>2. Retires(c, n)
    BY <1>3 DEF AppendRetire
  <2>3. /\ draft[c] = NoFile /\ draft'[c] = n /\ file'[c] = NoFile
        /\ \A b \in Cassettes \ {c} : draft'[b] = draft[b] /\ file'[b] = file[b]
    BY <1>1, <2>1, <2>2, Writes
  <2>4. file[c] # NoFile /\ n.session = file[c].session
    BY <2>1, <2>3 DEF DigestsInv, Locked
  <2>5. \A b \in Cassettes : Names(file'[b]) /\ Names(draft'[b])
    BY <2>3, <2>4 DEF NamesInv, Names
  <2>6. \A meta : FitsFile(file[c], meta) => FitsFile(file'[c], meta) /\ FitsFile(draft'[c], meta)
    BY <2>3, <2>4 DEF FitsFile
  <2>7. \A p \in Procs : proc[p].phase = "installChild" => proc[p].child # c
    BY <2>3 DEF DigestsInv, Locked, Installing
  <2> QED
    BY <1>2, <2>3, <2>5, <2>6, <2>7
<1>4. CASE AppendInstall(c)
  <2>1. /\ draft'[c] = NoFile /\ file'[c] = draft[c]
        /\ \A b \in Cassettes \ {c} : draft'[b] = draft[b] /\ file'[b] = file[b]
    BY <1>1, <1>4, Writes DEF AppendInstall
  <2>2. \A b \in Cassettes : Names(file'[b]) /\ Names(draft'[b])
    BY <2>1 DEF NamesInv, Names
  <2>3. \A meta : FitsFile(draft[c], meta) => FitsFile(file'[c], meta) /\ FitsFile(draft'[c], meta)
    BY <2>1 DEF FitsFile
  <2>4. \A p \in Procs : proc[p].phase = "installChild" => proc[p].child # c
    BY <1>4 DEF AppendInstall, Recording, Installing
  <2> QED
    BY <1>2, <2>1, <2>2, <2>3, <2>4
<1> QED
  BY <1>3, <1>4

LEMMA KillKeepsNames ==
    ASSUME NestedTyped, NamesInv, NEW p \in Procs, KillLink(p)
    PROVE  NamesInv'
<1> SUFFICES ASSUME ~raced', cut' = {} PROVE NamesInv'
  BY DEF NamesInv
<1>1. PICK left : left = {c \in Cassettes : Installing(p, c)}
  OBVIOUS
<1>2. /\ ~raced /\ cut = {} /\ left = {} /\ file' = file
      /\ draft' = [c \in Cassettes |-> IF c \in left THEN NoFile ELSE draft[c]]
  BY <1>1 DEF KillLink
<1>3. \A c \in Cassettes : draft'[c] = draft[c]
  BY <1>2
<1>4. /\ proc'[p].phase = "idle" /\ proc[p] # Idle
      /\ \A q \in Procs \ {p} : proc'[q] = proc[q]
  BY DEF KillLink, NestedTyped, Idle, LinkAt
<1>5. \A q \in Procs \ {p} : proc'[q] = Idle
  BY <1>2, <1>4 DEF NamesInv
<1>6. \A c \in Cassettes : Names(file'[c]) /\ Names(draft'[c])
  BY <1>2, <1>3 DEF NamesInv, Names
<1> QED
  BY <1>2, <1>4, <1>5, <1>6, OneLink

\* link_child_cassette: while links do not overlap and no writer dies between
\* its renames, every digest a session holds was taken of a manifest that names
\* it as its parent, one level down, in whatever order cassettes are linked,
\* linked again and appended to.
THEOREM DigestsName == Spec => []DigestsNameParent
<1>1. Init => NamesInv
  BY ManifestIsThere DEF Init, NamesInv, Names, FitsFile, Manifest, Idle, LinkAt
<1>2. ASSUME UNCHANGED vars, NamesInv PROVE NamesInv'
  BY <1>2 DEF vars, NamesInv, Names, NamedBy, Fits, FitsFile
<1>3. ASSUME NamesInv, NEW c \in Cassettes, KillAppend(c) PROVE NamesInv'
  BY <1>3 DEF KillAppend, NamesInv
<1>4. NestedTyped /\ DigestsInv /\ NamesInv /\ [Next]_vars => NamesInv'
  BY <1>2, <1>3, BeginKeepsNames, LinkKeepsNames, AppendKeepsNames, KillKeepsNames DEF Next
<1> QED
  BY <1>1, <1>4, NamedIsStated, NestedInvariant, DigestsInvariant, PTL DEF Spec

=============================================================================
