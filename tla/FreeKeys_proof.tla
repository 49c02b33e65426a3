--------------------------- MODULE FreeKeys_proof ---------------------------
(***************************************************************************)
(* Proofs about FreeKeys: every variable keeps its type; whatever          *)
(* processes race on the file, what it says is spent was really spent; the *)
(* books balance while calls do not overlap; and a torn file stays torn.   *)
(***************************************************************************)
EXTENDS FreeKeys, FiniteSetTheorems, TLAPS

USE DEF history, Idle, Call, Goes, Saves, Text, NotesRace

\* The copy a process is about to write says no more is spent than was, but
\* for the unit it spends itself.
HonestCopy(p) ==
    \A t \in DOMAIN proc[p].records :
        Quota - proc[p].records[t] <=
            Charged(t) + IF proc[p].op = "gate" /\ proc[p].token = t THEN 1 ELSE 0

CopiesHonest ==
    \A p \in Procs : proc[p].phase \in {"open", "write"} => HonestCopy(p)

\* A call has an operation and a token, one that was drawn if it is to be
\* created, and it writes to a file that is there.
CallsAreWhole ==
    \A p \in Procs : proc[p].phase # "idle" =>
        /\ proc[p].token \in Tokens
        /\ proc[p].op \in {"create", "gate"}
        /\ proc[p].op = "create" => proc[p].token \in minted
        /\ proc[p].phase \in {"get", "consume"} => proc[p].op = "gate"
        /\ proc[p].phase = "write" => file # NoFile

KeysInv == TypeOK /\ CopiesHonest /\ CallsAreWhole /\ NeverShortchanged

-----------------------------------------------------------------------------
(* Records *)

\* Records map tokens to what is left of the quota.
LEMMA RecordsMap ==
    ASSUME NEW r \in Records
    PROVE  (\A u \in DOMAIN r : r[u] \in 0 .. Quota) /\ DOMAIN r \subseteq Tokens
BY DEF Records

\* Adding a key to the records, or spending a unit of one that has some,
\* gives records.
LEMMA RecordsChange ==
    ASSUME NEW r \in Records, NEW t \in Tokens
    PROVE  /\ Added(r, t) \in Records
           /\ DOMAIN Added(r, t) = DOMAIN r \cup {t}
           /\ t \in DOMAIN r /\ ~Short(r, t) =>
                 Spent(r, t) \in Records /\ DOMAIN Spent(r, t) = DOMAIN r
<1>1. PICK S \in SUBSET Tokens : r \in [S -> 0 .. Quota]
  BY DEF Records
<1>2. Quota \in Nat /\ Quota > 0
  BY FreeKeysAssumption
<1>3. Added(r, t) \in [S \cup {t} -> 0 .. Quota]
  BY <1>1, <1>2 DEF Added
<1>4. ASSUME t \in DOMAIN r, ~Short(r, t)
      PROVE  Spent(r, t) \in [S -> 0 .. Quota]
  <2>1. r[t] \in 0 .. Quota /\ r[t] >= 1
    BY <1>1, <1>2, <1>4 DEF Short
  <2> QED
    BY <1>1, <1>2, <1>4, <2>1 DEF Spent
<1> QED
  BY <1>1, <1>3, <1>4 DEF Records

\* No records are records.
LEMMA NoRecordsAreRecords == NoRecords \in Records /\ DOMAIN NoRecords = {}
<1>1. NoRecords \in [{} -> 0 .. Quota] /\ DOMAIN NoRecords = {}
  BY DEF NoRecords
<1> QED
  BY <1>1 DEF Records

\* What _load returns is records, and only a whole file gives any.
LEMMA LoadedRecords ==
    ASSUME TypeOK
    PROVE  Loaded \in Records
           /\ \A t \in DOMAIN Loaded : Loads => Whole /\ Loaded = file.text
<1> QED
  BY NoRecordsAreRecords, FreeKeysAssumption DEF Loaded, Loads, Whole, TypeOK, Texts

\* The length of a text is a number.
LEMMA SizeIsNat ==
    ASSUME NEW r \in Records
    PROVE  Cardinality(DOMAIN r) \in Nat
<1>1. DOMAIN r \subseteq Tokens
  BY DEF Records
<1> QED
  BY <1>1, FreeKeysAssumption, FS_Subset, FS_CardinalityType

-----------------------------------------------------------------------------
(* The type invariant *)

\* The initial state is typed.
LEMMA InitType == Init => TypeOK
<1> SUFFICES ASSUME Init PROVE TypeOK
  OBVIOUS
<1>3. proc \in [Procs -> [op : {"none", "create", "gate"}, phase : Phases,
                          token : Tokens \cup {NoToken}, records : Records]]
  BY NoRecordsAreRecords DEF Init, Phases
<1>4. requests \in 0 .. MaxRequests /\ kills \in 0 .. MaxKills
  BY FreeKeysAssumption DEF Init
<1> QED
  BY <1>3, <1>4 DEF Init, TypeOK

\* A step keeps the types, and the shape of calls.
LEMMA NextType ==
    ASSUME TypeOK, CallsAreWhole, [Next]_vars
    PROVE  TypeOK' /\ CallsAreWhole'
<1> USE DEF TypeOK, CallsAreWhole, Phases, Outcomes
<1>1. ASSUME NEW p \in Procs, NEW t \in Tokens, Create(p, t)
      PROVE  TypeOK' /\ CallsAreWhole'
  BY <1>1, NoRecordsAreRecords DEF Create
<1>2. ASSUME NEW p \in Procs, NEW t \in Tokens, Gate(p, t)
      PROVE  TypeOK' /\ CallsAreWhole'
  BY <1>2, NoRecordsAreRecords, FreeKeysAssumption DEF Gate
<1>3. ASSUME NEW p \in Procs, LoadForCreate(p)
      PROVE  TypeOK' /\ CallsAreWhole'
  <2>1. Added(Loaded, proc[p].token) \in Records
    BY <1>3, LoadedRecords, RecordsChange DEF LoadForCreate
  <2> QED
    BY <1>3, <2>1 DEF LoadForCreate
<1>4. ASSUME NEW p \in Procs, Get(p)
      PROVE  TypeOK' /\ CallsAreWhole'
  BY <1>4 DEF Get
<1>5. ASSUME NEW p \in Procs, Consume(p)
      PROVE  TypeOK' /\ CallsAreWhole'
  <2>1. CASE Goes(p, "raised") \/ Goes(p, "exhausted")
    BY <1>5, <2>1 DEF Consume
  <2>2. CASE /\ proc[p].token \in DOMAIN Loaded /\ ~Short(Loaded, proc[p].token)
             /\ Saves(p, Spent(Loaded, proc[p].token))
    <3>1. Spent(Loaded, proc[p].token) \in Records
      BY <1>5, <2>2, LoadedRecords, RecordsChange DEF Consume
    <3> QED
      BY <1>5, <2>2, <3>1 DEF Consume
  <2> QED
    BY <1>5, <2>1, <2>2 DEF Consume
<1>6. ASSUME NEW p \in Procs, Open(p)
      PROVE  TypeOK' /\ CallsAreWhole'
  BY <1>6, FreeKeysAssumption DEF Open, Texts
<1>7. ASSUME NEW p \in Procs, Write(p)
      PROVE  TypeOK' /\ CallsAreWhole'
  <2>1. proc[p].records \in Records /\ proc[p].token \in Tokens
    BY <1>7 DEF Write
  <2>2. Cardinality(DOMAIN proc[p].records) \in Nat
    BY <2>1, SizeIsNat
  <2>3. file' \in Texts /\ file' # NoFile
    BY <1>7, <2>1, <2>2, FreeKeysAssumption DEF Write, Overwritten, Texts
  <2> QED
    BY <1>7, <2>1, <2>3 DEF Write
<1>11. ASSUME NEW p \in Procs, Return(p)
       PROVE  TypeOK' /\ CallsAreWhole'
  BY <1>11 DEF Return
<1>8. ASSUME NEW p \in Procs, Finish(p)
      PROVE  TypeOK' /\ CallsAreWhole'
  BY <1>8, NoRecordsAreRecords DEF Finish
<1>9. ASSUME NEW p \in Procs, Kill(p)
      PROVE  TypeOK' /\ CallsAreWhole'
  BY <1>9, NoRecordsAreRecords, FreeKeysAssumption DEF Kill, Saved
<1>10. CASE UNCHANGED vars
  BY <1>10 DEF vars
<1> QED
  BY <1>1, <1>2, <1>3, <1>4, <1>5, <1>6, <1>7, <1>8, <1>9, <1>10, <1>11 DEF Next


-----------------------------------------------------------------------------
(* What was charged *)

\* The gates that have spent a unit of t and not returned.
InFlight(t) == {p \in Procs : Saved(p) /\ proc[p].token = t}

LEMMA InFlightIsFinite ==
    ASSUME NEW t
    PROVE  /\ IsFiniteSet(InFlight(t)) /\ Cardinality(InFlight(t)) \in Nat
           /\ IsFiniteSet(InFlight(t)') /\ Cardinality(InFlight(t)') \in Nat
<1>1. InFlight(t) \subseteq Procs /\ InFlight(t)' \subseteq Procs
  BY DEF InFlight
<1> QED
  BY <1>1, FreeKeysAssumption, FS_Subset, FS_CardinalityType

LEMMA ChargedIsNat ==
    ASSUME TypeOK, NEW t \in Tokens
    PROVE  Charged(t) \in Nat
<1>1. Charged(t) = admitted[t] + wasted[t] + Cardinality(InFlight(t))
  BY DEF Charged, InFlight
<1> QED
  BY <1>1, InFlightIsFinite DEF TypeOK

\* A process whose gate comes to have spent a unit, or ceases to be in flight.
LEMMA InFlightChanges ==
    ASSUME NEW p \in Procs, NEW t,
           \A q \in Procs \ {p} : proc'[q] = proc[q]
    PROVE  /\ p \in InFlight(t) /\ p \notin InFlight(t)' =>
                 Cardinality(InFlight(t)) = Cardinality(InFlight(t)') + 1
           /\ p \notin InFlight(t) /\ p \in InFlight(t)' =>
                 Cardinality(InFlight(t)') = Cardinality(InFlight(t)) + 1
           /\ (p \in InFlight(t) <=> p \in InFlight(t)') => InFlight(t)' = InFlight(t)
<1>1. \A q \in Procs \ {p} : q \in InFlight(t) <=> q \in InFlight(t)'
  BY DEF InFlight, Saved
<1>2. InFlight(t) \subseteq Procs /\ InFlight(t)' \subseteq Procs
  BY DEF InFlight
<1>3. ASSUME p \in InFlight(t), p \notin InFlight(t)'
      PROVE  Cardinality(InFlight(t)) = Cardinality(InFlight(t)') + 1
  <2>1. InFlight(t) = InFlight(t)' \cup {p}
    BY <1>1, <1>2, <1>3
  <2> QED
    BY <1>3, <2>1, InFlightIsFinite, FS_AddElement
<1>4. ASSUME p \notin InFlight(t), p \in InFlight(t)'
      PROVE  Cardinality(InFlight(t)') = Cardinality(InFlight(t)) + 1
  <2>1. InFlight(t)' = InFlight(t) \cup {p}
    BY <1>1, <1>2, <1>4
  <2> QED
    BY <1>4, <2>1, InFlightIsFinite, FS_AddElement
<1>5. ASSUME p \in InFlight(t) <=> p \in InFlight(t)' PROVE InFlight(t)' = InFlight(t)
  BY <1>1, <1>2, <1>5
<1> QED
  BY <1>3, <1>4, <1>5

\* Only the write of a gate charges, one unit of its token: a return and a
\* kill move the unit.
LEMMA OnlyWritesCharge ==
    ASSUME TypeOK, CallsAreWhole, [Next]_vars, NEW t \in Tokens
    PROVE  /\ Charged(t) \in Nat /\ Charged(t)' \in Nat
           /\ \A p \in Procs : Write(p) =>
                 Charged(t)' = Charged(t) + IF proc[p].op = "gate" /\ proc[p].token = t
                                            THEN 1 ELSE 0
           /\ (~\E p \in Procs : Write(p)) => Charged(t)' = Charged(t)
<1> DEFINE n == Cardinality(InFlight(t))
<1>1. /\ Charged(t) = admitted[t] + wasted[t] + n
      /\ Charged(t)' = admitted'[t] + wasted'[t] + n'
  BY DEF Charged, InFlight
<1>2. TypeOK'
  BY NextType
<1>3. /\ admitted[t] \in Nat /\ wasted[t] \in Nat /\ n \in Nat
      /\ admitted'[t] \in Nat /\ wasted'[t] \in Nat /\ n' \in Nat
  BY <1>2, InFlightIsFinite DEF TypeOK
<1> HIDE DEF n
<1>4. ASSUME NEW p \in Procs, Write(p)
      PROVE  Charged(t)' = Charged(t) + IF proc[p].op = "gate" /\ proc[p].token = t
                                        THEN 1 ELSE 0
  <2>1. /\ \A q \in Procs \ {p} : proc'[q] = proc[q]
        /\ UNCHANGED <<admitted, wasted>>
        /\ p \notin InFlight(t)
        /\ p \in InFlight(t)' <=> (proc[p].op = "gate" /\ proc[p].token = t)
    BY <1>4 DEF Write, TypeOK, InFlight, Saved
  <2>2. n' = n + IF proc[p].op = "gate" /\ proc[p].token = t THEN 1 ELSE 0
    BY <1>3, <2>1, InFlightChanges DEF n
  <2> QED
    BY <1>1, <1>3, <2>1, <2>2
<1>5. ASSUME NEW p \in Procs, Return(p)
      PROVE  Charged(t)' = Charged(t)
  <2>1. /\ \A q \in Procs \ {p} : proc'[q] = proc[q]
        /\ wasted' = wasted /\ p \notin InFlight(t)'
        /\ p \in InFlight(t) <=> (proc[p].op = "gate" /\ proc[p].token = t)
    BY <1>5 DEF Return, TypeOK, InFlight, Saved
  <2>2. admitted'[t] = admitted[t] + IF proc[p].op = "gate" /\ proc[p].token = t THEN 1 ELSE 0
    BY <1>3, <1>5 DEF Return, TypeOK
  <2>3. n = n' + IF proc[p].op = "gate" /\ proc[p].token = t THEN 1 ELSE 0
    BY <1>3, <2>1, InFlightChanges DEF n
  <2> QED
    BY <1>1, <1>3, <2>1, <2>2, <2>3
<1>6. ASSUME NEW p \in Procs, Kill(p)
      PROVE  Charged(t)' = Charged(t)
  <2>1. /\ \A q \in Procs \ {p} : proc'[q] = proc[q]
        /\ admitted' = admitted /\ p \notin InFlight(t)'
        /\ p \in InFlight(t) <=> (Saved(p) /\ proc[p].token = t)
    BY <1>6 DEF Kill, TypeOK, InFlight, Saved
  <2>2. wasted'[t] = wasted[t] + IF Saved(p) /\ proc[p].token = t THEN 1 ELSE 0
    BY <1>3, <1>6 DEF Kill, TypeOK
  <2>3. n = n' + IF Saved(p) /\ proc[p].token = t THEN 1 ELSE 0
    BY <1>3, <2>1, InFlightChanges DEF n
  <2> QED
    BY <1>1, <1>3, <2>1, <2>2, <2>3
<1>7. ASSUME NEW p \in Procs,
             \/ \E u \in Tokens : Create(p, u) \/ Gate(p, u)
             \/ LoadForCreate(p) \/ Get(p) \/ Consume(p) \/ Open(p) \/ Finish(p)
      PROVE  Charged(t)' = Charged(t)
  <2>1. /\ \A q \in Procs \ {p} : proc'[q] = proc[q]
        /\ UNCHANGED <<admitted, wasted>>
        /\ p \notin InFlight(t)' /\ p \notin InFlight(t)
    BY <1>7 DEF Create, Gate, LoadForCreate, Get, Consume, Open, Finish, TypeOK, InFlight, Saved,
                Outcomes
  <2>2. n' = n
    BY <2>1, InFlightChanges DEF n
  <2> QED
    BY <1>1, <2>1, <2>2
<1>8. ASSUME UNCHANGED vars PROVE Charged(t)' = Charged(t)
  <2>1. admitted'[t] = admitted[t] /\ wasted'[t] = wasted[t]
    BY <1>8 DEF vars
  <2>2. InFlight(t)' = InFlight(t)
    BY <1>8 DEF vars, InFlight, Saved
  <2>3. n' = n
    BY <2>2 DEF n
  <2> QED
    BY <1>1, <2>1, <2>3
<1>9. (~\E p \in Procs : Write(p)) => Charged(t)' = Charged(t)
  BY <1>5, <1>6, <1>7, <1>8 DEF Next
<1> QED
  BY <1>1, <1>3, <1>4, <1>9

-----------------------------------------------------------------------------
(* What is spent was charged *)

\* The records of a typed process are of tokens.
LEMMA CopiesTyped ==
    ASSUME TypeOK, NEW q \in Procs, NEW u \in DOMAIN proc[q].records
    PROVE  u \in Tokens /\ proc[q].records[u] \in 0 .. Quota
<1>1. proc[q].records \in Records
  BY DEF TypeOK
<1> QED
  BY <1>1, RecordsMap

\* A copy that stays is as honest when no less is charged.
LEMMA CopyStaysHonest ==
    ASSUME KeysInv, [Next]_vars, NEW q \in Procs, HonestCopy(q),
           proc'[q].records = proc[q].records, proc'[q].op = proc[q].op,
           proc'[q].token = proc[q].token
    PROVE  HonestCopy(q)'
<1>1. ASSUME NEW u \in DOMAIN proc[q].records
      PROVE  Quota - proc[q].records[u] <=
                 Charged(u)' + IF proc[q].op = "gate" /\ proc[q].token = u THEN 1 ELSE 0
  <2>1. u \in Tokens /\ proc[q].records[u] \in 0 .. Quota
    BY CopiesTyped DEF KeysInv
  <2>2. Charged(u) \in Nat /\ Charged(u)' \in Nat /\ Charged(u)' >= Charged(u)
    <3>1. \/ Charged(u)' = Charged(u)
          \/ \E p \in Procs : Charged(u)' = Charged(u) + IF proc[p].op = "gate" /\ proc[p].token = u
                                                        THEN 1 ELSE 0
      BY <2>1, OnlyWritesCharge DEF KeysInv
    <3>2. Charged(u) \in Nat /\ Charged(u)' \in Nat
      BY <2>1, OnlyWritesCharge DEF KeysInv
    <3> QED
      BY <3>1, <3>2
  <2> QED
    BY <2>1, <2>2, FreeKeysAssumption DEF HonestCopy
<1> QED
  BY <1>1 DEF HonestCopy

\* The copy a call is about to write, when it just loaded it.
LEMMA NewCopyIsHonest ==
    ASSUME KeysInv, NEW p \in Procs, LoadForCreate(p) \/ Consume(p),
           proc'[p].phase \in {"open", "write"}
    PROVE  HonestCopy(p)'
<1> USE DEF KeysInv
<1>1. \A u \in Tokens : Charged(u) \in Nat /\ Charged(u)' = Charged(u)
  <2>1. [Next]_vars /\ ~\E q \in Procs : Write(q)
    BY DEF Next, LoadForCreate, Consume, Write, TypeOK
  <2> QED
    BY <2>1, OnlyWritesCharge
<1> PICK t \in Tokens : t = proc[p].token
  BY DEF LoadForCreate, Consume, TypeOK, CallsAreWhole
<1>2. Loads /\ Loaded \in Records /\ Quota \in Nat
  BY LoadedRecords, FreeKeysAssumption DEF LoadForCreate, Consume, TypeOK
<1>3. \A u \in DOMAIN Loaded : /\ Loaded[u] \in 0 .. Quota /\ u \in Tokens
                               /\ Quota - Loaded[u] <= Charged(u)
  BY <1>2, LoadedRecords, RecordsMap DEF NeverShortchanged
<1>4. proc'[p].token = t /\ proc'[p].op = proc[p].op
  BY DEF LoadForCreate, Consume, TypeOK
<1>5. CASE LoadForCreate(p)
  <2>1. proc'[p].records = Added(Loaded, t)
    BY <1>5 DEF LoadForCreate, TypeOK
  <2>2. DOMAIN Added(Loaded, t) = DOMAIN Loaded \cup {t}
    BY <1>2, RecordsChange
  <2>3. ASSUME NEW u \in DOMAIN Loaded \cup {t}
        PROVE  /\ u \in Tokens /\ Added(Loaded, t)[u] \in 0 .. Quota
               /\ Quota - Added(Loaded, t)[u] <= Charged(u)
    BY <1>1, <1>2, <1>3, <2>3 DEF Added
  <2>4. ASSUME NEW u \in DOMAIN Added(Loaded, t), NEW k \in {0, 1}
        PROVE  Quota - Added(Loaded, t)[u] <= Charged(u)' + k
    BY <1>1, <1>2, <2>2, <2>3
  <2> QED
    BY <2>1, <2>4 DEF HonestCopy
<1>6. CASE Consume(p)
  <2>1. /\ t \in DOMAIN Loaded /\ ~Short(Loaded, t)
        /\ proc'[p].records = Spent(Loaded, t) /\ proc'[p].op = "gate"
    BY <1>4, <1>6 DEF Consume, TypeOK, CallsAreWhole
  <2>2. DOMAIN Spent(Loaded, t) = DOMAIN Loaded
    BY DEF Spent
  <2>3. ASSUME NEW u \in DOMAIN Loaded
        PROVE  Quota - Spent(Loaded, t)[u] <= Charged(u)' + IF t = u THEN 1 ELSE 0
    BY <1>1, <1>2, <1>3, <2>1, <2>3 DEF Spent
  <2> QED
    BY <1>4, <2>1, <2>2, <2>3 DEF HonestCopy
<1> QED
  BY <1>5, <1>6

\* A step that charges nothing, leaves the file and lets no copy be written or
\* request be refused that was not before.
LEMMA QuietKeepsInv ==
    ASSUME KeysInv, [Next]_vars, \A p \in Procs : ~Write(p),
           file' = file \/ ~Whole',
           \A q \in Procs : \/ /\ proc'[q].records = proc[q].records
                               /\ proc'[q].op = proc[q].op /\ proc'[q].token = proc[q].token
                               /\ proc'[q].phase \in {"open", "write"} =>
                                     proc[q].phase \in {"open", "write"}
                               /\ proc'[q].phase = "exhausted" => proc[q].phase = "exhausted"
                            \/ proc'[q].phase \notin {"open", "write", "exhausted"}
                            \/ HonestCopy(q)' /\ proc'[q].phase # "exhausted"
    PROVE  CopiesHonest' /\ NeverShortchanged'
<1> USE DEF KeysInv
<1>1. \A u \in Tokens : Charged(u)' = Charged(u)
  BY OnlyWritesCharge
<1>2. CopiesHonest'
  BY CopyStaysHonest DEF CopiesHonest
<1>3. ASSUME Whole' PROVE \A u \in DOMAIN file'.text : Quota - file'.text[u] <= Charged(u)'
  <2>1. file' = file /\ Whole /\ DOMAIN file.text \subseteq Tokens
    BY <1>3, FreeKeysAssumption, RecordsMap DEF Whole, TypeOK, Texts
  <2> QED
    BY <1>1, <2>1 DEF NeverShortchanged
<1>4. ASSUME NEW q \in Procs, proc'[q].phase = "exhausted"
      PROVE  Charged(proc[q].token)' >= Quota /\ proc'[q].token = proc[q].token
  <2> PICK t \in Tokens : t = proc[q].token
    BY <1>4 DEF CallsAreWhole
  <2>1. proc[q].phase = "exhausted" /\ proc'[q].token = t
    BY <1>4
  <2>2. Charged(t) >= Quota
    BY <2>1 DEF NeverShortchanged
  <2> QED
    BY <1>1, <2>1, <2>2
<1> QED
  BY <1>2, <1>3, <1>4 DEF NeverShortchanged

\* A write puts an honest copy in place of the file.
LEMMA WriteKeepsInv ==
    ASSUME KeysInv, Next, NEW p \in Procs, Write(p)
    PROVE  CopiesHonest' /\ NeverShortchanged'
<1> USE DEF KeysInv
<1>1. \A q \in Procs :
          /\ proc'[q].records = proc[q].records
          /\ proc'[q].op = proc[q].op /\ proc'[q].token = proc[q].token
          /\ proc'[q].phase \in {"open", "write", "exhausted"} => proc'[q].phase = proc[q].phase
  BY DEF Write, TypeOK
<1>2. \A u \in Tokens :
          /\ Charged(u) \in Nat
          /\ Charged(u)' = Charged(u) + IF proc[p].op = "gate" /\ proc[p].token = u
                                        THEN 1 ELSE 0
  BY OnlyWritesCharge
<1>3. CopiesHonest'
  BY <1>1, CopyStaysHonest DEF CopiesHonest
<1>4. ASSUME Whole' PROVE \A u \in DOMAIN file'.text : Quota - file'.text[u] <= Charged(u)'
  <2>1. file'.text = proc[p].records
    BY <1>4 DEF Write, Overwritten, Whole
  <2>2. HonestCopy(p)
    BY DEF Write, CopiesHonest
  <2>3. ASSUME NEW u \in DOMAIN proc[p].records
        PROVE  Quota - proc[p].records[u] <= Charged(u)'
    BY <1>2, <2>2, <2>3, CopiesTyped DEF HonestCopy
  <2> QED
    BY <2>1, <2>3
<1>5. ASSUME NEW q \in Procs, proc'[q].phase = "exhausted"
      PROVE  Charged(proc[q].token)' >= Quota /\ proc'[q].token = proc[q].token
  <2> PICK t \in Tokens : t = proc[q].token
    BY <1>1, <1>5 DEF CallsAreWhole
  <2>1. proc[q].phase = "exhausted" /\ proc'[q].token = t
    BY <1>1, <1>5
  <2>2. Charged(t) >= Quota
    BY <2>1 DEF NeverShortchanged
  <2>3. Charged(t) \in Nat /\ Charged(t)' \in Nat /\ Charged(t)' >= Charged(t) /\ Quota \in Nat
    <3>1. Charged(t) \in Nat /\ Charged(t)' \in Nat
      BY OnlyWritesCharge
    <3> QED
      BY <1>2, <3>1, FreeKeysAssumption
  <2> QED
    BY <2>1, <2>2, <2>3
<1> QED
  BY <1>3, <1>4, <1>5 DEF NeverShortchanged

\* consume refuses a token only when the whole quota was charged.
LEMMA ConsumeKeepsInv ==
    ASSUME KeysInv, Next, NEW p \in Procs, Consume(p)
    PROVE  CopiesHonest' /\ NeverShortchanged'
<1> USE DEF KeysInv
<1>1. CASE proc'[p].phase # "exhausted"
  <2>1. /\ file' = file /\ \A q \in Procs : ~Write(q)
        /\ \A q \in Procs \ {p} : proc'[q] = proc[q]
    BY DEF Consume, Write, TypeOK
  <2> QED
    BY <1>1, <2>1, NewCopyIsHonest, QuietKeepsInv
<1>2. CASE proc'[p].phase = "exhausted"
  <2> PICK t \in Tokens : t = proc[p].token
    BY DEF Consume, CallsAreWhole
  <2>1. /\ Loads /\ t \in DOMAIN Loaded /\ Short(Loaded, t) /\ proc'[p].token = t
        /\ file' = file /\ \A q \in Procs \ {p} : proc'[q] = proc[q]
        /\ ~\E q \in Procs : Write(q)
    BY <1>2 DEF Consume, TypeOK, Write
  <2>2. Whole /\ Loaded = file.text /\ Loaded \in Records
    BY <2>1, LoadedRecords
  <2>3. Charged(t) >= Quota
    BY <2>1, <2>2, RecordsMap, ChargedIsNat, FreeKeysAssumption DEF NeverShortchanged, Short
  <2>4. \A u \in Tokens : Charged(u)' = Charged(u)
    BY <2>1, OnlyWritesCharge
  <2>5. CopiesHonest'
    BY <1>2, <2>1, CopyStaysHonest DEF CopiesHonest
  <2>6. ASSUME NEW q \in Procs, proc'[q].phase = "exhausted"
        PROVE  Charged(proc[q].token)' >= Quota /\ proc'[q].token = proc[q].token
    <3> PICK u \in Tokens : u = proc[q].token
      BY <2>1, <2>6 DEF CallsAreWhole, Consume
    <3>1. proc'[q].token = u /\ Charged(u) >= Quota
      BY <2>1, <2>3, <2>6 DEF NeverShortchanged
    <3> QED
      BY <2>4, <3>1
  <2>7. Whole' => \A u \in DOMAIN file'.text : Quota - file'.text[u] <= Charged(u)'
    BY <2>1, <2>2, <2>4, RecordsMap DEF NeverShortchanged
  <2> QED
    BY <2>5, <2>6, <2>7 DEF NeverShortchanged
<1> QED
  BY <1>1, <1>2

\* A step keeps copies and file honest.
LEMMA NextHonest ==
    ASSUME KeysInv, [Next]_vars
    PROVE  CopiesHonest' /\ NeverShortchanged'
<1> USE DEF KeysInv
<1>1. ASSUME NEW p \in Procs, LoadForCreate(p) PROVE CopiesHonest' /\ NeverShortchanged'
  <2>1. /\ file' = file /\ proc'[p].phase # "exhausted" /\ \A q \in Procs : ~Write(q)
        /\ \A q \in Procs \ {p} : proc'[q] = proc[q]
    BY <1>1 DEF LoadForCreate, Write, TypeOK
  <2> QED
    BY <1>1, <2>1, NewCopyIsHonest, QuietKeepsInv
<1>2. ASSUME NEW p \in Procs, Open(p) PROVE CopiesHonest' /\ NeverShortchanged'
  <2>1. /\ ~Whole' /\ \A q \in Procs : ~Write(q)
        /\ \A q \in Procs : /\ proc'[q].records = proc[q].records
                            /\ proc'[q].op = proc[q].op /\ proc'[q].token = proc[q].token
                            /\ proc'[q].phase \in {"open", "write"} =>
                                  proc[q].phase \in {"open", "write"}
                            /\ proc'[q].phase = "exhausted" => proc[q].phase = "exhausted"
    BY <1>2 DEF Open, Write, TypeOK, Whole
  <2> QED
    BY <2>1, QuietKeepsInv
<1>3. ASSUME NEW p \in Procs,
             \/ \E t \in Tokens : Create(p, t) \/ Gate(p, t)
             \/ Get(p) \/ Return(p) \/ Finish(p) \/ Kill(p)
      PROVE  CopiesHonest' /\ NeverShortchanged'
  <2>1. /\ file' = file /\ \A q \in Procs : ~Write(q)
        /\ proc'[p].phase \notin {"open", "write", "exhausted"}
        /\ \A q \in Procs \ {p} : proc'[q] = proc[q]
    BY <1>3 DEF Create, Gate, Get, Return, Finish, Kill, Write, TypeOK
  <2> QED
    BY <2>1, QuietKeepsInv
<1>4. CASE UNCHANGED vars
  <2>1. file' = file /\ proc' = proc
    BY <1>4 DEF vars
  <2>2. \A q \in Procs : ~Write(q)
    BY <1>4 DEF vars, Write, TypeOK
  <2> QED
    BY <2>1, <2>2, QuietKeepsInv
<1> QED
  BY <1>1, <1>2, <1>3, <1>4, ConsumeKeepsInv, WriteKeepsInv DEF Next

\* The initial state satisfies the invariant.
LEMMA InitInv == Init => KeysInv
<1>1. ASSUME Init PROVE CopiesHonest /\ CallsAreWhole /\ NeverShortchanged
  BY <1>1 DEF Init, CopiesHonest, CallsAreWhole, NeverShortchanged, Whole
<1> QED
  BY <1>1, InitType DEF KeysInv

\* The keys file is typed and honest in every reachable state, for any
\* number of processes, keys and requests, any quota and any kills.
THEOREM KeysInvariant == Spec => []KeysInv
<1>1. KeysInv /\ [Next]_vars => KeysInv'
  BY NextType, NextHonest DEF KeysInv
<1> QED
  BY InitInv, <1>1, PTL DEF Spec

\* Every variable of FreeKeys keeps its type.
THEOREM KeysTyped == Spec => []TypeOK
<1>1. KeysInv => TypeOK
  BY DEF KeysInv
<1> QED
  BY <1>1, KeysInvariant, PTL

\* Whatever processes race, no request of the gate is refused as exhausted
\* before the whole quota of its key was spent on requests that were, or are
\* about to be, let through, or on calls that were killed after their write.
THEOREM ClientsAreNotShortchanged == Spec => []NeverShortchanged
<1>1. KeysInv => NeverShortchanged
  BY DEF KeysInv
<1> QED
  BY <1>1, KeysInvariant, PTL


-----------------------------------------------------------------------------
(* The books, while calls do not overlap *)

\* One process is in a call.
Alone == \A p, q \in Procs : proc[p] # Idle /\ proc[q] # Idle => p = q

\* The keys of the records are those create returned, and perhaps some whose
\* create was killed before it did.
Complete(records) == created \subseteq DOMAIN records /\ DOMAIN records \subseteq minted

\* The records account for what was spent of each of their keys.
Balanced(records) == \A t \in DOMAIN records : records[t] + Charged(t) = Quota

\* The records a process is about to write are those of the file and its change.
CopyBalanced(p) ==
    LET r == proc[p].records
        t == proc[p].token
    IN  /\ Complete(r) /\ t \in DOMAIN r
        /\ proc[p].op = "create" => Balanced(r)
        /\ proc[p].op = "gate" =>
              \A u \in DOMAIN r : r[u] + Charged(u) = IF u = t THEN Quota - 1 ELSE Quota

\* What a call knows of the file it found or wrote.
CallBalanced(p) ==
    /\ proc[p].phase = "load" => proc[p].op = "create" /\ Charged(proc[p].token) = 0
    /\ proc[p].phase \in {"open", "write"} => CopyBalanced(p)
    /\ proc[p].phase = "write" => file.size = 0
    /\ proc[p].phase = "saved" /\ proc[p].op = "create" =>
          Whole /\ proc[p].token \in DOMAIN file.text

BooksInv ==
    ~raced =>
        /\ Alone
        /\ \A t \in Tokens : Charged(t) <= Quota /\ (t \notin minted => Charged(t) = 0)
        /\ file = NoFile => created = {}
        /\ Whole => Complete(file.text) /\ Balanced(file.text)
        /\ \A p \in Procs : CallBalanced(p)

\* What a call loads are the books.
LEMMA LoadedBooks ==
    ASSUME TypeOK, BooksInv, ~raced, Loads
    PROVE  Complete(Loaded) /\ Balanced(Loaded)
BY NoRecordsAreRecords DEF BooksInv, Loads, Loaded, Whole, Balanced, Complete

\* A step of a process that is in a call leaves it the only one.
LEMMA StaysAlone ==
    ASSUME Alone, NEW p \in Procs, proc[p] # Idle,
           \A q \in Procs \ {p} : proc'[q] = proc[q]
    PROVE  Alone'
BY DEF Alone

\* Every step but a write leaves what was charged.
LEMMA ChargesStay ==
    ASSUME KeysInv, Next, NEW p \in Procs,
           \/ \E t \in Tokens : Create(p, t) \/ Gate(p, t)
           \/ LoadForCreate(p) \/ Get(p) \/ Consume(p) \/ Open(p)
           \/ Return(p) \/ Finish(p) \/ Kill(p)
    PROVE  \A u \in Tokens : Charged(u)' = Charged(u) /\ Charged(u) \in Nat
<1>1. ~\E q \in Procs : Write(q)
  BY DEF KeysInv, TypeOK, Create, Gate, LoadForCreate, Get, Consume, Open, Return, Finish, Kill,
         Write, Outcomes
<1> QED
  BY <1>1, OnlyWritesCharge DEF KeysInv

\* Records that stay are as balanced when nothing is charged.
LEMMA BalanceStays ==
    ASSUME NEW r \in Records, Complete(r), Balanced(r),
           \A u \in Tokens : Charged(u)' = Charged(u),
           created' = created, minted \subseteq minted', NEW s, s = r
    PROVE  /\ created' \subseteq DOMAIN s /\ DOMAIN s \subseteq minted'
           /\ \A u \in DOMAIN s : s[u] + Charged(u)' = Quota
BY RecordsMap DEF Complete, Balanced

\* A step in which a call begins, while no other is under way.
LEMMA BeginKeepsBooks ==
    ASSUME KeysInv, BooksInv, Next, NEW p \in Procs, NEW t \in Tokens,
           Create(p, t) \/ Gate(p, t)
    PROVE  BooksInv'
<1> SUFFICES ASSUME ~raced' PROVE BooksInv'
  BY DEF BooksInv
<1>1. /\ ~raced /\ proc[p] = Idle /\ \A q \in Procs \ {p} : proc[q] = Idle
      /\ UNCHANGED <<file, created>> /\ minted \subseteq minted'
      /\ \A q \in Procs \ {p} : proc'[q] = Idle
  BY DEF KeysInv, TypeOK, Create, Gate
<1>2. Alone'
  BY <1>1 DEF Alone
<1>3. \A u \in Tokens : Charged(u)' = Charged(u)
  BY ChargesStay
<1>4. proc'[p].phase \in {"load", "get", "remote"}
      /\ (proc'[p].phase = "load" =>
             proc'[p].op = "create" /\ proc'[p].token = t /\ t \notin minted)
  BY DEF KeysInv, TypeOK, Create, Gate
<1>5. \A q \in Procs : CallBalanced(q)'
  <2>1. proc'[p].phase = "load" => Charged(t)' = 0
    BY <1>1, <1>3, <1>4 DEF BooksInv
  <2>2. CallBalanced(p)'
    BY <1>4, <2>1 DEF CallBalanced
  <2>3. ASSUME NEW q \in Procs, q # p PROVE CallBalanced(q)'
    BY <1>1, <2>3 DEF CallBalanced
  <2> QED
    BY <2>2, <2>3
<1>6. Whole' => Complete(file.text)' /\ Balanced(file.text)'
  <2>1. ASSUME Whole' PROVE file.text \in Records /\ Complete(file.text) /\ Balanced(file.text)
                            /\ file' = file
    BY <1>1, <2>1, FreeKeysAssumption DEF KeysInv, TypeOK, BooksInv, Whole, Texts
  <2> QED
    BY <1>1, <1>3, <2>1, BalanceStays DEF Complete, Balanced
<1>7. \A u \in Tokens : Charged(u)' <= Quota /\ (u \notin minted' => Charged(u)' = 0)
  BY <1>1, <1>3 DEF BooksInv
<1> QED
  BY <1>1, <1>2, <1>5, <1>6, <1>7 DEF BooksInv

\* A step of a call that charges nothing and leaves file, created and minted.
LEMMA CallKeepsBooks ==
    ASSUME KeysInv, BooksInv, ~raced, NEW p \in Procs, proc[p] # Idle,
           \A q \in Procs \ {p} : proc'[q] = proc[q],
           \A u \in Tokens : Charged(u)' = Charged(u),
           CallBalanced(p)', file' = file \/ (~Whole' /\ file' # NoFile),
           UNCHANGED <<created, minted, raced>>
    PROVE  BooksInv'
<1>1. Alone'
  BY StaysAlone DEF BooksInv
<1>2. ASSUME NEW q \in Procs, q # p PROVE CallBalanced(q)'
  <2>1. proc'[q] = Idle
    BY <1>2 DEF BooksInv, Alone
  <2> QED
    BY <2>1 DEF CallBalanced
<1>3. ASSUME Whole' PROVE Complete(file.text)' /\ Balanced(file.text)'
  <2>1. file.text \in Records /\ Complete(file.text) /\ Balanced(file.text) /\ file' = file
    BY <1>3, FreeKeysAssumption DEF KeysInv, TypeOK, BooksInv, Whole, Texts
  <2> QED
    BY <2>1, BalanceStays DEF Complete, Balanced
<1> QED
  BY <1>1, <1>2, <1>3 DEF BooksInv

\* A copy stays balanced when nothing is charged.
LEMMA CopyStaysBalanced ==
    ASSUME KeysInv, NEW p \in Procs, CopyBalanced(p),
           \A u \in Tokens : Charged(u)' = Charged(u),
           proc'[p].records = proc[p].records, proc'[p].op = proc[p].op,
           proc'[p].token = proc[p].token, UNCHANGED <<created, minted>>
    PROVE  CopyBalanced(p)'
<1>1. \A u \in DOMAIN proc[p].records : Charged(u)' = Charged(u)
  BY CopiesTyped DEF KeysInv
<1> QED
  BY <1>1 DEF CopyBalanced, Complete, Balanced

LEMMA LoadKeepsBooks ==
    ASSUME KeysInv, BooksInv, Next, NEW p \in Procs, LoadForCreate(p)
    PROVE  BooksInv'
<1> SUFFICES ASSUME ~raced PROVE BooksInv'
  BY DEF BooksInv, LoadForCreate
<1> DEFINE t == proc[p].token
<1>1. /\ proc[p] # Idle /\ \A q \in Procs \ {p} : proc'[q] = proc[q]
      /\ UNCHANGED <<file, created, minted, raced>>
      /\ t \in Tokens /\ t \in minted /\ proc[p].op = "create" /\ Charged(t) = 0
  BY DEF LoadForCreate, KeysInv, TypeOK, CallsAreWhole, BooksInv, CallBalanced
<1>2. \A u \in Tokens : Charged(u)' = Charged(u)
  BY ChargesStay
<1>3. CallBalanced(p)'
  <2>1. CASE ~Loads
    <3>1. proc'[p].phase = "raised"
      BY <2>1 DEF LoadForCreate, KeysInv, TypeOK
    <3> QED
      BY <3>1 DEF CallBalanced
  <2>2. CASE Loads
    <3>1. /\ proc'[p].phase = "open" /\ proc'[p].op = "create" /\ proc'[p].token = t
          /\ proc'[p].records = Added(Loaded, t)
      BY <1>1, <2>2 DEF LoadForCreate, KeysInv, TypeOK
    <3>2. /\ Complete(Loaded) /\ Balanced(Loaded) /\ Quota \in Nat
          /\ DOMAIN Loaded \subseteq Tokens
      BY <2>2, LoadedBooks, LoadedRecords, RecordsMap, FreeKeysAssumption DEF KeysInv
    <3>3. DOMAIN Added(Loaded, t) = DOMAIN Loaded \cup {t}
      BY DEF Added
    <3>4. ASSUME NEW u \in DOMAIN Loaded \cup {t}
          PROVE  Added(Loaded, t)[u] + Charged(u)' = Quota
      BY <1>1, <1>2, <3>2, <3>4 DEF Balanced, Added
    <3>5. CopyBalanced(p)'
      BY <1>1, <3>1, <3>2, <3>3, <3>4 DEF CopyBalanced, Complete, Balanced
    <3> QED
      BY <3>1, <3>5 DEF CallBalanced
  <2> QED
    BY <2>1, <2>2
<1> QED
  BY <1>1, <1>2, <1>3, CallKeepsBooks

LEMMA ConsumeKeepsBooks ==
    ASSUME KeysInv, BooksInv, Next, NEW p \in Procs, Consume(p)
    PROVE  BooksInv'
<1> SUFFICES ASSUME ~raced PROVE BooksInv'
  BY DEF BooksInv, Consume
<1> DEFINE t == proc[p].token
<1>1. /\ proc[p] # Idle /\ \A q \in Procs \ {p} : proc'[q] = proc[q]
      /\ UNCHANGED <<file, created, minted, raced>>
      /\ t \in Tokens /\ proc[p].op = "gate"
  BY DEF Consume, KeysInv, TypeOK, CallsAreWhole
<1>2. \A u \in Tokens : Charged(u)' = Charged(u) /\ Charged(u) \in Nat
  BY ChargesStay
<1>3. CallBalanced(p)'
  <2>1. CASE Goes(p, "raised") \/ Goes(p, "exhausted")
    <3>1. proc'[p].phase \in {"raised", "exhausted"}
      BY <2>1 DEF KeysInv, TypeOK
    <3> QED
      BY <3>1 DEF CallBalanced
  <2>2. CASE Loads /\ t \in DOMAIN Loaded /\ Saves(p, Spent(Loaded, t))
    <3>1. /\ proc'[p].phase = "open" /\ proc'[p].op = "gate" /\ proc'[p].token = t
          /\ proc'[p].records = Spent(Loaded, t)
      BY <1>1, <2>2 DEF KeysInv, TypeOK
    <3>2. /\ Complete(Loaded) /\ Balanced(Loaded) /\ Quota \in Nat
          /\ \A u \in DOMAIN Loaded : Loaded[u] \in 0 .. Quota /\ u \in Tokens
      BY <2>2, LoadedBooks, LoadedRecords, RecordsMap, FreeKeysAssumption DEF KeysInv
    <3>3. /\ DOMAIN Spent(Loaded, t) = DOMAIN Loaded
          /\ \A u \in DOMAIN Loaded :
                Spent(Loaded, t)[u] = IF u = t THEN Loaded[u] - 1 ELSE Loaded[u]
      BY <2>2 DEF Spent
    <3>4. ASSUME NEW u \in DOMAIN Loaded
          PROVE  Spent(Loaded, t)[u] + Charged(u)' = IF u = t THEN Quota - 1 ELSE Quota
      BY <1>2, <3>2, <3>3 DEF Balanced
    <3>5. Complete(proc[p].records)' /\ t \in DOMAIN proc'[p].records
      BY <1>1, <2>2, <3>1, <3>2, <3>3 DEF Complete
    <3>6. \A u \in DOMAIN proc'[p].records :
              proc'[p].records[u] + Charged(u)' = IF u = t THEN Quota - 1 ELSE Quota
      BY <3>1, <3>3, <3>4
    <3>7. CopyBalanced(p)'
      BY <3>1, <3>5, <3>6 DEF CopyBalanced
    <3> QED
      BY <3>1, <3>7 DEF CallBalanced
  <2> QED
    BY <2>1, <2>2 DEF Consume
<1> QED
  BY <1>1, <1>2, <1>3, CallKeepsBooks

LEMMA OpenKeepsBooks ==
    ASSUME KeysInv, BooksInv, Next, NEW p \in Procs, Open(p)
    PROVE  BooksInv'
<1> SUFFICES ASSUME ~raced PROVE BooksInv'
  BY DEF BooksInv, Open
<1>1. /\ proc[p] # Idle /\ \A q \in Procs \ {p} : proc'[q] = proc[q]
      /\ proc'[p] = [proc[p] EXCEPT !.phase = "write"]
      /\ UNCHANGED <<created, minted, raced>> /\ file' = [text |-> Torn, size |-> 0]
      /\ file' # NoFile
  BY FreeKeysAssumption DEF Open, KeysInv, TypeOK, Texts
<1>2. \A u \in Tokens : Charged(u)' = Charged(u)
  BY ChargesStay
<1>3. /\ proc'[p].op = proc[p].op /\ proc'[p].token = proc[p].token
      /\ proc'[p].records = proc[p].records /\ proc'[p].phase = "write"
  BY <1>1 DEF KeysInv, TypeOK
<1>4. CopyBalanced(p)'
  <2>1. CopyBalanced(p)
    BY DEF Open, BooksInv, CallBalanced
  <2> QED
    BY <1>1, <1>2, <1>3, <2>1, CopyStaysBalanced
<1>5. ~Whole' /\ CallBalanced(p)'
  BY <1>1, <1>3, <1>4 DEF Whole, CallBalanced
<1> QED
  BY <1>1, <1>2, <1>5, CallKeepsBooks

\* A write charges a unit for a gate, and the file it leaves has the copy.
LEMMA WriteKeepsBooks ==
    ASSUME KeysInv, BooksInv, Next, NEW p \in Procs, Write(p)
    PROVE  BooksInv'
<1> SUFFICES ASSUME ~raced PROVE BooksInv'
  BY DEF BooksInv, Write
<1> DEFINE t == proc[p].token
           r == proc[p].records
<1>1. /\ proc[p] # Idle /\ \A q \in Procs \ {p} : proc'[q] = proc[q]
      /\ proc'[p].phase = "saved" /\ proc'[p].op = proc[p].op /\ proc'[p].token = t
      /\ UNCHANGED <<created, minted, raced>>
      /\ t \in Tokens /\ r \in Records /\ file.size = 0 /\ file # NoFile
      /\ CopyBalanced(p) /\ proc[p].op \in {"create", "gate"}
  BY DEF Write, KeysInv, TypeOK, CallsAreWhole, BooksInv, CallBalanced
<1>2. Alone'
  BY <1>1, StaysAlone DEF BooksInv
<1>3. \A q \in Procs \ {p} : proc'[q] = Idle
  BY <1>1 DEF BooksInv, Alone
<1>4. Whole' /\ file'.text = r /\ file' # NoFile
  <2>1. file' = [text |-> r, size |-> Cardinality(DOMAIN r)]
    BY <1>1, SizeIsNat DEF Write, Overwritten
  <2> QED
    BY <1>1, <2>1, SizeIsNat, FreeKeysAssumption DEF Whole, Texts
<1>5. /\ Quota \in Nat
      /\ \A u \in DOMAIN r : u \in Tokens /\ r[u] \in 0 .. Quota
      /\ created \subseteq DOMAIN r /\ DOMAIN r \subseteq minted /\ t \in DOMAIN r
  BY <1>1, RecordsMap, FreeKeysAssumption DEF CopyBalanced, Complete
<1>6. \A u \in Tokens :
          /\ Charged(u) \in Nat
          /\ Charged(u)' = Charged(u) + IF proc[p].op = "gate" /\ t = u THEN 1 ELSE 0
  BY OnlyWritesCharge DEF KeysInv
<1>7. ASSUME NEW u \in DOMAIN r PROVE r[u] + Charged(u)' = Quota
  <2>1. r[u] \in Int /\ Charged(u) \in Int
    BY <1>5, <1>6
  <2>2. r[u] + Charged(u) = IF proc[p].op = "gate" /\ u = t THEN Quota - 1 ELSE Quota
    BY <1>1 DEF CopyBalanced, Balanced
  <2> QED
    BY <1>5, <1>6, <2>1, <2>2
<1>8. \A u \in Tokens : Charged(u)' <= Quota /\ (u \notin minted' => Charged(u)' = 0)
  <2>1. ASSUME NEW u \in Tokens, u = t
        PROVE  Charged(u)' <= Quota /\ u \in minted
    <3>1. r[u] + Charged(u)' = Quota /\ r[u] \in 0 .. Quota /\ Charged(u)' \in Int
      BY <1>5, <1>6, <1>7, <2>1
    <3> QED
      BY <1>5, <2>1, <3>1
  <2>2. ASSUME NEW u \in Tokens, u # t PROVE Charged(u)' = Charged(u)
    BY <1>6, <2>2
  <2> QED
    BY <1>1, <2>1, <2>2 DEF BooksInv
<1>9. Complete(file.text)' /\ Balanced(file.text)'
  BY <1>1, <1>4, <1>5, <1>7 DEF Complete, Balanced
<1>10. \A q \in Procs : CallBalanced(q)'
  <2>1. CallBalanced(p)'
    BY <1>1, <1>4, <1>5 DEF CallBalanced
  <2>2. ASSUME NEW q \in Procs, q # p PROVE CallBalanced(q)'
    BY <1>3, <2>2 DEF CallBalanced
  <2> QED
    BY <2>1, <2>2
<1> QED
  BY <1>2, <1>4, <1>8, <1>9, <1>10 DEF BooksInv

\* A key create returns is in the file.
LEMMA ReturnKeepsBooks ==
    ASSUME KeysInv, BooksInv, Next, NEW p \in Procs, Return(p)
    PROVE  BooksInv'
<1> SUFFICES ASSUME ~raced PROVE BooksInv'
  BY DEF BooksInv, Return
<1>1. /\ proc[p] # Idle /\ \A q \in Procs \ {p} : proc'[q] = proc[q]
      /\ UNCHANGED <<file, minted, raced>> /\ proc'[p].phase \in {"created", "admitted"}
  BY DEF Return, KeysInv, TypeOK
<1>2. \A u \in Tokens : Charged(u)' = Charged(u)
  BY ChargesStay
<1>3. CallBalanced(p)'
  BY <1>1 DEF CallBalanced
<1>4. CASE created' = created
  BY <1>1, <1>2, <1>3, <1>4, CallKeepsBooks
<1>5. CASE created' = created \cup {proc[p].token} /\ proc[p].op = "create"
  <2>1. Whole /\ proc[p].token \in DOMAIN file.text
    BY <1>5 DEF Return, BooksInv, CallBalanced
  <2>2. Complete(file.text)'
    BY <1>1, <1>5, <2>1 DEF BooksInv, Complete
  <2>3. Balanced(file.text)'
    <3>1. file.text \in Records /\ Balanced(file.text)
      BY <2>1, FreeKeysAssumption DEF KeysInv, TypeOK, BooksInv, Whole, Texts
    <3> QED
      BY <1>1, <1>2, <3>1, RecordsMap DEF Balanced
  <2>4. Alone' /\ Whole' /\ file' # NoFile
    BY <1>1, <2>1, StaysAlone DEF BooksInv, Whole
  <2>5. ASSUME NEW q \in Procs, q # p PROVE CallBalanced(q)'
    <3>1. proc'[q] = Idle
      BY <1>1, <2>5 DEF BooksInv, Alone
    <3> QED
      BY <3>1 DEF CallBalanced
  <2> QED
    BY <1>1, <1>2, <1>3, <2>2, <2>3, <2>4, <2>5 DEF BooksInv
<1> QED
  BY <1>4, <1>5 DEF Return

\* The step of the invariant.
LEMMA NextBooks ==
    ASSUME KeysInv, BooksInv, [Next]_vars
    PROVE  BooksInv'
<1>1. ASSUME NEW p \in Procs, Next, Get(p) \/ Finish(p) \/ Kill(p) PROVE BooksInv'
  <2> SUFFICES ASSUME ~raced PROVE BooksInv'
    BY <1>1 DEF BooksInv, Get, Finish, Kill
  <2>1. /\ proc[p] # Idle /\ \A q \in Procs \ {p} : proc'[q] = proc[q]
        /\ proc'[p].phase \notin {"load", "open", "write", "saved"}
        /\ UNCHANGED <<file, created, minted, raced>>
    BY <1>1 DEF Get, Finish, Kill, KeysInv, TypeOK, Outcomes
  <2>2. CallBalanced(p)'
    BY <2>1 DEF CallBalanced
  <2>3. \A u \in Tokens : Charged(u)' = Charged(u)
    BY <1>1, ChargesStay
  <2> QED
    BY <2>1, <2>2, <2>3, CallKeepsBooks
<1>2. ASSUME UNCHANGED vars PROVE BooksInv'
  <2>1. \A u : Charged(u)' = Charged(u)
    BY <1>2 DEF vars, Charged, Saved
  <2> QED
    BY <1>2, <2>1 DEF vars, BooksInv, Alone, Whole, Balanced, Complete, CopyBalanced,
                      CallBalanced
<1> QED
  BY <1>1, <1>2, BeginKeepsBooks, LoadKeepsBooks, ConsumeKeepsBooks, OpenKeepsBooks,
     WriteKeepsBooks, ReturnKeepsBooks DEF Next

\* consume and create: while calls do not overlap, no key lets more through than
\* its quota, and what is left of a key and what was spent of it, by requests
\* that were let through and by calls killed after their write, make up its
\* quota, for any number of keys, processes and kills.
THEOREM BooksBalance == Spec => []Accounted
<1>1. Init => BooksInv
  <2>1. ASSUME Init, NEW t \in Tokens PROVE Charged(t) = 0
    <3>1. InFlight(t) = {} /\ admitted[t] = 0 /\ wasted[t] = 0
      BY <2>1 DEF Init, InFlight, Saved
    <3>2. Cardinality(InFlight(t)) = 0
      BY <3>1, FS_EmptySet
    <3> QED
      BY <3>1, <3>2 DEF Charged, InFlight
  <2>2. ASSUME Init PROVE ~Whole /\ created = {} /\ \A p \in Procs : proc[p] = Idle
    BY <2>2 DEF Init, Whole
  <2>3. ASSUME Init PROVE Alone /\ \A p \in Procs : CallBalanced(p)
    BY <2>2, <2>3 DEF Alone, CallBalanced
  <2> QED
    BY <2>1, <2>2, <2>3, FreeKeysAssumption DEF BooksInv
<1>2. KeysInv /\ BooksInv /\ [Next]_vars => BooksInv'
  BY NextBooks
<1>3. BooksInv => Accounted
  BY DEF BooksInv, Accounted, Balanced, Complete
<1> QED
  BY <1>1, <1>2, <1>3, KeysInvariant, PTL DEF Spec

\* _load raises on a torn file in every call, before anything is saved: no
\* step, of a call that loads or of one that is killed, makes a torn file
\* whole or brings a process to write one.
THEOREM TornStaysTorn == Spec => TornForGood
<1>1. ASSUME TypeOK, Next, Broken PROVE Broken'
  <2>1. ~Loads
    BY <1>1 DEF Broken, Whole, Loads
  <2>2. PICK p \in Procs :
            \/ \E t \in Tokens : Create(p, t) \/ Gate(p, t)
            \/ LoadForCreate(p) \/ Get(p) \/ Consume(p) \/ Open(p) \/ Write(p)
            \/ Return(p) \/ Finish(p) \/ Kill(p)
    BY <1>1 DEF Next
  <2>3. file' = file /\ \A q \in Procs \ {p} : proc'[q] = proc[q]
    BY <1>1, <2>2 DEF TypeOK, Broken, Create, Gate, LoadForCreate, Get, Consume, Open, Write,
                      Return, Finish, Kill
  <2>4. proc'[p].phase \notin {"open", "write"}
    <3>1. CASE LoadForCreate(p) \/ Get(p) \/ Consume(p)
      BY <1>1, <2>1, <3>1 DEF TypeOK, LoadForCreate, Get, Consume
    <3>2. CASE \E t \in Tokens : Create(p, t) \/ Gate(p, t)
      BY <1>1, <3>2 DEF TypeOK, Create, Gate
    <3>3. CASE Return(p) \/ Finish(p) \/ Kill(p)
      BY <1>1, <3>3 DEF TypeOK, Return, Finish, Kill
    <3>4. CASE Open(p) \/ Write(p)
      BY <1>1, <3>4 DEF Broken, Open, Write
    <3> QED
      BY <2>2, <3>1, <3>2, <3>3, <3>4
  <2> QED
    BY <1>1, <2>3, <2>4 DEF Broken, Whole
<1>2. ASSUME UNCHANGED vars, Broken PROVE Broken'
  BY <1>2 DEF vars, Broken, Whole
<1>3. TypeOK /\ [Next]_vars => (Broken => Broken')
  BY <1>1, <1>2
<1> QED
  BY <1>3, KeysTyped, PTL DEF Spec, TornForGood

=============================================================================
