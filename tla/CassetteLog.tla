---------------------------- MODULE CassetteLog -----------------------------
(***************************************************************************)
(* What the cassette store promises to the processes that call it, with no *)
(* files: one committed manifest, on which every call takes effect in one  *)
(* step between its invocation and its return.  Two things are weaker than *)
(* an atomic object, because the code offers no more:                      *)
(*   - a call that is cut off may leave the committed manifest empty;      *)
(*   - a read that overlaps a call may find nothing.                       *)
(* CassetteStore is shown to implement this specification.                 *)
(***************************************************************************)
EXTENDS Cassette

CONSTANTS
    Procs,          \* threads and processes that open the cassette
    NoCall,         \* a process with no call in progress
    NoView,         \* a process that has not read yet
    Unreadable      \* a read that raised

VARIABLES
    committed,      \* the manifest
    phase,          \* of each process: no call, "called", "applied"
    call,           \* the call each process has in progress
    issued,         \* the transaction ids handed out
    view            \* what the last load_manifest of each process gave

logVars == <<committed, phase, call, issued, view>>

LogInit ==
    /\ committed = EmptyManifest
    /\ phase = [p \in Procs |-> "idle"]
    /\ call = [p \in Procs |-> NoCall]
    /\ issued = {}
    /\ view = [p \in Procs |-> NoView]

Invoke(p, c) ==
    /\ phase[p] = "idle"
    /\ Tx(c) \cap issued = {}
    /\ phase' = [phase EXCEPT ![p] = "called"]
    /\ call' = [call EXCEPT ![p] = c]
    /\ issued' = issued \cup Tx(c)
    /\ UNCHANGED <<committed, view>>

\* The whole effect of a call, in one step.
Apply(p) ==
    /\ phase[p] = "called"
    /\ committed' = Edited(committed, call[p])
    /\ phase' = [phase EXCEPT ![p] = "applied"]
    /\ UNCHANGED <<call, issued, view>>

Return(p) ==
    /\ phase[p] = "applied"
    /\ phase' = [phase EXCEPT ![p] = "idle"]
    /\ call' = [call EXCEPT ![p] = NoCall]
    /\ UNCHANGED <<committed, issued, view>>

\* The caller is killed, or the call raises.
CutOff(p) ==
    /\ phase[p] # "idle"
    /\ \/ UNCHANGED committed
       \/ phase[p] = "called" /\ committed' = EmptyManifest
    /\ phase' = [phase EXCEPT ![p] = "idle"]
    /\ call' = [call EXCEPT ![p] = NoCall]
    /\ UNCHANGED <<issued, view>>

\* A read without the lock.
Read(p) ==
    /\ phase[p] = "idle"
    /\ \E v \in {committed, EmptyManifest, Unreadable} :
          /\ v # committed => \/ \E q \in Procs : phase[q] = "called"
                              \/ committed = EmptyManifest
          /\ view' = [view EXCEPT ![p] = v]
    /\ UNCHANGED <<committed, phase, call, issued>>

LogNext == \E p \in Procs :
    \/ \E c \in Calls : Invoke(p, c)
    \/ Apply(p)
    \/ Return(p)
    \/ CutOff(p)
    \/ Read(p)

LogSpec == LogInit /\ [][LogNext]_logVars

=============================================================================
