---------------------------- MODULE ReplaySession ---------------------------
(***************************************************************************)
(* What replaying promises to its clients, with no index, no scrubber and  *)
(* no handlers: a session is opened on the log as it is at that moment,    *)
(* and until it is closed it is a function of the log it was opened on.  A *)
(* client is answered once, with the last entry that has its key or with   *)
(* nothing, whatever is recorded meanwhile and whatever else is asked.     *)
(* A session that is opened while an append is under way may be opened on  *)
(* nothing, because a read of the log may find nothing then.               *)
(* Proxy is shown to implement this specification.                         *)
(***************************************************************************)
EXTENDS Naturals, Sequences

CONSTANTS
    Players,        \* sessions that may be open at the same time
    Clients,        \* clients that may ask at the same time
    Keys            \* what a client may ask for

VARIABLES
    log,            \* the entries that were recorded, oldest first
    appending,      \* whether an append is under way
    opened,         \* of each open session: the log it was opened on
    exchange        \* of each client that asks: what and whom, and what was found

sessionVars == <<log, appending, opened, exchange>>

\* A function with one more value, or another one.
With(f, x, v) == [y \in DOMAIN f \cup {x} |-> IF y = x THEN v ELSE f[y]]
Only(f, S) == [y \in S |-> f[y]]

\* The body of the last entry with a key, if there is one.
Found(l, k) ==
    {l[i].body : i \in {i \in DOMAIN l : /\ l[i].key = k
                                         /\ \A j \in DOMAIN l : l[j].key = k => j <= i}}

SessionInit ==
    /\ log = << >>
    /\ appending = FALSE
    /\ opened = [p \in {} |-> << >>]
    /\ exchange = [c \in {} |-> << >>]

\* Recording: appends begin, take effect and end.  One that is cut off may leave
\* nothing of the log, and somebody may remove it.
Recording ==
    /\ appending' \in BOOLEAN
    /\ \/ UNCHANGED log
       \/ log' = << >>
       \/ appending /\ Len(log') = Len(log) + 1 /\ \A i \in DOMAIN log : log'[i] = log[i]
    /\ UNCHANGED <<opened, exchange>>

Open(p) ==
    /\ p \notin DOMAIN opened
    /\ \E l \in {log} \cup (IF appending THEN {<< >>} ELSE {}) : opened' = With(opened, p, l)
    /\ UNCHANGED <<log, appending, exchange>>

\* The session ends, and whoever asks it has lost its connection.
Close(p) ==
    /\ p \in DOMAIN opened
    /\ opened' = Only(opened, DOMAIN opened \ {p})
    /\ exchange' = Only(exchange, {c \in DOMAIN exchange : exchange[c].player # p})
    /\ UNCHANGED <<log, appending>>

Ask(c, p, k) ==
    /\ c \notin DOMAIN exchange
    /\ p \in DOMAIN opened
    /\ exchange' = With(exchange, c, [player |-> p, key |-> k, state |-> "asked", found |-> {}])
    /\ UNCHANGED <<log, appending, opened>>

\* A client is refused without a look at the log, or answered from it.
Reply(c) ==
    LET e == exchange[c]
        Ended(state, found) ==
            With(exchange, c, [player |-> e.player, key |-> e.key, state |-> state, found |-> found])
    IN  /\ c \in DOMAIN exchange
        /\ e.state = "asked"
        /\ \/ exchange' = Ended("refused", {})
           \/ exchange' = Ended("answered", Found(opened[e.player], e.key))
        /\ UNCHANGED <<log, appending, opened>>

Leave(c) ==
    /\ c \in DOMAIN exchange
    /\ exchange[c].state # "asked"
    /\ exchange' = Only(exchange, DOMAIN exchange \ {c})
    /\ UNCHANGED <<log, appending, opened>>

SessionNext ==
    \/ Recording
    \/ \E p \in Players : Open(p) \/ Close(p) \/ \E c \in Clients, k \in Keys : Ask(c, p, k)
    \/ \E c \in Clients : Reply(c) \/ Leave(c)

SessionSpec == SessionInit /\ [][SessionNext]_sessionVars

=============================================================================
