------------------------------ MODULE ToolOrder ------------------------------
(***************************************************************************)
(* How core/match.py puts parallel tool blocks in order: Python's stable   *)
(* sort by a key, the blocks of a kind sorted and put last, and the sort   *)
(* of each contiguous run of a list.  A key is a text, a sequence of code  *)
(* points, given for each place of the list.                               *)
(***************************************************************************)
EXTENDS Naturals, Sequences, FiniteSets

\* str.__lt__
Precedes(a, b) ==
    \E i \in DOMAIN b :
        /\ i <= Len(a) + 1
        /\ \A j \in 1 .. i - 1 : a[j] = b[j]
        /\ i <= Len(a) => a[i] < b[i]

-----------------------------------------------------------------------------

\* The item at place i goes before the one at place j: equal keys stay in
\* their order.
GoesBefore(keys, i, j) ==
    Precedes(keys[i], keys[j]) \/ (keys[i] = keys[j] /\ i < j)

\* The place that the item at place i goes to.
SortedPlace(keys, i) == 1 + Cardinality({j \in DOMAIN keys : GoesBefore(keys, j, i)})

\* list.sort
StableSort(s, keys) ==
    [k \in DOMAIN s |-> s[CHOOSE i \in DOMAIN s : SortedPlace(keys, i) = k]]

-----------------------------------------------------------------------------

\* The items at these places go last, sorted by their texts; the others go before
\* them, in their order.
LastKeys(places, texts) ==
    [i \in DOMAIN texts |-> IF i \in places THEN <<1>> \o texts[i] ELSE <<0>>]
SortLast(s, places, texts) == StableSort(s, LastKeys(places, texts))

\* Where the run begins that the place i, one of these places, is in.
RunStart(places, i) == CHOOSE j \in 1 .. i : j .. i \subseteq places /\ j - 1 \notin places

\* An item of a run goes by its run and then by its text; any other by its place.
RunKeys(places, texts) ==
    [i \in DOMAIN texts |->
        IF i \in places THEN <<RunStart(places, i)>> \o texts[i] ELSE <<i>>]

\* Each contiguous run of these places is sorted by its texts; all else stays.
SortRuns(s, places, texts) == StableSort(s, RunKeys(places, texts))

=============================================================================
