--------------------------- MODULE ResultsChanges ---------------------------
(***************************************************************************)
(* How the changes of query results reach their observers: ResultsNotifier *)
(* and ListResultsNotifier (ObjectStore/src/impl/results_notifier.cpp)     *)
(* compare the rows of two runs of the query, and the collection notifier  *)
(* merges the changes of several runs.                                     *)
(*                                                                         *)
(* Rows of a ResultsNotifier are object keys; those of a                   *)
(* ListResultsNotifier (kind "list") are positions in the list, which the  *)
(* list's own change renumbers between two runs.                           *)
(***************************************************************************)
EXTENDS RowDiff

\* The queries: kind "sorted", "table order" or "list"; keys, a finite set of
\* naturals, the objects by key (for "list" the entries by position); start, the
\* rows of the first run; runs, the bound on the runs after it.
CONSTANT Queries

VARIABLES query,        \* the query that is observed
          base,         \* the rows when the accumulated change began
          m_previous,   \* m_previous_rows, m_previous_indices
          accumulated,  \* accumulated_changes: base to m_previous
          touched,      \* rows of m_previous modified since they came into it
          last,         \* rows before and after the last run, its change, and the
                        \* rows that were modified
          attached,     \* the table or the list is still there
          runs

vars == <<query, base, m_previous, accumulated, touched, last, attached, runs>>

RowsOf(s) == {s[k] : k \in DOMAIN s}

\* Every order of some of the rows.
Orders(S) ==
    UNION {{s \in [1 .. n -> S] : \A j, k \in 1 .. n : s[j] = s[k] => j = k} :
             n \in 0 .. Cardinality(S)}

Ascending(s) == \A j, k \in DOMAIN s : j < k => s[j] < s[k]

Init ==
    /\ query \in Queries
    /\ base = query.start /\ m_previous = base
    /\ accumulated = NoChange
    /\ touched = {}
    /\ last = [before |-> base, after |-> base, change |-> NoChange, modified |-> {}]
    /\ attached = TRUE
    /\ runs = 0

TableOrder == query.kind = "table order"

\* The end of a run: m_change joins what the callbacks have not been given yet.
Ran(before, next, change, modified) ==
    /\ runs < query.runs
    /\ runs' = runs + 1
    /\ m_previous' = next
    /\ accumulated' = Merge(accumulated, change)
    /\ last' = [before |-> before, after |-> next, change |-> change, modified |-> modified]

\* ResultsNotifier: some objects changed, the query returns these rows now.
calculate_changes(next, changed) ==
    /\ attached
    /\ TableOrder => Ascending(next)
    /\ Ran(m_previous, next,
           Calculate(m_previous, next, changed, TableOrder), changed)
    /\ touched' = (touched \cup (changed \cap RowsOf(m_previous))) \cap RowsOf(next)
    /\ UNCHANGED <<query, base, attached>>

\* A run that nobody listens to: the rows are only remembered, and whoever
\* listens next starts from them.
calculate_unobserved(next) ==
    /\ attached
    /\ runs < query.runs
    /\ TableOrder => Ascending(next)
    /\ runs' = runs + 1
    /\ base' = next /\ m_previous' = next
    /\ accumulated' = NoChange
    /\ touched' = {}
    /\ last' = [before |-> next, after |-> next, change |-> NoChange, modified |-> {}]
    /\ UNCHANGED <<query, attached>>

\* The table or the list was deleted: every row is reported as deleted, once.
run_deleted ==
    /\ Ran(m_previous, <<>>, [NoChange EXCEPT !.deletions = Places(m_previous)], {})
    /\ touched' = {}
    /\ attached' = FALSE
    /\ UNCHANGED <<query, base>>

\* Where the entry at a place of the list is now: as many entries that stayed are
\* before it as were before it then.
NewPlace(place, deletions, insertions) ==
    CHOOSE p \in query.keys \ insertions :
        Cardinality((0 .. p - 1) \ insertions) = Cardinality((0 .. place - 1) \ deletions)

\* ListResultsNotifier: the rows of the previous run, at the positions they have
\* after the list's change; modifications_new of that change, which its builder
\* never fills, says what was modified.
calculate_list_changes(next, deletions, insertions, modifications) ==
    LET renumbered == [k \in DOMAIN m_previous |->
                          IF m_previous[k] \in deletions THEN npos
                          ELSE Shift(insertions, Unshift(deletions, m_previous[k]))]
        modifications_new == {}
    IN /\ attached
       /\ runs = 0
       /\ Ran(renumbered, next, Calculate(renumbered, next, modifications_new, FALSE),
              modifications)
       /\ touched' = modifications \cap RowsOf(renumbered) \cap RowsOf(next)
       /\ base' = [k \in DOMAIN m_previous |->
                      IF m_previous[k] \in deletions THEN npos
                      ELSE NewPlace(m_previous[k], deletions, insertions)]
       /\ UNCHANGED <<query, attached>>

\* A list change renumbers within the bound: as many entries as there were.
ListChange(deletions, insertions, modifications) ==
    /\ Cardinality(deletions) = Cardinality(insertions)
    /\ modifications \cap insertions = {}

Next ==
    \/ /\ query.kind # "list"
       /\ \E next \in Orders(query.keys), changed \in SUBSET query.keys :
             calculate_changes(next, changed)
    \/ /\ query.kind = "list"
       /\ \E d, i, m \in SUBSET query.keys :
             /\ ListChange(d, i, m)
             /\ \E next \in Orders(query.keys) : calculate_list_changes(next, d, i, m)
    \/ \E next \in Orders(query.keys) : calculate_unobserved(next)
    \/ run_deleted

Spec == Init /\ [][Next]_vars

----------------------------------------------------------------------------
(* Properties                                                              *)

Outside(s, S) ==
    LET places == {k \in DOMAIN s : k - 1 \notin S}
    IN [n \in 1 .. Cardinality(places) |->
           s[CHOOSE k \in places : Cardinality({j \in places : j < k}) = n - 1]]

\* Deleting at the old places and inserting at the new ones turns the old rows
\* into the new ones (verify_changeset), for one run and for all that were
\* merged: an object that left the results and came back included, and for the rows
\* of a list wherever its own change has put them meanwhile.
DiffTakes ==
    LET Takes(change, old, new) ==
          /\ change.deletions \subseteq Places(old)
          /\ change.insertions \subseteq Places(new)
          /\ Outside(old, change.deletions) = Outside(new, change.insertions)
    IN Takes(last.change, last.before, last.after) /\ Takes(accumulated, base, m_previous)

\* Only rows that are in both runs, or that really came or left, are touched: a
\* result whose order did not change reports no insertion of a row it had.
NothingMovedReported ==
    LET both == RowsOf(last.before) \cap RowsOf(last.after)
        Of(s) == SelectSeq(s, LAMBDA e : e \in both)
    IN Of(last.before) = Of(last.after) =>
         \A i \in last.change.insertions : Row(last.after, i) \notin both

\* The rows reported as modified are the ones modified since they came into the
\* results, unless the change has to move them.  (Of results of a list none is
\* reported as modified: the list's change has no modifications_new.)
ModifiedExact ==
    query.kind # "list" =>
    {Row(m_previous, i) : i \in Finalize(accumulated).modifications_new} =
        {e \in touched : \A i \in accumulated.insertions : Row(m_previous, i) # e}

\* "Given two equal-length matches, prefer the one with fewer modified rows": of
\* the longest blocks, one with the fewest modified rows stays where it is.
PrefersUnmodified ==
    LET Keep(s)  == SelectSeq(s, LAMBDA e : e \in RowsOf(last.before) \cap RowsOf(last.after))
        a        == Keep(last.before)
        b        == Keep(last.after)
        Block(i, j, n) == /\ i + n <= Len(a) /\ j + n <= Len(b)
                          /\ \A k \in 0 .. n - 1 : Row(a, i + k) = Row(b, j + k)
        Dirty(j, n) == Cardinality({k \in 0 .. n - 1 : Row(b, j + k) \in last.modified})
        m        == FindLongestMatch(a, b, 0, Len(a), 0, Len(b), last.change.modifications)
    IN \A i \in Places(a), j \in Places(b) :
          Block(i, j, m.size) => Dirty(m.j, m.size) <= Dirty(j, m.size)
=============================================================================
