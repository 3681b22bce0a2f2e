----------------------------- MODULE IndexSets -----------------------------
(***************************************************************************)
(* What the operations of realm::IndexSet promise (include/index_set.hpp), *)
(* with a set of indexes for an IndexSet.  A collection's positions are    *)
(* 0, 1, 2, ...; "inserting at s" makes room so that the positions of s    *)
(* are free, "deleting s" closes the gaps that s leaves.                   *)
(*                                                                         *)
(* ChunkedIndexSet shows that the chunked representation of index_set.cpp  *)
(* computes these, and ListChanges uses them as the language in which      *)
(* collection_change_builder.cpp is written.                               *)
(***************************************************************************)
EXTENDS Integers, FiniteSets

\* The number of indexes of s in start_index .. end_index - 1.
CountIn(s, start_index, end_index) ==
    Cardinality({i \in s : start_index <= i /\ i < end_index})

\* Where position i ends up after inserting at s.
Shift(s, i) ==
    CHOOSE k \in i .. i + Cardinality(s) :
        k \notin s /\ k - CountIn(s, 0, k) = i

\* Where position i, not in s, ends up after deleting s.
Unshift(s, i) == i - CountIn(s, 0, i)

\* Adds an index that was counted with the indexes of s removed.
AddShifted(s, i) == s \cup {Shift(s, i)}

\* Adds indexes counted with shifted_by inserted and s removed; those that
\* shifted_by itself inserted are dropped.
AddShiftedBy(s, shifted_by, values) ==
    s \cup {Shift(s, Unshift(shifted_by, v)) : v \in values \ shifted_by}

\* Makes room for count positions at index, without or with adding them.
ShiftForInsertAt(s, index, count) ==
    {IF i < index THEN i ELSE i + count : i \in s}

InsertRangeAt(s, index, count) ==
    ShiftForInsertAt(s, index, count) \cup (index .. index + count - 1)

\* The same for every position of a set, given as positions after the insertion.
ShiftForInsertAtAll(s, positions) == {Shift(positions, i) : i \in s}

InsertAtAll(s, positions) == ShiftForInsertAtAll(s, positions) \cup positions

\* Deletes positions, closing the gaps.
EraseAtAll(s, positions) == {Unshift(positions, i) : i \in s \ positions}

EraseAt(s, index) == EraseAtAll(s, {index})
=============================================================================
