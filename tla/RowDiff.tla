------------------------------ MODULE RowDiff ------------------------------
(***************************************************************************)
(* CollectionChangeBuilder::calculate (ObjectStore/src/impl/               *)
(* collection_change_builder.cpp): the change between two orders of the    *)
(* rows of a query, from their keys alone.  Sequences of keys, none twice; *)
(* a row of the old order that is gone may have the key npos.              *)
(*                                                                         *)
(* Positions are counted from 0, as in the code: Row(s, i) is s[i].        *)
(***************************************************************************)
EXTENDS ChangeBuilder

npos == -1

Row(s, i) == s[i + 1]

Places(s) == 0 .. Len(s) - 1

\* IndexSet::count for unsigned bounds: a start below zero is beyond every index.
CountFrom(S, start, end) == IF start < 0 THEN 0 ELSE CountIn(S, start, end)

\* The choice between the best block so far and the one of this size that ends
\* at i and j; of equal ones the one with fewer modified rows.
Better(best, i, j, size, modified) ==
    LET of_best == IF best.modified # npos THEN best.modified
                   ELSE CountFrom(modified, best.j - size + 1, best.j + 1)
        of_new  == CountFrom(modified, j - size + 1, j + 1)
        new     == [i |-> i - size + 1, j |-> j - size + 1, size |-> size, modified |-> npos]
    IN IF size > best.size THEN new
       ELSE IF size < best.size THEN best
       ELSE IF of_new < of_best THEN [new EXCEPT !.modified = of_new]
       ELSE [best EXCEPT !.modified = of_best]

\* Mutant of FindLongestMatch: a match anywhere in b will do.
FindLongestMatchAnywhere(a, b, begin1, end1, begin2, end2, modified) ==
    LET i == begin1
        match == {j \in Places(b) : i < end1 /\ Row(b, j) = Row(a, i)}
    IN IF match = {} THEN [i |-> begin1, j |-> begin2, size |-> 0, modified |-> 0]
       ELSE [i |-> i, j |-> CHOOSE j \in match : TRUE, size |-> 1, modified |-> 0]

\* The longest run of rows that stand next to each other in both orders, within
\* begin1 .. end1 - 1 of a and begin2 .. end2 - 1 of b.
FindLongestMatch(a, b, begin1, end1, begin2, end2, modified) ==
    LET Seen[i \in begin1 - 1 .. end1 - 1] ==
          IF i = begin1 - 1
          THEN [j |-> npos, len |-> 0,
                best |-> [i |-> begin1, j |-> begin2, size |-> 0, modified |-> 0]]
          ELSE LET p     == Seen[i - 1]
                   match == {j \in begin2 .. end2 - 1 : Row(b, j) = Row(a, i)}
                   j     == CHOOSE x \in match : TRUE
                   size  == IF p.len > 0 /\ p.j + 1 = j THEN p.len + 1 ELSE 1
               IN IF match = {} THEN [p EXCEPT !.len = 0]
                  ELSE [j |-> j, len |-> size, best |-> Better(p.best, i, j, size, modified)]
    IN Seen[end1 - 1].best

RECURSIVE FindLongestMatches(_, _, _, _, _, _, _)
FindLongestMatches(a, b, begin1, end1, begin2, end2, modified) ==
    LET m == FindLongestMatch(a, b, begin1, end1, begin2, end2, modified)
    IN IF m.size = 0 THEN <<>>
       ELSE (IF m.i > begin1 /\ m.j > begin2
             THEN FindLongestMatches(a, b, begin1, m.i, begin2, m.j, modified) ELSE <<>>)
            \o <<m>> \o
            (IF m.i + m.size < end2 /\ m.j + m.size < end2
             THEN FindLongestMatches(a, b, m.i + m.size, end1, m.j + m.size, end2, modified)
             ELSE <<>>)

\* The blocks that stay where they are; before the first difference all rows do.
Matches(a, b, modified) ==
    LET differ == {i \in Places(a) : Row(a, i) # Row(b, i)}
        first  == CHOOSE i \in differ : \A j \in differ : i <= j
    IN IF differ = {} THEN <<[i |-> 0, j |-> 0, size |-> Len(a), modified |-> 0]>>
       ELSE <<[i |-> 0, j |-> 0, size |-> first, modified |-> 0]>>
              \o FindLongestMatches(a, b, first, Len(a), first, Len(b), modified)

Calculate(prev_rows, next_rows, changed, in_table_order) ==
    LET In(s, e)  == \E k \in DOMAIN s : s[k] = e
        a         == SelectSeq(prev_rows, LAMBDA e : In(next_rows, e))
        b         == SelectSeq(next_rows, LAMBDA e : In(prev_rows, e))
        gone      == {i \in Places(prev_rows) : ~In(next_rows, Row(prev_rows, i))}
        new       == {i \in Places(next_rows) : ~In(prev_rows, Row(next_rows, i))}
        modified  == {i \in Places(next_rows) \ new : Row(next_rows, i) \in changed}
        matches   == Matches(a, b, modified)
        \* places of a and of b outside every match
        moved1    == {i \in Places(a) : \A k \in DOMAIN matches :
                        i \notin matches[k].i .. matches[k].i + matches[k].size - 1}
        moved2    == {j \in Places(b) : \A k \in DOMAIN matches :
                        j \notin matches[k].j .. matches[k].j + matches[k].size - 1}
        Of(rows, s, S) == {p \in Places(rows) : \E i \in S : Row(s, i) = Row(rows, p)}
    IN [deletions     |-> IF in_table_order THEN gone ELSE gone \cup Of(prev_rows, a, moved1),
        insertions    |-> IF in_table_order THEN new ELSE new \cup Of(next_rows, b, moved2),
        modifications |-> modified,
        moves         |-> <<>>]
=============================================================================
