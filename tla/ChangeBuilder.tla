--------------------------- MODULE ChangeBuilder ---------------------------
(***************************************************************************)
(* CollectionChangeBuilder (ObjectStore/src/impl/                          *)
(* collection_change_builder.cpp): what happened to a collection between   *)
(* two versions.  deletions are positions of the old collection,           *)
(* insertions and modifications positions of the new one; a move is a      *)
(* deletion and an insertion of the same row.                              *)
(*                                                                         *)
(* columns, the same information per column, stays empty for lists: the    *)
(* transaction log gives modify() no column.                               *)
(***************************************************************************)
EXTENDS IndexSets, Sequences

NoChange == [deletions |-> {}, insertions |-> {}, modifications |-> {}, moves |-> <<>>]

----------------------------------------------------------------------------
(* One operation of the transaction log                                    *)

\* Mutant of Erased: the deletions before it are not counted.
ErasedUnshifted(b, index) ==
    [deletions |-> IF index \in b.insertions THEN b.deletions
                   ELSE b.deletions \cup {Unshift(b.insertions, index)},
     insertions    |-> EraseAt(b.insertions, index),
     modifications |-> EraseAt(b.modifications, index),
     moves         |-> b.moves]

Inserted(b, index, count) ==
    [deletions     |-> b.deletions,
     insertions    |-> InsertRangeAt(b.insertions, index, count),
     modifications |-> ShiftForInsertAt(b.modifications, index, count),
     moves |-> [k \in DOMAIN b.moves |->
                  [from |-> b.moves[k].from,
                   to   |-> LET to == b.moves[k].to
                            IN IF to >= index THEN to + count ELSE to]]]

\* The moves but those at the places gone, counted from 0.
Leaving(moves, gone) ==
    [k \in 1 .. Len(moves) - Cardinality(gone) |-> moves[Shift(gone, k - 1) + 1]]

\* The moves of b but the one of the row at index, each to its place without that row.
MovesWithout(b, index) ==
    LET left == Leaving(b.moves, {k - 1 : k \in {j \in DOMAIN b.moves : b.moves[j].to = index}})
    IN [k \in DOMAIN left |->
          [from |-> left[k].from,
           to   |-> IF left[k].to > index THEN left[k].to - 1 ELSE left[k].to]]

\* A row the same change inserted leaves no trace; any other is deleted at the
\* position it had in the old collection.
Erased(b, index) ==
    [deletions |-> IF index \in b.insertions THEN b.deletions
                   ELSE AddShifted(b.deletions, Unshift(b.insertions, index)),
     insertions    |-> EraseAt(b.insertions, index),
     modifications |-> EraseAt(b.modifications, index),
     moves         |-> MovesWithout(b, index)]

\* Everything of the old collection is deleted; its size follows from old_size.
Cleared(b, old_size) ==
    [NoChange EXCEPT !.deletions =
        0 .. old_size + Cardinality(b.deletions) - Cardinality(b.insertions) - 1]

ModifiedAt(b, index) == [b EXCEPT !.modifications = @ \cup {index}]

\* A row moved before keeps its origin, one inserted before is just inserted
\* elsewhere.
Moved(b, from, to) ==
    LET again   == \E k \in DOMAIN b.moves : b.moves[k].to = from
        passed  == [k \in DOMAIN b.moves |->
                      [from |-> b.moves[k].from,
                       to   |-> LET was == b.moves[k].to
                                IN IF was = from THEN to
                                   ELSE IF was >= to /\ was < from THEN was + 1
                                   ELSE IF was <= to /\ was > from THEN was - 1 ELSE was]]
        origin  == Shift(b.deletions, Unshift(b.insertions, from))
        fresh   == again \/ from \in b.insertions
        erased  == EraseAt(b.modifications, from)
    IN [deletions     |-> IF fresh THEN b.deletions ELSE b.deletions \cup {origin},
        insertions    |-> InsertRangeAt(EraseAt(b.insertions, from), to, 1),
        modifications |-> IF from \in b.modifications THEN InsertRangeAt(erased, to, 1)
                          ELSE ShiftForInsertAt(erased, to, 1),
        moves |-> IF fresh THEN passed
                  ELSE Append(passed, [from |-> origin, to |-> to])]

\* The row is where it was, but for the rows that came and went before it.
Stale(b, m) ==
    m.from - CountIn(b.deletions, 0, m.from) = m.to - CountIn(b.insertions, 0, m.to)

\* One move looked at, after others.
LookAt(b, m) ==
    IF Stale(b, m)
    THEN [b EXCEPT !.deletions = @ \ {m.from}, !.insertions = @ \ {m.to}]
    ELSE [b EXCEPT !.moves = Append(@, m)]

\* Moves that turn out to leave the row where it was are dropped.
CleanUpStaleMoves(b) ==
    LET Looked[k \in 0 .. Len(b.moves)] ==
          IF k = 0 THEN [b EXCEPT !.moves = <<>>] ELSE LookAt(Looked[k - 1], b.moves[k])
    IN Looked[Len(b.moves)]

----------------------------------------------------------------------------
(* Two changes in a row, and the change as it is delivered                 *)

\* The index of the first move from a position.
FirstFrom(moves, from) ==
    CHOOSE k \in DOMAIN moves :
        moves[k].from = from /\ \A j \in DOMAIN moves : moves[j].from = from => k <= j

\* One old move of b follows the new change c, of which acc holds the moves that are
\* not used up and the modifications: a row moved again goes to its new place (and
\* stays modified), one deleted is no longer moved.
Follow(b, c, acc, old) ==
    IF \E k \in DOMAIN acc.moves : acc.moves[k].from = old.to
    THEN LET k    == FirstFrom(acc.moves, old.to)
             dest == acc.moves[k].to
             last == Len(acc.moves)
         IN [kept  |-> Append(acc.kept, [from |-> old.from, to |-> dest]),
             moves |-> [j \in 1 .. last - 1 |-> acc.moves[IF j = k THEN last ELSE j]],
             modifications |-> IF old.to \in b.modifications THEN acc.modifications \cup {dest}
                               ELSE acc.modifications]
    ELSE IF old.to \in c.deletions THEN acc
    ELSE [acc EXCEPT !.kept =
            Append(@, [from |-> old.from,
                       to   |-> Shift(c.insertions, Unshift(c.deletions, old.to))])]

FollowMoves(b, c) ==
    LET Followed[k \in 0 .. Len(b.moves)] ==
          IF k = 0 THEN [kept |-> <<>>, moves |-> c.moves, modifications |-> c.modifications]
          ELSE Follow(b, c, Followed[k - 1], b.moves[k])
    IN Followed[Len(b.moves)]

\* What was deleted and inserted by the one change or the other.
MergedDeletions(b, c) == AddShiftedBy(b.deletions, b.insertions, c.deletions)

MergedInsertions(b, c) == InsertAtAll(EraseAtAll(b.insertions, c.deletions), c.insertions)

\* The moves left of c, of rows that b did not insert.
NewMoves(b, moves) ==
    Leaving(moves, {k - 1 : k \in {j \in DOMAIN moves : moves[j].from \in b.insertions}})

\* Rows modified before and moved now are modified.
StillModified(b, moves) ==
    {moves[k].to : k \in {j \in DOMAIN moves : moves[j].from \in b.modifications}}

\* Moves of c, from where the rows were before b.
MovesFromBefore(b, moves) ==
    [k \in DOMAIN moves |->
       [from |-> Shift(b.deletions, Unshift(b.insertions, moves[k].from)), to |-> moves[k].to]]

Merge(b, c) ==
    IF c = NoChange THEN b
    ELSE IF b = NoChange THEN c
    ELSE LET followed == FollowMoves(b, c)
             moves    == NewMoves(b, followed.moves)
         IN CleanUpStaleMoves(
              [deletions     |-> MergedDeletions(b, c),
               insertions    |-> MergedInsertions(b, c),
               modifications |->
                  ShiftForInsertAtAll(EraseAtAll(b.modifications, c.deletions), c.insertions)
                    \cup followed.modifications \cup StillModified(b, moves),
               moves         |-> followed.kept \o MovesFromBefore(b, moves)])

\* Positions of the old collection in modifications, of the new one in
\* modifications_new; an inserted row is not modified as well.
Finalize(b) ==
    [deletions         |-> b.deletions,
     insertions        |-> b.insertions,
     modifications     |-> ShiftForInsertAtAll(EraseAtAll(b.modifications, b.insertions),
                                               b.deletions),
     modifications_new |-> b.modifications \ b.insertions,
     moves             |-> b.moves]
=============================================================================
