-------------------------- MODULE ChunkedIndexSet --------------------------
(***************************************************************************)
(* realm::IndexSet (ObjectStore/src/index_set.cpp): a set of indexes kept  *)
(* as half-open ranges, the ranges in chunks of at most max_size, and with *)
(* each chunk its first and last bound and the number of its indexes, from *)
(* which the queries skip whole chunks.                                    *)
(*                                                                         *)
(* m_data is the vector of chunks, ref the set that the operations should  *)
(* have produced (module IndexSets).  An iterator is a pair <<chunk,       *)
(* range>>, the end iterator <<Len(m_data) + 1, 1>>.                       *)
(***************************************************************************)
EXTENDS Integers, SequencesExt

CONSTANTS MaxSize,      \* ChunkedRangeVector::max_size
          MaxIndex,     \* bound: no index above it
          Batches,      \* bound: the sets given to the operations on sets
          MayOverfill   \* add_shifted_by may need more chunks than expected

VARIABLES m_data, ref

vars == <<m_data, ref>>

I == INSTANCE IndexSets

Size(r) == r[2] - r[1]

SizeOf(data) == FoldLeft(LAMBDA n, r : n + Size(r), 0, data)

Chunk(data) ==
    [data |-> data, begin |-> data[1][1], end |-> data[Len(data)][2],
     count |-> SizeOf(data)]

----------------------------------------------------------------------------
(* Iterators                                                               *)

End(m) == <<Len(m) + 1, 1>>

Begin == <<1, 1>>

At(m, it) == m[it[1]].data[it[2]]

Following(m, it) ==
    IF it[2] < Len(m[it[1]].data) THEN <<it[1], it[2] + 1>> ELSE <<it[1] + 1, 1>>

Preceding(m, it) ==
    IF it[2] > 1 THEN <<it[1], it[2] - 1>>
                 ELSE <<it[1] - 1, Len(m[it[1] - 1].data)>>

\* The parent chunk follows what the iterator does to its range.
Adjust(m, it, front, back) ==
    LET chunk == m[it[1]]
        r     == At(m, it)
    IN [m EXCEPT ![it[1]] =
          [data  |-> [chunk.data EXCEPT ![it[2]] = <<r[1] + front, r[2] + back>>],
           begin |-> IF it[2] = 1 THEN chunk.begin + front ELSE chunk.begin,
           end   |-> IF it[2] = Len(chunk.data) THEN chunk.end + back ELSE chunk.end,
           count |-> chunk.count - front + back]]

SetRange(m, it, front, back) ==
    LET chunk == m[it[1]]
    IN [m EXCEPT ![it[1]] =
          [data  |-> [chunk.data EXCEPT ![it[2]] = <<front, back>>],
           begin |-> IF it[2] = 1 THEN front ELSE chunk.begin,
           end   |-> IF it[2] = Len(chunk.data) THEN back ELSE chunk.end,
           count |-> chunk.count - Size(At(m, it)) + (back - front)]]

\* Every range from the iterator on moves by the distance.
ShiftRanges(data, distance) ==
    [k \in DOMAIN data |-> <<data[k][1] + distance, data[k][2] + distance>>]

ShiftFrom(m, it, distance) ==
    SubSeq(m, 1, it[1] - 1) \o
    [o \in 1 .. Len(m) - it[1] + 1 |->
        LET chunk == m[it[1] + o - 1]
            first == IF o = 1 THEN it[2] ELSE 1
        IN [data  |-> SubSeq(chunk.data, 1, first - 1)
                        \o ShiftRanges(SubSeq(chunk.data, first, Len(chunk.data)), distance),
            begin |-> IF first = 1 THEN chunk.begin + distance ELSE chunk.begin,
            end   |-> chunk.end + distance,
            count |-> chunk.count]]

----------------------------------------------------------------------------
(* ChunkedRangeVector.  Insert and Erase return the vector and an iterator *)

PushBack(m, r) ==
    IF m # <<>> /\ Len(m[Len(m)].data) < MaxSize
    THEN [m EXCEPT ![Len(m)] =
            [@ EXCEPT !.data = Append(@, r), !.count = @ + Size(r), !.end = r[2]]]
    ELSE Append(m, Chunk(<<r>>))

\* Splits a full chunk in half.
EnsureSpace(m, pos) ==
    IF Len(m[pos[1]].data) + 1 <= MaxSize THEN [m |-> m, it |-> pos]
    ELSE LET chunk   == m[pos[1]]
             to_move == MaxSize \div 2
             kept    == SubSeq(chunk.data, 1, Len(chunk.data) - to_move)
             moved   == SubSeq(chunk.data, Len(chunk.data) - to_move + 1, Len(chunk.data))
             prev    == [chunk EXCEPT !.data = kept, !.end = kept[Len(kept)][2],
                                      !.count = @ - SizeOf(moved)]
         IN [m  |-> InsertAt(ReplaceAt(m, pos[1], prev), pos[1] + 1, Chunk(moved)),
             it |-> IF pos[2] - 1 >= to_move THEN <<pos[1] + 1, pos[2] - to_move>> ELSE pos]

Insert(m, pos, r) ==
    IF pos = End(m)
    THEN LET new == PushBack(m, r) IN [m |-> new, it |-> Preceding(new, End(new))]
    ELSE LET e     == EnsureSpace(m, pos)
             chunk == e.m[e.it[1]]
         IN [m  |-> [e.m EXCEPT ![e.it[1]] =
                       [data  |-> InsertAt(chunk.data, e.it[2], r),
                        begin |-> IF r[1] < chunk.begin THEN r[1] ELSE chunk.begin,
                        end   |-> IF r[2] > chunk.end THEN r[2] ELSE chunk.end,
                        count |-> chunk.count + Size(r)]],
             it |-> e.it]

Erase(m, pos) ==
    LET chunk == m[pos[1]]
        data  == RemoveAt(chunk.data, pos[2])
    IN IF data = <<>> THEN [m |-> RemoveAt(m, pos[1]), it |-> <<pos[1], 1>>]
       ELSE [m  |-> [m EXCEPT ![pos[1]] =
                       [data |-> data, begin |-> data[1][1], end |-> data[Len(data)][2],
                        count |-> chunk.count - Size(At(m, pos))]],
             it |-> IF pos[2] <= Len(data) THEN pos ELSE <<pos[1] + 1, 1>>]

\* ChunkedRangeVectorBuilder: `expected` chunks are there from the start, further
\* ones are added as they are needed.
RECURSIVE Build(_, _, _)
Build(built, ranges, expected) ==
    IF ranges = <<>> THEN built
    ELSE LET r    == Head(ranges)
             last == Len(built)
             data == built[last].data
             push ==
                IF built = <<>> THEN <<Chunk(<<r>>)>>
                ELSE IF r[1] = data[Len(data)][2]
                THEN [built EXCEPT ![last] = [Chunk([data EXCEPT ![Len(data)] = <<@[1], r[2]>>])
                                                EXCEPT !.count = built[last].count + Size(r)]]
                ELSE IF Len(data) < MaxSize
                THEN [built EXCEPT ![last] = [Chunk(Append(data, r))
                                                EXCEPT !.count = built[last].count + Size(r)]]
                ELSE Append(built, IF last >= expected
                                   THEN [Chunk(<<r>>) EXCEPT !.count = 1]
                                   ELSE Chunk(<<r>>))
         IN Build(push, Tail(ranges), expected)

RangesIn(m) == FoldLeft(LAMBDA n, chunk : n + Len(chunk.data), 0, m)

Finalize(m, ranges) == Build(<<>>, ranges, RangesIn(m) \div MaxSize + 1)

\* The ranges, and the indexes, in order.
Ranges(m) == FoldLeft(LAMBDA rs, chunk : rs \o chunk.data, <<>>, m)

AsIndexes(m) ==
    FoldLeft(LAMBDA is, r : is \o [k \in 1 .. Size(r) |-> r[1] + k - 1], <<>>, Ranges(m))

Singles(indexes) == [k \in DOMAIN indexes |-> <<indexes[k], indexes[k] + 1>>]

----------------------------------------------------------------------------
(* IndexSet: queries                                                       *)

\* The range that holds the index, or the first one after it.
FindFrom(m, index, begin) ==
    LET later == {o \in begin[1] .. Len(m) : m[o].end > index}
    IN IF later = {} THEN End(m)
       ELSE LET o == CHOOSE x \in later : \A y \in later : x <= y
                start == IF o = begin[1] THEN begin[2] ELSE 1
                right == {k \in start .. Len(m[o].data) : m[o].data[k][2] > index}
            IN IF index < m[o].begin THEN <<o, 1>>
               ELSE <<o, CHOOSE x \in right : \A y \in right : x <= y>>

Find(m, index) == FindFrom(m, index, Begin)

ContainsIndex(m, index) ==
    LET it == Find(m, index) IN it # End(m) /\ At(m, it)[1] <= index

\* The ranges from `it` on that lie before the end index, then the part of the
\* last one; whole chunks by their count.
RECURSIVE CountChunks(_, _, _)
CountChunks(m, it, end_index) ==
    IF it = End(m) THEN 0
    ELSE IF it[2] = 1 /\ m[it[1]].end <= end_index
    THEN m[it[1]].count + CountChunks(m, <<it[1] + 1, 1>>, end_index)
    ELSE LET r == At(m, it)
         IN IF r[2] <= end_index THEN Size(r) + CountChunks(m, Following(m, it), end_index)
            ELSE IF r[1] < end_index THEN end_index - r[1] ELSE 0

\* The rest of a chunk that the start index falls into the middle of.
RECURSIVE CountRest(_, _, _, _)
CountRest(m, it, end_index, ret) ==
    IF it # End(m) /\ At(m, it)[2] < end_index /\ it[2] # 1
    THEN CountRest(m, Following(m, it), end_index, ret + Size(At(m, it)))
    ELSE LET part == IF it # End(m) /\ At(m, it)[1] < end_index /\ it[2] # 1
                     THEN end_index - At(m, it)[1] ELSE 0
         IN IF it = End(m) \/ At(m, it)[2] >= end_index THEN ret + part
            ELSE ret + part + CountChunks(m, it, end_index)

Count(m, start_index, end_index) ==
    LET it   == Find(m, start_index)
        r    == At(m, it)
        from == IF r[1] > start_index THEN r[1] ELSE start_index
    IN IF it = End(m) \/ r[1] >= end_index THEN 0
       ELSE IF r[2] >= end_index THEN end_index - from
       ELSE IF start_index > r[1] \/ it[2] # 1
       THEN CountRest(m, Following(m, it), end_index, r[2] - from)
       ELSE CountChunks(m, it, end_index)

ShiftIndex(m, index) ==
    FoldLeft(LAMBDA i, r : IF r[1] > i THEN i ELSE i + Size(r), index, Ranges(m))

UnshiftIndex(m, index) == index - Count(m, 0, index)

----------------------------------------------------------------------------
(* IndexSet: what the operations make of the vector                        *)

DoAdd(m, it, index) ==
    LET valid  == it # End(m)
        before == it # Begin
        prev   == Preceding(m, it)
        grown  == Adjust(m, prev, 0, 1)
    IN IF valid /\ At(m, it)[1] <= index /\ At(m, it)[2] > index
       THEN [m |-> m, it |-> it]
       ELSE IF before /\ At(m, prev)[2] = index
       THEN IF valid /\ At(grown, prev)[2] = At(m, it)[1]
            THEN LET e == Erase(Adjust(grown, prev, 0, Size(At(m, it))), it)
                 IN [m |-> e.m, it |-> Preceding(e.m, e.it)]
            ELSE [m |-> grown, it |-> prev]
       ELSE IF valid /\ At(m, it)[1] = index + 1
       THEN [m |-> Adjust(m, it, -1, 0), it |-> it]
       ELSE Insert(m, it, <<index, index + 1>>)

DoErase(m, it, index) ==
    LET r == At(m, it)
    IN IF r[1] <= index
       THEN IF r[1] + 1 = r[2]
            THEN LET e == Erase(m, it) IN ShiftFrom(e.m, e.it, -1)
            ELSE ShiftFrom(Adjust(m, it, 0, -1), Following(m, it), -1)
       ELSE IF it # Begin /\ At(m, Preceding(m, it))[2] + 1 = r[1]
       THEN LET e == Erase(Adjust(m, Preceding(m, it), 0, Size(r)), it)
            IN ShiftFrom(e.m, e.it, -1)
       ELSE ShiftFrom(m, it, -1)

RECURSIVE DoRemove(_, _, _, _)
DoRemove(m, from, begin, end) ==
    LET it == FindFrom(m, begin, from)
        r  == At(m, it)
        b  == IF r[1] > begin THEN r[1] ELSE begin
    IN IF it = End(m) \/ r[1] >= end THEN [m |-> m, it |-> it]
       ELSE IF r[1] < b /\ r[2] > end
       THEN LET split == SetRange(m, it, r[1], b)
                new   == Insert(split, Following(split, it), <<end, r[2]>>)
            IN DoRemove(new.m, Preceding(new.m, new.it), b, end)
       ELSE IF b = r[1] /\ end >= r[2]
       THEN LET e == Erase(m, it) IN DoRemove(e.m, e.it, b, end)
       ELSE IF b = r[1] THEN DoRemove(SetRange(m, it, end, r[2]), it, b, end)
       ELSE DoRemove(SetRange(m, it, r[1], b), it, b, end)

Add(m, index) == DoAdd(m, Find(m, index), index).m

AddAll(m, other) ==
    FoldLeft(LAMBDA acc, index : DoAdd(acc.m, FindFrom(acc.m, index, acc.it), index),
             [m |-> m, it |-> Begin], AsIndexes(other)).m

\* The IndexSet of a set of indexes.
FromSet(S) == FoldLeft(Add, <<>>, SetToSortSeq(S, <))

\* Past the whole chunks before the index, by their counts, then past ranges.
RECURSIVE SkipChunks(_, _, _)
SkipChunks(m, it, index) ==
    IF it # End(m) /\ m[it[1]].end <= index
    THEN SkipChunks(m, <<it[1] + 1, 1>>, index + m[it[1]].count)
    ELSE [it |-> it, index |-> index]

RECURSIVE SkipRanges(_, _, _)
SkipRanges(m, it, index) ==
    IF it # End(m) /\ At(m, it)[1] <= index
    THEN SkipRanges(m, Following(m, it), index + Size(At(m, it)))
    ELSE [it |-> it, index |-> index]

AddShifted(m, index) ==
    LET c == SkipChunks(m, Begin, index)
        s == SkipRanges(m, c.it, c.index)
    IN [m |-> DoAdd(m, s.it, s.index).m, index |-> s.index]

\* The merge of add_shifted_by: what it pushes to the builder.  shifts and olds
\* are the ranges not passed yet, the shifts how much the passed ones hold.
RECURSIVE MergeShifted(_, _, _, _, _, _)
MergeShifted(values, shifts, olds, skip_until, old_shift, new_shift) ==
    IF values = <<>> THEN olds
    ELSE IF shifts # <<>> /\ Head(shifts)[1] <= Head(values)
    THEN MergeShifted(values, Tail(shifts), olds, Head(shifts)[2], old_shift,
                      new_shift + Size(Head(shifts)))
    ELSE IF Head(values) < skip_until
    THEN MergeShifted(Tail(values), shifts, olds, skip_until, old_shift, new_shift)
    ELSE IF olds # <<>> /\ Head(olds)[1] <= Head(values) - new_shift + old_shift
    THEN Singles(AsIndexes(<<Chunk(<<Head(olds)>>)>>))
            \o MergeShifted(values, shifts, Tail(olds), skip_until,
                            old_shift + Size(Head(olds)), new_shift)
    ELSE Singles(<<Head(values) - new_shift + old_shift>>)
            \o MergeShifted(Tail(values), shifts, olds, skip_until, old_shift, new_shift)

AddShiftedBy(m, shifted_by, values) ==
    IF values = <<>> THEN m
    ELSE Finalize(m, MergeShifted(AsIndexes(values), Ranges(shifted_by), Ranges(m), 0, 0, 0))

RECURSIVE AddRun(_, _, _, _)
AddRun(m, pos, index, count) ==
    IF count = 0 THEN m
    ELSE LET a == DoAdd(m, pos, index)
         IN AddRun(a.m, Following(a.m, a.it), index + 1, count - 1)

InsertIndexes(m, index, count) ==
    LET pos == Find(m, index)
    IN IF pos = End(m) THEN AddRun(m, pos, index, count)
       ELSE IF At(m, pos)[1] <= index
       THEN ShiftFrom(Adjust(m, pos, 0, count), Following(m, pos), count)
       ELSE AddRun(ShiftFrom(m, pos, count), pos, index, count)

\* The merges of insert_at and shift_for_insert_at for sets, and of erase_at.
RECURSIVE MergeInsert(_, _, _, _)
MergeInsert(is, js, shift, keep) ==
    IF is = <<>> THEN IF keep THEN js ELSE <<>>
    ELSE IF js = <<>> \/ Head(is) + shift < Head(js)
    THEN <<Head(is) + shift>> \o MergeInsert(Tail(is), js, shift, keep)
    ELSE (IF keep THEN <<Head(js)>> ELSE <<>>) \o MergeInsert(is, Tail(js), shift + 1, keep)

RECURSIVE MergeErase(_, _, _)
MergeErase(is, js, shift) ==
    IF is = <<>> THEN <<>>
    ELSE IF js = <<>> \/ Head(is) < Head(js)
    THEN <<Head(is) - shift>> \o MergeErase(Tail(is), js, shift)
    ELSE MergeErase(IF Head(is) = Head(js) THEN Tail(is) ELSE is, Tail(js), shift + 1)

InsertIndexSet(m, positions) ==
    IF positions = <<>> THEN m
    ELSE IF m = <<>> THEN positions
    ELSE Finalize(m, Singles(MergeInsert(AsIndexes(m), AsIndexes(positions), 0, TRUE)))

ShiftForIndexes(m, index, count) ==
    LET it    == Find(m, index)
        moved == ShiftFrom(m, it, count)
        r     == At(moved, it)
    IN IF it = End(m) THEN m
       ELSE IF r[1] < index + count
       THEN LET split == SetRange(moved, it, r[1] - count, index)
            IN Insert(split, Following(split, it), <<index + count, r[2]>>).m
       ELSE moved

ShiftForIndexSet(m, values) ==
    IF m = <<>> \/ values = <<>> THEN m
    ELSE IF values[1].begin >= m[Len(m)].end THEN m
    ELSE Finalize(m, Singles(MergeInsert(AsIndexes(m), AsIndexes(values), 0, FALSE)))

\* Mutant of EraseIndex: an index outside the set moves nothing.
EraseIndexInside(m, index) ==
    IF ContainsIndex(m, index) THEN DoErase(m, Find(m, index), index) ELSE m

EraseIndex(m, index) ==
    LET it == Find(m, index) IN IF it = End(m) THEN m ELSE DoErase(m, it, index)

EraseIndexSet(m, positions) ==
    IF m = <<>> \/ positions = <<>> THEN m
    ELSE Finalize(m, Singles(MergeErase(AsIndexes(m), AsIndexes(positions), 0)))

\* The index without the ranges before it: whole chunks by their counts, then
\* ranges; npos, here -1, for an index of the set.
EraseOrUnshift(m, index) ==
    LET whole  == {o \in DOMAIN m : m[o].end <= index}
        it     == Find(m, index)
        inside == IF it = End(m) THEN <<>> ELSE SubSeq(m[it[1]].data, 1, it[2] - 1)
        shifted == index - FoldSet(LAMBDA o, n : n + m[o].count, 0, whole) - SizeOf(inside)
    IN IF it = End(m) THEN [m |-> m, index |-> shifted]
       ELSE [m     |-> DoErase(m, it, index),
             index |-> IF At(m, it)[1] <= index THEN -1 ELSE shifted]

RemoveIndexes(m, index, count) == DoRemove(m, Find(m, index), index, index + count).m

RECURSIVE RemoveFrom(_, _, _)
RemoveFrom(m, it, ranges) ==
    IF ranges = <<>> THEN m
    ELSE LET new == DoRemove(m, it, Head(ranges)[1], Head(ranges)[2])
         IN IF new.it = End(new.m) THEN new.m ELSE RemoveFrom(new.m, new.it, Tail(ranges))

RemoveAllOf(m, values) == RemoveFrom(m, Begin, Ranges(values))

----------------------------------------------------------------------------
Init == m_data = <<>> /\ ref = {}

Indexes == 0 .. MaxIndex

\* The operation yields m; the set it should yield is S, within the bound.
Becomes(m, S) ==
    /\ S \subseteq Indexes
    /\ m_data' = m
    /\ ref' = S

add(index) == Becomes(Add(m_data, index), ref \cup {index})

add_all(S) == Becomes(AddAll(m_data, FromSet(S)), ref \cup S)

add_shifted(index) ==
    Becomes(AddShifted(m_data, index).m, I!AddShifted(ref, index))

add_shifted_by(by, values) ==
    LET new == AddShiftedBy(m_data, FromSet(by), FromSet(values))
    IN /\ MayOverfill \/ Len(new) <= RangesIn(m_data) \div MaxSize + 1
       /\ Becomes(new, I!AddShiftedBy(ref, by, values))

set(len) == Becomes(IF len > 0 THEN PushBack(<<>>, <<0, len>>) ELSE <<>>, 0 .. len - 1)

insert_at(index, count) ==
    Becomes(InsertIndexes(m_data, index, count), I!InsertRangeAt(ref, index, count))

insert_at_all(S) ==
    Becomes(InsertIndexSet(m_data, FromSet(S)), I!InsertAtAll(ref, S))

shift_for_insert_at(index, count) ==
    Becomes(ShiftForIndexes(m_data, index, count), I!ShiftForInsertAt(ref, index, count))

shift_for_insert_at_all(S) ==
    Becomes(ShiftForIndexSet(m_data, FromSet(S)), I!ShiftForInsertAtAll(ref, S))

erase_at(index) == Becomes(EraseIndex(m_data, index), I!EraseAt(ref, index))

erase_at_all(S) == Becomes(EraseIndexSet(m_data, FromSet(S)), I!EraseAtAll(ref, S))

erase_or_unshift(index) ==
    Becomes(EraseOrUnshift(m_data, index).m, I!EraseAt(ref, index))

remove(index, count) ==
    Becomes(RemoveIndexes(m_data, index, count), ref \ (index .. index + count - 1))

remove_all(S) == Becomes(RemoveAllOf(m_data, FromSet(S)), ref \ S)

Next ==
    \/ \E index \in Indexes : \/ add(index) \/ add_shifted(index)
                              \/ erase_at(index) \/ erase_or_unshift(index)
    \/ \E index \in Indexes, count \in {1, 2} :
          insert_at(index, count) \/ shift_for_insert_at(index, count) \/ remove(index, count)
    \/ \E len \in 0 .. MaxIndex + 1 : set(len)
    \/ \E S \in Batches : \/ add_all(S) \/ insert_at_all(S) \/ erase_at_all(S)
                          \/ shift_for_insert_at_all(S) \/ remove_all(S)
    \/ \E S, T \in Batches : add_shifted_by(S, T)

Spec == Init /\ [][Next]_vars

----------------------------------------------------------------------------
(* Properties                                                              *)

\* The chunks hold exactly the indexes that the operations were asked for,
\* whatever order they came in and however the chunks were split on the way.
DenotesRef == ToSet(AsIndexes(m_data)) = ref

\* What verify() asserts after every operation: ranges that do not touch, no
\* chunk that is empty or too long, and chunk bounds and counts that describe
\* the ranges.
ChunksVerify ==
    /\ \A o \in DOMAIN m_data :
          /\ Len(m_data[o].data) \in 1 .. MaxSize
          /\ m_data[o] = Chunk(m_data[o].data)
    /\ LET rs == Ranges(m_data)
       IN /\ \A k \in DOMAIN rs : rs[k][1] < rs[k][2]
          /\ \A k \in 1 .. Len(rs) - 1 : rs[k][2] < rs[k + 1][1]

\* The positions that the set translates between the two sides of a change:
\* the queries and the answers of add_shifted and erase_or_unshift.
PositionsExact ==
    \A i \in Indexes :
        /\ ContainsIndex(m_data, i) <=> i \in ref
        /\ ShiftIndex(m_data, i) = I!Shift(ref, i)
        /\ AddShifted(m_data, i).index = I!Shift(ref, i)
        /\ i \notin ref => UnshiftIndex(m_data, i) = I!Unshift(ref, i)
        /\ EraseOrUnshift(m_data, i).index = IF i \in ref THEN -1 ELSE I!Unshift(ref, i)

\* count(start_index, end_index) counts "the indices in the set in the given
\* range", wherever the range starts.
CountExact ==
    \A start, end \in Indexes :
        start <= end => Count(m_data, start, end) = I!CountIn(ref, start, end)
=============================================================================
