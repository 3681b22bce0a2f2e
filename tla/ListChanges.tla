---------------------------- MODULE ListChanges ----------------------------
(***************************************************************************)
(* How the changes of a list reach its observers: TransactLogObserver      *)
(* (ObjectStore/src/impl/transact_log_handler.cpp) turns the instructions  *)
(* of a transaction log into a CollectionChangeBuilder, the collection     *)
(* notifier merges the changes of several transactions                     *)
(* (CollectionNotifier::add_changes), and KVOAdapter turns a change into   *)
(* what key-value observers can be told.                                   *)
(*                                                                         *)
(* The list is a sequence of distinct entries: base when the accumulated   *)
(* change began, mid after the last merged transaction, now after the      *)
(* instructions read since.  An entry keeps its identity when it is moved  *)
(* or set.                                                                 *)
(***************************************************************************)
EXTENDS ChangeBuilder

CONSTANTS StartSize,        \* entries of the list at first
          MaxSize,          \* bound: entries of the list
          MaxInserts,       \* bound: entries inserted in all
          MaxInstructions,  \* bound: instructions in a transaction
          MaxMerges         \* bound: transactions merged

ListAssumption == StartSize \in Nat

VARIABLES base, mid, now,   \* the list at the three points
          accumulated,      \* accumulated_changes: base to mid
          active,           \* m_active_list: mid to now
          setBefore,        \* entries set between base and mid
          setSince,         \* entries set between mid and now
          inserted,         \* how many entries were inserted
          steps, merges

lists == <<base, mid, now>>
counters == <<inserted, steps, merges>>
listVars == <<lists, accumulated, active, setBefore, setSince, counters>>

ListsInit ==
    /\ base = [k \in 1 .. StartSize |-> k]
    /\ mid = base /\ now = base
    /\ accumulated = NoChange /\ active = NoChange
    /\ setBefore = {} /\ setSince = {}
    /\ inserted = 0 /\ steps = 0 /\ merges = 0

Positions(list) == 0 .. Len(list) - 1

\* The entry at a position.
Entry(list, i) == list[i + 1]

Without(list, i) == SubSeq(list, 1, i) \o SubSeq(list, i + 2, Len(list))

With(list, i, e) == SubSeq(list, 1, i) \o <<e>> \o SubSeq(list, i + 1, Len(list))

Step(list, change) ==
    /\ steps < MaxInstructions
    /\ steps' = steps + 1
    /\ now' = list
    /\ active' = change
    /\ UNCHANGED <<base, mid, accumulated, setBefore, merges>>

----------------------------------------------------------------------------
(* TransactLogObserver                                                     *)

list_set(index) ==
    /\ Step(now, ModifiedAt(active, index))
    /\ setSince' = setSince \cup {Entry(now, index)}
    /\ UNCHANGED inserted

list_insert(index) ==
    /\ inserted < MaxInserts /\ Len(now) < MaxSize
    /\ Step(With(now, index, StartSize + inserted + 1), Inserted(active, index, 1))
    /\ inserted' = inserted + 1
    /\ UNCHANGED setSince

list_erase(index) ==
    /\ Step(Without(now, index), Erased(active, index))
    /\ UNCHANGED <<setSince, inserted>>

list_move(from, to) ==
    /\ from # to
    /\ Step(With(Without(now, from), to, Entry(now, from)), Moved(active, from, to))
    /\ UNCHANGED <<setSince, inserted>>

\* A swap is told as two moves, or one when the entries are neighbours.
list_swap(index1, index2) ==
    /\ index1 < index2
    /\ LET first == Moved(active, index1, index2)
       IN Step([now EXCEPT ![index1 + 1] = Entry(now, index2), ![index2 + 1] = Entry(now, index1)],
               IF index1 + 1 # index2 THEN Moved(first, index2 - 1, index1) ELSE first)
    /\ UNCHANGED <<setSince, inserted>>

list_clear ==
    /\ Step(<<>>, Cleared(active, Len(now)))
    /\ UNCHANGED <<setSince, inserted>>

\* The end of a transaction's log; its change joins the accumulated one.
parse_complete ==
    /\ steps > 0 /\ merges < MaxMerges
    /\ merges' = merges + 1
    /\ accumulated' = Merge(accumulated, CleanUpStaleMoves(active))
    /\ mid' = now
    /\ setBefore' = setBefore \cup setSince
    /\ active' = NoChange /\ setSince' = {} /\ steps' = 0
    /\ UNCHANGED <<base, now, inserted>>

ListsNext ==
    \/ \E i \in Positions(now) : list_set(i) \/ list_erase(i)
    \/ \E i \in 0 .. Len(now) : list_insert(i)
    \/ \E i, j \in Positions(now) : list_move(i, j) \/ list_swap(i, j)
    \/ list_clear
    \/ parse_complete

ListsSpec == ListsInit /\ [][ListsNext]_listVars

----------------------------------------------------------------------------
(* KVOAdapter::before                                                      *)

\* The maximal runs of a set of indexes, in order, as half-open ranges.
Runs(S) ==
    LET firsts == {i \in S : i - 1 \notin S}
        RunFrom(i) == <<i, CHOOSE e \in i + 1 .. i + Cardinality(S) :
                             e \notin S /\ i .. e - 1 \subseteq S>>
    IN [k \in 1 .. Cardinality(firsts) |->
           RunFrom(CHOOSE i \in firsts : CountIn(firsts, 0, i) = k - 1)]

\* in_range: the iterator moves on by one range at most.
Advance(runs, it, i) == IF it <= Len(runs) /\ i >= runs[it][2] THEN it + 1 ELSE it

InRange(runs, it, i) == it <= Len(runs) /\ i >= runs[it][1] /\ i < runs[it][2]

\* The rows between the first and the last move that are not where they were.
ShiftedByMoves(b) ==
    LET dels  == Runs(b.deletions)
        ins   == Runs(b.insertions)
        both  == b.deletions \cup b.insertions
        start == CHOOSE i \in both : \A j \in both : i <= j
        end   == 1 + CHOOSE i \in both : \A j \in both : i >= j
        State[i \in start - 1 .. end - 1] ==
            IF i = start - 1 THEN [del |-> 1, ins |-> 1, shift |-> 0, rows |-> {}]
            ELSE LET s   == State[i - 1]
                     d   == Advance(dels, s.del, i)
                     out == InRange(dels, d, i)
                     n   == IF out THEN s.ins ELSE Advance(ins, s.ins, i + s.shift)
                     shift == IF out THEN s.shift - 1
                              ELSE IF InRange(ins, n, i + s.shift) THEN s.shift + 1
                              ELSE s.shift
                 IN [del |-> d, ins |-> n, shift |-> shift,
                     rows |-> IF shift # 0 THEN s.rows \cup {i} ELSE s.rows]
    IN State[end - 1].rows

KvoChange(b) ==
    LET modified == b.modifications \ b.insertions
        moves    == Len(b.moves)
        many     == Cardinality({k \in 1 .. 3 :
                       <<b.insertions, modified, b.deletions>>[k] # {}}) > 1
    IN IF moves > 0 /\ Cardinality(b.insertions) = moves /\ Cardinality(b.deletions) = moves
       THEN [kind |-> "Set", indices |-> modified \cup b.deletions \cup ShiftedByMoves(b)]
       ELSE IF many THEN [kind |-> "SetAll", indices |-> {}]
       ELSE IF b.insertions # {} THEN [kind |-> "Insert", indices |-> b.insertions]
       ELSE IF modified # {} THEN [kind |-> "Set", indices |-> modified]
       ELSE [kind |-> "Remove", indices |-> b.deletions]

----------------------------------------------------------------------------
(* Properties                                                              *)

EntriesOf(list) == {list[k] : k \in DOMAIN list}

\* A change takes one list to another the way UITableView applies a batch:
\* delete at the old positions, insert at the new ones, and of what is left the
\* n-th entry of the one list is the n-th of the other.
Takes(change, old, new) ==
    /\ change.deletions \subseteq Positions(old)
    /\ change.insertions \subseteq Positions(new)
    /\ Len(old) - Cardinality(change.deletions) = Len(new) - Cardinality(change.insertions)
    /\ \A i \in Positions(old) \ change.deletions, j \in Positions(new) \ change.insertions :
          Unshift(change.deletions, i) = Unshift(change.insertions, j)
             => Entry(old, i) = Entry(new, j)

\* A move names one entry that was there before and still is, once, and is a
\* deletion and an insertion as well (verify()).
MovesRight(b, old, new) ==
    /\ \A k \in DOMAIN b.moves :
          /\ b.moves[k].from \in b.deletions
          /\ b.moves[k].to \in b.insertions
          /\ Entry(old, b.moves[k].from) = Entry(new, b.moves[k].to)
    /\ \A j, k \in DOMAIN b.moves : b.moves[j].to = b.moves[k].to => j = k

\* Whatever instructions a transaction holds, what TransactLogObserver gathers of
\* them describes the list: where entries went and came, which were moved, and that
\* exactly those set are modified.
TransactionExact ==
    /\ Takes(active, mid, now)
    /\ MovesRight(active, mid, now)
    /\ active.modifications = {i \in Positions(now) : Entry(now, i) \in setSince}

\* The same of however many transactions merged: collection_change_builder.cpp.
MergedChangeExact ==
    Takes(accumulated, base, mid) /\ MovesRight(accumulated, base, mid)

\* The rows reported as modified, at their old and at their new positions, are
\* exactly the ones that were set and stayed where they are.
ModificationsExact ==
    LET f == Finalize(accumulated)
    IN /\ {Entry(mid, i) : i \in f.modifications_new} =
             {e \in EntriesOf(mid) \cap setBefore : \A i \in f.insertions : Entry(mid, i) # e}
       /\ {Entry(base, i) : i \in f.modifications} = {Entry(mid, i) : i \in f.modifications_new}

\* "The indices of the objects in the new collection which were modified in
\* this version": the modifications an observer is given, read that way.
ModificationsAreNewPositions ==
    LET f == Finalize(accumulated)
    IN \A i \in f.modifications : i \in Positions(mid) /\ Entry(mid, i) \in setBefore

\* What key-value observers are told suits an array: outside the indices
\* nothing happened to it.
Told(kvo) ==
    CASE kvo.kind = "Insert" -> Takes([NoChange EXCEPT !.insertions = kvo.indices], mid, now)
      [] kvo.kind = "Remove" -> Takes([NoChange EXCEPT !.deletions = kvo.indices], mid, now)
      [] kvo.kind = "Set"    ->
           /\ Len(mid) = Len(now)
           /\ \A i \in Positions(now) :
                 Entry(mid, i) # Entry(now, i) \/ Entry(now, i) \in setSince
                    => i \in kvo.indices
      [] OTHER -> TRUE

\* Insertions, deletions and sets reach key-value observers exactly, or as a
\* replacement of the whole list when they come together (KVOAdapter::before).
KvoWithoutMoves ==
    LET b == CleanUpStaleMoves(active)
    IN b # NoChange /\ b.moves = <<>> => Told(KvoChange(b))

\* The change of a list that the transaction log handler and merge() make takes the
\* old list to the new one, its moves name entries, what finalize() reports as
\* modified was set and stayed, and KVOAdapter tells what happened if nothing was
\* moved.
ListChangesExact ==
    TransactionExact /\ MergedChangeExact /\ ModificationsExact /\ KvoWithoutMoves

\* A list whose only changes are moves is told as set at "each affected
\* index": every position whose entry is another one now.
KvoWithMoves ==
    LET b == CleanUpStaleMoves(active)
    IN b.moves # <<>> => Told(KvoChange(b))
=============================================================================
