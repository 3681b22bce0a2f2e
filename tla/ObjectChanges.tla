--------------------------- MODULE ObjectChanges ---------------------------
(***************************************************************************)
(* What the observers of single objects are told: the transaction log      *)
(* handler collects an ObjectChangeSet for a table, one for each version   *)
(* that notifiers start from (IncrementalChangeInfo), the sets are merged  *)
(* so that each notifier sees everything since its own version, and        *)
(* ObjectNotifier::run looks its object up.  One table is modelled: tables *)
(* share nothing.  A notifier that starts from a version may watch it or   *)
(* only others, or lists.                                                  *)
(*                                                                         *)
(* A span is an element of IncrementalChangeInfo::m_info, with what really *)
(* happened to the objects that were there at its beginning.               *)
(***************************************************************************)
EXTENDS Naturals, Sequences

CONSTANTS
  Keys, Cols,   \* object keys and columns
  Start,        \* the objects at the first version
  MaxSpans,     \* bound: versions that notifiers start from
  MaxSteps      \* bound: instructions in the transaction logs

\* what the constants are
ObjectsAssumption == Start \subseteq Keys /\ MaxSpans \in Nat /\ MaxSteps \in Nat

VARIABLES
  reuse,    \* a key may be given to a new object when the old one is gone
  present,  \* the objects there are
  used,     \* keys that some object has had
  spans,    \* m_info
  stage,    \* "reading" the logs, "merging" the sets, or "crashed" in merge
  at,       \* the span that is merged into the one before it next
  taken     \* instructions so far

objectVars == <<reuse, present, used, spans, stage, at, taken>>

\* an ObjectChangeSet; a key is in m_modifications if it has columns
Nothing == [deletions |-> {}, insertions |-> {}, modifications |-> [k \in Keys |-> {}],
            clear |-> FALSE]

\* tracked: the table is in the tables of the span; read: it was when the logs of the
\* span were; watched: a notifier that starts here asked for it.
\* there: objects at the beginning; kept: those that still are; set: columns set in them
Span(objects, watches, inherits) ==
  [change |-> Nothing, tracked |-> watches \/ inherits, read |-> watches \/ inherits,
   watched |-> watches, there |-> objects, kept |-> objects, set |-> [k \in Keys |-> {}]]

ObjectsInit ==
  /\ reuse \in BOOLEAN
  /\ present = Start /\ used = Start
  /\ \E watches \in BOOLEAN : spans = <<Span(Start, watches, FALSE)>>
  /\ stage = "reading" /\ at = 0 /\ taken = 0

----------------------------------------------------------------------------
(* The instructions of the transaction log                                 *)

Current == spans[Len(spans)].change

\* the handler records in the current set only, and only if it has one for the table
\* (select_table); what happens, happens to all spans
Record(change, gone, key, cols) ==
  /\ stage = "reading" /\ taken < MaxSteps
  /\ taken' = taken + 1
  /\ spans' = [i \in DOMAIN spans |->
       [spans[i] EXCEPT !.change = IF i = Len(spans) /\ spans[i].tracked THEN change ELSE @,
                        !.kept = @ \ gone, !.set[key] = @ \cup cols]]
  /\ UNCHANGED <<reuse, stage, at>>

create_object(k) ==
  /\ k \notin present /\ (reuse \/ k \notin used)
  /\ present' = present \cup {k} /\ used' = used \cup {k}
  /\ Record([Current EXCEPT !.insertions = @ \cup {k}], {}, k, {})

\* an object that was inserted since leaves no trace
remove_object(k) ==
  /\ k \in present
  /\ present' = present \ {k}
  /\ Record([Current EXCEPT !.deletions = IF k \in Current.insertions THEN @ ELSE @ \cup {k},
                         !.insertions = @ \ {k}, !.modifications[k] = {}], {k}, k, {})
  /\ UNCHANGED used

\* modifications of new objects are not reported
modify_object(k, col) ==
  /\ k \in present
  /\ Record([Current EXCEPT !.modifications[k] =
               IF k \in Current.insertions THEN @ ELSE @ \cup {col}], {}, k, {col})
  /\ UNCHANGED <<present, used>>

clear_table ==
  /\ present' = {}
  /\ Record([Nothing EXCEPT !.clear = TRUE], Keys, CHOOSE k \in Keys : TRUE, {})
  /\ UNCHANGED used

\* a table without changes is no longer tracked
tables_parse_complete(span) == [span EXCEPT !.tracked = @ /\ span.change # Nothing]

\* a notifier starts from a later version; the tables that are still tracked stay so
advance_incremental(watches) ==
  LET n == Len(spans)
      parsed == tables_parse_complete(spans[n])
  IN /\ stage = "reading" /\ n < MaxSpans
     /\ spans' = Append([spans EXCEPT ![n] = parsed], Span(present, watches, parsed.tracked))
     /\ UNCHANGED <<reuse, present, used, stage, at, taken>>

----------------------------------------------------------------------------
(* Merging                                                                 *)

\* mutant: only what this span cleared
MergeForgetsClear(change, later) ==
  IF change = Nothing THEN later
  ELSE [deletions |-> change.deletions \cup later.deletions,
        insertions |-> change.insertions \cup later.insertions,
        modifications |-> [k \in Keys |->
          IF k \in later.deletions THEN later.modifications[k]
          ELSE change.modifications[k] \cup later.modifications[k]],
        clear |-> change.clear]

merge(change, later) ==
  IF change = Nothing THEN later
  ELSE [deletions |-> change.deletions \cup later.deletions,
        insertions |-> change.insertions \cup later.insertions,
        modifications |-> [k \in Keys |->
          IF k \in later.deletions THEN later.modifications[k]
          ELSE change.modifications[k] \cup later.modifications[k]],
        clear |-> change.clear \/ later.clear]

\* For an object that was inserted and later deleted, merge calls erase of one set
\* with an iterator of the other, which searches a bucket for a node it cannot
\* hold and follows the null pointer at its end.
ErasesForeign(change, later) ==
  change # Nothing /\ later.deletions \cap change.insertions # {}

\* the logs have been read: from the last span to the first
advance_to_final ==
  /\ stage = "reading"
  /\ stage' = "merging" /\ at' = Len(spans)
  /\ spans' = [spans EXCEPT ![Len(spans)] = tables_parse_complete(@)]
  /\ UNCHANGED <<reuse, present, used, taken>>

\* one iteration of its loop: a span without the table leaves the one before it alone
MergeBack ==
  /\ stage = "merging" /\ at > 1
  /\ LET change == spans[at - 1].change
         later  == spans[at].change
     IN \/ /\ ~spans[at].tracked
           /\ at' = at - 1
           /\ UNCHANGED <<spans, stage>>
        \/ /\ spans[at].tracked /\ ErasesForeign(change, later)
           /\ stage' = "crashed"
           /\ UNCHANGED <<spans, at>>
        \/ /\ spans[at].tracked /\ ~ErasesForeign(change, later)
           /\ spans' = [spans EXCEPT ![at - 1].change = merge(change, later),
                                     ![at - 1].tracked = TRUE]
           /\ at' = at - 1
           /\ UNCHANGED stage
  /\ UNCHANGED <<reuse, present, used, taken>>

ObjectsNext ==
  \/ clear_table \/ advance_to_final \/ MergeBack
  \/ \E watches \in BOOLEAN : advance_incremental(watches)
  \/ \E k \in Keys :
       create_object(k) \/ remove_object(k) \/ \E col \in Cols : modify_object(k, col)

ObjectsSpec == ObjectsInit /\ [][ObjectsNext]_objectVars

----------------------------------------------------------------------------
(* ObjectNotifier::run                                                     *)

deletions_contains(change, k) ==
  IF change.clear THEN k \notin change.insertions ELSE k \in change.deletions

run(span, k) ==
  LET deleted == span.tracked /\ deletions_contains(span.change, k)
  IN [deleted |-> deleted,
      columns |-> IF span.tracked /\ ~deleted THEN span.change.modifications[k] ELSE {}]

\* deletions_contains takes a new object with the key for the old one.
Replaced(span, k) == span.change.clear /\ k \in span.change.insertions

\* What an observer of object k from the version of a span on must be told.
ToldExactly(span, k) ==
  /\ Replaced(span, k) \/ (run(span, k).deleted <=> k \notin span.kept)
  /\ k \in span.kept => run(span, k).columns = span.set[k]

\* The logs since span i were read with the table among the tracked ones.
ReadOn(i) == \A j \in i .. Len(spans) : spans[j].read

\* Whoever observes an object is never told that it was deleted when it was not, nor
\* of a column that was not set; and who observes it from a version since which the
\* table was read is told that it was deleted if and only if it was, and otherwise
\* exactly the columns that were set, whatever was merged: unless a table was cleared
\* and the key given to a new object.
ObjectsTold ==
  stage = "merging" /\ at = 1 =>
    \A i \in DOMAIN spans : spans[i].watched => \A k \in spans[i].there :
      /\ run(spans[i], k).deleted => k \notin spans[i].kept
      /\ k \in spans[i].kept => run(spans[i], k).columns \subseteq spans[i].set[k]
      /\ ReadOn(i) => ToldExactly(spans[i], k)

\* "We now need to combine the transaction change info objects so that all of the
\* notifiers see the complete set of changes from their first version to the most
\* recent one": every observer is told everything since its version.
SeeComplete ==
  stage = "merging" /\ at = 1 =>
    \A i \in DOMAIN spans : spans[i].watched =>
      \A k \in spans[i].there : ToldExactly(spans[i], k)

\* "Drop any inserted-then-deleted rows": merging leaves them out, and returns.
MergeDropsTransient == stage # "crashed"
=============================================================================
