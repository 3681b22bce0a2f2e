---------------------------- MODULE ChangesProofs ----------------------------
(***************************************************************************)
(* Which changes there are and who is told of them.  The three parts share *)
(* no state: ObjectsInv is an inductive invariant of ObjectChanges, for    *)
(* any objects, columns, transaction logs and numbers of versions; DeepInv *)
(* one of DeepChanges, for any objects, links and limits; CallbacksInv one *)
(* of NotifierCallbacks, for any number of callbacks and packages, and any *)
(* size_t that can count them.                                             *)
(***************************************************************************)
EXTENDS ObjectChanges, DeepChanges, NotifierCallbacks,
        WellFoundedInduction, SequenceTheorems, TLAPS

----------------------------------------------------------------------------
(* Single objects                                                          *)

\* ObjectChangeSet
Changes == [deletions : SUBSET Keys, insertions : SUBSET Keys,
            modifications : [Keys -> SUBSET Cols], clear : BOOLEAN]

\* what is gathered from one observed version on
Spans == [change : Changes, tracked : BOOLEAN, read : BOOLEAN, watched : BOOLEAN,
          there : SUBSET Keys, kept : SUBSET Keys, set : [Keys -> SUBSET Cols]]

\* The types; what is merged is one of the spans.
SpansTyped ==
  /\ spans \in Seq(Spans) /\ Len(spans) >= 1
  /\ present \subseteq Keys
  /\ stage \in {"reading", "merging", "crashed"}
  /\ stage # "reading" => at \in 1 .. Len(spans)

\* the change of a span
Change(i) == spans[i].change

\* the object at k is told as deleted
Gone(c, k) == c.clear \/ k \in c.deletions

\* The change of span i says nothing yet of what happened in later spans.
Apart(i) == i < Len(spans) /\ (stage # "reading" => i < at)

\* Objects that stayed since an earlier version stayed since a later one.
KeptOn ==
  /\ \A i \in DOMAIN spans : spans[i].kept \subseteq spans[i].there
  /\ \A i \in 1 .. Len(spans) - 1 : spans[i].kept \subseteq spans[i + 1].kept
  /\ stage = "reading" => \A i \in DOMAIN spans : spans[i].kept \subseteq present

\* An object that stayed is neither new nor deleted, in the set of any span.
KeptUntold ==
  \A i \in DOMAIN spans : \A k \in spans[i].kept :
    ~Gone(Change(i), k) /\ k \notin Change(i).insertions

\* The set of a table that is not tracked is empty; a table that was tracked when a
\* span began is until its logs have been read.
Tracks ==
  /\ \A i \in DOMAIN spans : ~spans[i].tracked => Change(i) = Nothing
  /\ stage = "reading" => spans[Len(spans)].tracked = spans[Len(spans)].read

\* One that did not is told as gone, in the set of the span or in a later one, if the
\* table was read since.
LostTold ==
  \A i \in DOMAIN spans : ReadOn(i) => \A k \in spans[i].there \ spans[i].kept :
    \/ Gone(Change(i), k)
    \/ Apart(i) /\ k \in spans[i + 1].there \ spans[i + 1].kept

\* The columns of an object that stayed are told, the set of the span and those of
\* later ones taken together, if the table was read since.
SetTold ==
  \A i \in DOMAIN spans : ReadOn(i) => \A k \in spans[i].kept :
    /\ ~Apart(i) => spans[i].set[k] = Change(i).modifications[k]
    /\ Apart(i) => spans[i].set[k] = Change(i).modifications[k] \cup spans[i + 1].set[k]

\* No column is told that was not set since the version of the span.
OnlySetTold ==
  /\ \A i \in DOMAIN spans : \A k \in spans[i].kept :
       Change(i).modifications[k] \subseteq spans[i].set[k]
  /\ \A i \in 1 .. Len(spans) - 1 : \A k \in Keys : spans[i + 1].set[k] \subseteq spans[i].set[k]

\* The inductive invariant.
ObjectsInv ==
  SpansTyped /\ KeptOn /\ KeptUntold /\ Tracks /\ LostTold /\ SetTold /\ OnlySetTold

\* The types of the spans, component by component.
LEMMA SpanTyped ==
  ASSUME SpansTyped
  PROVE  /\ Len(spans) \in Nat /\ DOMAIN spans = 1 .. Len(spans)
         /\ \A i \in DOMAIN spans :
              /\ spans[i] \in Spans /\ spans[i].change \in Changes
              /\ spans[i].tracked \in BOOLEAN /\ spans[i].read \in BOOLEAN
              /\ spans[i].there \subseteq Keys /\ spans[i].kept \subseteq Keys
              /\ spans[i].set \in [Keys -> SUBSET Cols]
              /\ spans[i].change.deletions \subseteq Keys
              /\ spans[i].change.insertions \subseteq Keys
              /\ spans[i].change.modifications \in [Keys -> SUBSET Cols]
              /\ spans[i].change.clear \in BOOLEAN
<1>1. Len(spans) \in Nat /\ DOMAIN spans = 1 .. Len(spans)
  BY DEF SpansTyped
<1>2. \A i \in DOMAIN spans : spans[i] \in Spans
  BY DEF SpansTyped
<1>3. \A s \in Spans : /\ s.change \in Changes /\ s.there \subseteq Keys
                       /\ s.kept \subseteq Keys /\ s.set \in [Keys -> SUBSET Cols]
                       /\ s.tracked \in BOOLEAN /\ s.read \in BOOLEAN
  BY DEF Spans
<1>4. \A c \in Changes : /\ c.deletions \subseteq Keys /\ c.insertions \subseteq Keys
                         /\ c.modifications \in [Keys -> SUBSET Cols]
                         /\ c.clear \in BOOLEAN
  BY DEF Changes
<1> QED BY <1>1, <1>2, <1>3, <1>4

\* The invariant holds at first.
LEMMA InitObjectsInv ==
  ASSUME ObjectsAssumption, ObjectsInit
  PROVE  ObjectsInv
<1>1. PICK watches \in BOOLEAN : spans = <<Span(Start, watches, FALSE)>>
  BY DEF ObjectsInit
<1>2. /\ Len(spans) = 1 /\ DOMAIN spans = {1} /\ spans[1] = Span(Start, watches, FALSE)
      /\ Span(Start, watches, FALSE) \in Spans /\ spans \in Seq(Spans)
  BY <1>1 DEF ObjectsAssumption, Span, Nothing, Spans, Changes
<1>0. stage = "reading" /\ present = Start /\ Start \subseteq Keys
  BY DEF ObjectsInit, ObjectsAssumption
<1>3. SpansTyped
  BY <1>0, <1>2 DEF SpansTyped
<1>4. /\ spans[1].kept = Start /\ spans[1].there = Start
      /\ spans[1].set = [k \in Keys |-> {}] /\ spans[1].change = Nothing
      /\ spans[1].tracked = spans[1].read
  BY <1>2 DEF Span
<1>7. Len(spans) = 1 /\ (\A i \in DOMAIN spans : i = 1) /\ 1 .. Len(spans) - 1 = {} /\ 1 \in DOMAIN spans
  BY <1>2
<1>5. KeptOn /\ KeptUntold /\ Tracks /\ LostTold
  <2>1. KeptOn
    BY <1>0, <1>4, <1>7 DEF KeptOn
  <2>2. KeptUntold
    <3>1. ~Nothing.clear /\ Nothing.deletions = {} /\ Nothing.insertions = {}
      BY DEF Nothing
    <3> QED BY <1>4, <1>7, <3>1 DEF KeptUntold, Gone, Change
  <2>3. Tracks
    BY <1>4, <1>7 DEF Tracks, Change
  <2>4. LostTold
    BY <1>4, <1>7 DEF LostTold
  <2> QED BY <2>1, <2>2, <2>3, <2>4
<1>6. SetTold /\ OnlySetTold
  <2>1. spans[1].change.modifications = [k \in Keys |-> {}] /\ ~Apart(1)
    BY <1>4, <1>7 DEF Nothing, Apart
  <2>2. SetTold
    BY <1>0, <1>4, <1>7, <2>1 DEF SetTold, Change
  <2>3. OnlySetTold
    BY <1>0, <1>4, <1>7, <2>1 DEF OnlySetTold, Change
  <2> QED BY <2>2, <2>3
<1> QED BY <1>3, <1>5, <1>6 DEF ObjectsInv

\* An instruction is recorded right if the current set goes on telling what it told as
\* gone, and follows it for the objects that stayed since its version.
RecordedRight(change, gone, key, cols) ==
  /\ \A k \in Keys : Gone(Current, k) => Gone(change, k)
  /\ \A k \in spans[Len(spans)].kept :
       /\ k \in gone => Gone(change, k)
       /\ k \notin gone =>
            /\ ~Gone(change, k) /\ k \notin change.insertions
            /\ k # key => change.modifications[k] = Current.modifications[k]
            /\ k = key => change.modifications[k] = Current.modifications[k] \cup cols

\* Recording an instruction rightly in the last set keeps the invariant.
LEMMA RecordStep ==
  ASSUME ObjectsInv, NEW change \in Changes, NEW gone, NEW key, NEW cols \in SUBSET Cols,
         Record(change, gone, key, cols),
         present' \subseteq Keys, present \ gone \subseteq present',
         RecordedRight(change, gone, key, cols)
  PROVE  ObjectsInv'
<1> DEFINE n == Len(spans)
<1>1. /\ stage = "reading" /\ stage' = "reading" /\ at' = at
      /\ n \in Nat /\ n >= 1 /\ DOMAIN spans = 1 .. n
  BY SpanTyped DEF Record, ObjectsInv, SpansTyped
<1>2. DOMAIN spans' = 1 .. n /\ \A i \in 1 .. n :
        spans'[i] = [spans[i] EXCEPT
                       !.change = IF i = n /\ spans[i].tracked THEN change ELSE @,
                       !.kept = @ \ gone, !.set[key] = @ \cup cols]
  BY <1>1 DEF Record
<1>3. \A i \in 1 .. n :
        /\ spans'[i] \in Spans
        /\ spans'[i].change = IF i = n /\ spans[n].tracked THEN change ELSE spans[i].change
        /\ spans'[i].there = spans[i].there
        /\ spans'[i].kept = spans[i].kept \ gone
        /\ spans'[i].tracked = spans[i].tracked /\ spans'[i].read = spans[i].read
        /\ \A k \in Keys : spans'[i].set[k] = IF k = key THEN spans[i].set[k] \cup cols
                                             ELSE spans[i].set[k]
  <2> SUFFICES ASSUME NEW i \in 1 .. n
               PROVE  /\ spans'[i] \in Spans
                      /\ spans'[i].change =
                           IF i = n /\ spans[n].tracked THEN change ELSE spans[i].change
                      /\ spans'[i].there = spans[i].there
                      /\ spans'[i].kept = spans[i].kept \ gone
                      /\ spans'[i].tracked = spans[i].tracked /\ spans'[i].read = spans[i].read
                      /\ \A k \in Keys : spans'[i].set[k] =
                           IF k = key THEN spans[i].set[k] \cup cols ELSE spans[i].set[k]
    OBVIOUS
  <2> DEFINE old == spans[i].set
             new == [old EXCEPT ![key] = @ \cup cols]
             recorded == IF i = n /\ spans[i].tracked THEN change ELSE spans[i].change
  <2>1. /\ spans[i] \in Spans /\ recorded \in Changes
        /\ spans[i].kept \ gone \in SUBSET Keys /\ old \in [Keys -> SUBSET Cols]
    BY <1>1, SpanTyped DEF ObjectsInv
  <2>2. spans'[i] = [spans[i] EXCEPT !.change = recorded, !.kept = @ \ gone, !.set = new]
    BY <1>2, <2>1 DEF Spans
  <2>3. \A k \in Keys : new[k] = IF k = key THEN old[k] \cup cols ELSE old[k]
    <3> HIDE DEF old
    <3> QED BY <2>1
  <2>4. new \in [Keys -> SUBSET Cols]
    <3> HIDE DEF old
    <3> QED BY <2>1, <2>3
  <2>5. \A k \in Keys : new[k] = IF k = key THEN spans[i].set[k] \cup cols ELSE spans[i].set[k]
    BY <2>3
  <2>6. recorded = IF i = n /\ spans[n].tracked THEN change ELSE spans[i].change
    OBVIOUS
  <2> HIDE DEF new, recorded
  <2> QED BY <2>1, <2>2, <2>4, <2>5, <2>6 DEF Spans
<1>4. \A i \in 1 .. n : spans'[i] \in Spans
  BY <1>3
<1>5. spans' \in Seq(Spans) /\ Len(spans') = n
  <2>1. spans' = [i \in 1 .. n |-> spans'[i]]
    BY <1>1, <1>2 DEF Record
  <2> QED BY <1>1, <1>4, <2>1
<1>6. SpansTyped'
  BY <1>1, <1>5 DEF SpansTyped
<1>7. KeptOn'
  <2>1. \A i \in 1 .. n :
          spans[i].kept \subseteq spans[i].there /\ spans[i].kept \subseteq present
    BY <1>1 DEF ObjectsInv, KeptOn
  <2>2. \A i \in 1 .. n - 1 : spans[i].kept \subseteq spans[i + 1].kept
    BY DEF ObjectsInv, KeptOn
  <2>3. \A i \in 1 .. n - 1 : i \in 1 .. n /\ i + 1 \in 1 .. n
    BY <1>1
  <2>4. \A i \in 1 .. n - 1 : spans'[i].kept \subseteq spans'[i + 1].kept
    BY <1>3, <2>2, <2>3
  <2>5. \A i \in 1 .. n : spans'[i].kept \subseteq spans'[i].there
                         /\ spans'[i].kept \subseteq present'
    BY <1>3, <2>1
  <2> QED BY <1>2, <1>5, <2>4, <2>5 DEF KeptOn
<1>8. KeptUntold'
  <2>1. \A k \in spans[n].kept \ gone : ~Gone(change, k) /\ k \notin change.insertions
    BY DEF RecordedRight
  <2>2. \A i \in 1 .. n : Change(i)' = IF i = n /\ spans[n].tracked THEN change ELSE Change(i)
    BY <1>3 DEF Change
  <2>3. \A i \in 1 .. n : \A k \in spans[i].kept :
          ~Gone(Change(i), k) /\ k \notin Change(i).insertions
    BY <1>1 DEF ObjectsInv, KeptUntold
  <2>4. \A i \in 1 .. n : \A k \in spans'[i].kept :
          ~Gone(Change(i)', k) /\ k \notin Change(i)'.insertions
    BY <1>3, <2>1, <2>2, <2>3
  <2> QED BY <1>2, <2>4 DEF KeptUntold, Gone
<1>9. \A i \in 1 .. n : Apart(i)' = Apart(i) /\ (Apart(i) <=> i < n)
  BY <1>1, <1>5 DEF Apart
<1>10. Tracks'
  <2>1. \A i \in 1 .. n : ~spans[i].tracked => Change(i) = Nothing
    BY <1>1 DEF ObjectsInv, Tracks
  <2>2. spans[n].tracked = spans[n].read /\ n \in 1 .. n
    BY <1>1 DEF ObjectsInv, Tracks
  <2> QED BY <1>2, <1>3, <1>5, <2>1, <2>2 DEF Tracks, Change
<1>11. \A i \in 1 .. n : ReadOn(i)' => ReadOn(i) /\ spans[n].tracked
  <2> SUFFICES ASSUME NEW i \in 1 .. n, ReadOn(i)' PROVE ReadOn(i) /\ spans[n].tracked
    OBVIOUS
  <2>1. i .. n \subseteq 1 .. n /\ n \in i .. n
    BY <1>1
  <2>2. \A j \in i .. n : spans'[j].read
    BY <1>5 DEF ReadOn
  <2>3. \A j \in i .. n : spans[j].read
    BY <1>3, <2>1, <2>2
  <2> QED BY <1>1, <2>1, <2>3 DEF ReadOn, ObjectsInv, Tracks
<1>12. LostTold'
  <2> SUFFICES ASSUME NEW i \in 1 .. n, ReadOn(i)', NEW k \in Keys,
                      k \in spans'[i].there, k \notin spans'[i].kept
               PROVE  \/ Gone(Change(i), k)'
                      \/ Apart(i)' /\ k \in spans'[i + 1].there \ spans'[i + 1].kept
    BY <1>2, <1>4 DEF LostTold, Spans
  <2>1. k \in spans[i].there /\ ReadOn(i) /\ spans[n].tracked
    BY <1>3, <1>11
  <2>2. CASE k \notin spans[i].kept
    <3>1. Gone(Change(i), k) \/ (i < n /\ k \in spans[i + 1].there \ spans[i + 1].kept)
      BY <1>1, <1>9, <2>1, <2>2 DEF ObjectsInv, LostTold
    <3>2. Gone(Change(i), k) => Gone(Change(i), k)'
      BY <1>3, <2>1 DEF Change, Gone, Current, RecordedRight
    <3>3. i < n => i + 1 \in 1 .. n
      BY <1>1
    <3> HIDE DEF n
    <3> QED BY <1>3, <1>9, <3>1, <3>2, <3>3
  <2>3. CASE k \in spans[i].kept
    <3>1. k \in gone
      BY <1>3, <2>3
    <3>2. i = n => Gone(Change(i), k)'
      BY <1>3, <2>1, <2>3, <3>1 DEF Change, Gone, RecordedRight
    <3>3. i < n => k \in spans[i + 1].kept /\ k \in spans[i + 1].there
      BY <1>1, <2>3 DEF ObjectsInv, KeptOn
    <3>4. i = n \/ (i < n /\ i + 1 \in 1 .. n)
      <4>1. n \in Nat
        BY <1>1
      <4> HIDE DEF n
      <4> QED BY <4>1
    <3>5. i < n => k \in spans'[i + 1].there \ spans'[i + 1].kept
      BY <1>3, <3>1, <3>3, <3>4
    <3> QED BY <1>9, <3>2, <3>4, <3>5
  <2> QED BY <2>2, <2>3
<1>13. SetTold'
  <2> SUFFICES ASSUME NEW i \in 1 .. n, ReadOn(i)', NEW k \in Keys,
                      k \in spans[i].kept, k \notin gone
               PROVE  /\ ~Apart(i) => spans'[i].set[k] = spans'[i].change.modifications[k]
                      /\ Apart(i) => spans'[i].set[k] =
                           spans'[i].change.modifications[k] \cup spans'[i + 1].set[k]
    <3>1. \A i \in 1 .. n : spans'[i].kept \subseteq Keys
      BY <1>4 DEF Spans
    <3>2. \A i \in 1 .. n : /\ (Apart(i)' <=> Apart(i)) /\ Change(i)' = spans'[i].change
                            /\ spans'[i].kept = spans[i].kept \ gone
      BY <1>3, <1>9 DEF Change
    <3>3. SetTold' = \A i \in 1 .. n : ReadOn(i)' => \A k \in spans'[i].kept :
            /\ ~Apart(i)' => spans'[i].set[k] = Change(i)'.modifications[k]
            /\ Apart(i)' => spans'[i].set[k] = Change(i)'.modifications[k] \cup spans'[i + 1].set[k]
      BY <1>2 DEF SetTold
    <3> QED BY <3>1, <3>2, <3>3
  <2>0. ReadOn(i) /\ spans[n].tracked
    BY <1>11
  <2>1. /\ ~Apart(i) => spans[i].set[k] = Change(i).modifications[k]
        /\ Apart(i) => spans[i].set[k] = Change(i).modifications[k] \cup spans[i + 1].set[k]
    BY <1>1, <2>0 DEF ObjectsInv, SetTold
  <2>2. spans'[i].set[k] = IF k = key THEN spans[i].set[k] \cup cols ELSE spans[i].set[k]
    BY <1>3
  <2>3. CASE i = n
    <3>1. ~Apart(i)
      BY <1>1, <1>9, <2>3
    <3>2. /\ k # key => change.modifications[k] = Current.modifications[k]
          /\ k = key => change.modifications[k] = Current.modifications[k] \cup cols
      BY <2>3 DEF RecordedRight
    <3>3. spans'[i].change = change /\ Current = Change(i)
      BY <1>3, <2>0, <2>3 DEF Change, Current
    <3> QED BY <2>1, <2>2, <3>1, <3>2, <3>3
  <2>4. CASE i # n
    <3>0. i < n /\ i + 1 \in 1 .. n
      <4>1. n \in Nat
        BY <1>1
      <4> HIDE DEF n
      <4> QED BY <2>4, <4>1
    <3>1. Apart(i) /\ i + 1 \in 1 .. n
      BY <1>9, <3>0
    <3>2. spans'[i].change = Change(i)
      BY <1>3, <2>4 DEF Change
    <3>3. spans'[i + 1].set[k] = IF k = key THEN spans[i + 1].set[k] \cup cols
                                 ELSE spans[i + 1].set[k]
      BY <1>3, <3>1
    <3> QED BY <2>1, <2>2, <3>1, <3>2, <3>3
  <2> QED BY <2>3, <2>4
<1>14. OnlySetTold'
  <2>1. ASSUME NEW i \in 1 .. n, NEW k \in spans'[i].kept
        PROVE  Change(i)'.modifications[k] \subseteq spans'[i].set[k]
    <3>1. k \in Keys /\ k \in spans[i].kept /\ k \notin gone
      BY <1>1, <1>3, <2>1, SpanTyped DEF ObjectsInv
    <3>2. Change(i).modifications[k] \subseteq spans[i].set[k]
      BY <1>1, <3>1 DEF ObjectsInv, OnlySetTold
    <3>3. spans'[i].set[k] = IF k = key THEN spans[i].set[k] \cup cols ELSE spans[i].set[k]
      BY <1>3, <3>1
    <3>4. CASE i = n /\ spans[n].tracked
      <4>1. /\ k # key => change.modifications[k] = Current.modifications[k]
            /\ k = key => change.modifications[k] = Current.modifications[k] \cup cols
        BY <3>1, <3>4 DEF RecordedRight
      <4>2. Change(i)' = change /\ Current = Change(i)
        BY <1>3, <3>4 DEF Change, Current
      <4> QED BY <3>2, <3>3, <4>1, <4>2
    <3>5. CASE ~(i = n /\ spans[n].tracked)
      <4>1. Change(i)' = Change(i)
        BY <1>3, <3>5 DEF Change
      <4> QED BY <3>2, <3>3, <4>1
    <3> QED BY <3>4, <3>5
  <2>2. ASSUME NEW i \in 1 .. n - 1, NEW k \in Keys
        PROVE  spans'[i + 1].set[k] \subseteq spans'[i].set[k]
    <3>1. i \in 1 .. n /\ i + 1 \in 1 .. n
      BY <1>1
    <3>2. spans[i + 1].set[k] \subseteq spans[i].set[k]
      BY <1>1 DEF ObjectsInv, OnlySetTold
    <3> QED BY <1>3, <3>1, <3>2
  <2> QED BY <1>2, <1>5, <2>1, <2>2 DEF OnlySetTold
<1> QED BY <1>6, <1>7, <1>8, <1>10, <1>12, <1>13, <1>14 DEF ObjectsInv

\* The type of the set that is being recorded.
LEMMA CurrentTyped ==
  ASSUME ObjectsInv
  PROVE  /\ Len(spans) \in DOMAIN spans /\ Current \in Changes
         /\ Current.deletions \in SUBSET Keys /\ Current.insertions \in SUBSET Keys
         /\ Current.modifications \in [Keys -> SUBSET Cols]
         /\ spans[Len(spans)].kept \subseteq Keys
<1>1. Len(spans) \in DOMAIN spans
  BY SpanTyped DEF ObjectsInv, SpansTyped
<1> QED BY <1>1, SpanTyped DEF ObjectsInv, Current

\* A new object is nobody's that stayed.
LEMMA CreateObjectKeeps ==
  ASSUME ObjectsInv, NEW k \in Keys, create_object(k)
  PROVE  ObjectsInv'
<1> DEFINE c == [Current EXCEPT !.insertions = @ \cup {k}]
<1>1. /\ c \in Changes /\ c.insertions = Current.insertions \cup {k}
      /\ c.deletions = Current.deletions /\ c.modifications = Current.modifications
      /\ c.clear = Current.clear
  BY CurrentTyped DEF Changes
<1>2. k \notin spans[Len(spans)].kept
  BY CurrentTyped DEF create_object, Record, ObjectsInv, KeptOn
<1>3. \A x \in Keys : Gone(c, x) <=> Gone(Current, x)
  BY <1>1 DEF Gone
<1>4. \A x \in spans[Len(spans)].kept : ~Gone(Current, x) /\ x \notin c.insertions
  BY <1>1, <1>2, CurrentTyped DEF ObjectsInv, KeptUntold, Change, Current
<1>5. Record(c, {}, k, {}) /\ present' \subseteq Keys /\ present \ {} \subseteq present'
  BY DEF create_object, ObjectsInv, SpansTyped
<1> HIDE DEF c
<1>6. RecordedRight(c, {}, k, {})
  BY <1>1, <1>2, <1>3, <1>4, CurrentTyped DEF RecordedRight
<1> QED BY <1>1, <1>5, <1>6, RecordStep

\* A removed object is told as gone, or was inserted since and observed by nobody.
LEMMA RemoveObjectKeeps ==
  ASSUME ObjectsInv, NEW k \in Keys, remove_object(k)
  PROVE  ObjectsInv'
<1> DEFINE c == [Current EXCEPT !.deletions = IF k \in Current.insertions THEN @ ELSE @ \cup {k},
                                !.insertions = @ \ {k}, !.modifications[k] = {}]
<1>1. /\ c \in Changes /\ c.insertions = Current.insertions \ {k}
      /\ c.deletions = IF k \in Current.insertions THEN Current.deletions
                       ELSE Current.deletions \cup {k}
      /\ \A x \in Keys : x # k => c.modifications[x] = Current.modifications[x]
      /\ c.clear = Current.clear
  BY CurrentTyped DEF Changes
<1>2. \A x \in spans[Len(spans)].kept : ~Gone(Current, x) /\ x \notin Current.insertions
  BY CurrentTyped DEF ObjectsInv, KeptUntold, Change, Current
<1>3. Record(c, {k}, k, {}) /\ present' \subseteq Keys /\ present \ {k} \subseteq present'
  BY DEF remove_object, ObjectsInv, SpansTyped
<1> HIDE DEF c
<1>4. \A x \in Keys : Gone(Current, x) => Gone(c, x)
  BY <1>1 DEF Gone
<1>5. RecordedRight(c, {k}, k, {})
  BY <1>1, <1>2, <1>4, CurrentTyped DEF Gone, RecordedRight
<1> QED BY <1>1, <1>3, <1>5, RecordStep

\* A column that is set is told, unless the object is new.
LEMMA ModifyObjectKeeps ==
  ASSUME ObjectsInv, NEW k \in Keys, NEW col \in Cols, modify_object(k, col)
  PROVE  ObjectsInv'
<1> DEFINE c == [Current EXCEPT !.modifications[k] =
                   IF k \in Current.insertions THEN @ ELSE @ \cup {col}]
<1>1. /\ c \in Changes /\ c.insertions = Current.insertions
      /\ c.deletions = Current.deletions /\ c.clear = Current.clear
      /\ \A x \in Keys : x # k => c.modifications[x] = Current.modifications[x]
      /\ k \notin Current.insertions =>
           c.modifications[k] = Current.modifications[k] \cup {col}
  BY CurrentTyped DEF Changes
<1>2. \A x \in spans[Len(spans)].kept : ~Gone(Current, x) /\ x \notin Current.insertions
  BY CurrentTyped DEF ObjectsInv, KeptUntold, Change, Current
<1>3. Record(c, {}, k, {col}) /\ present' \subseteq Keys /\ present \ {} \subseteq present'
  BY DEF modify_object, ObjectsInv, SpansTyped
<1> HIDE DEF c
<1>4. \A x \in Keys : Gone(c, x) <=> Gone(Current, x)
  BY <1>1 DEF Gone
<1>5. RecordedRight(c, {}, k, {col})
  BY <1>1, <1>2, <1>4, CurrentTyped DEF RecordedRight
<1> QED BY <1>1, <1>3, <1>5, RecordStep

\* A cleared table tells that all objects are gone.
LEMMA ClearTableKeeps ==
  ASSUME ObjectsInv, clear_table
  PROVE  ObjectsInv'
<1> DEFINE c == [Nothing EXCEPT !.clear = TRUE]
           key == CHOOSE k \in Keys : TRUE
<1>1. c \in Changes /\ c.clear
  BY DEF Nothing, Changes
<1>2. Record(c, Keys, key, {}) /\ present' \subseteq Keys /\ present \ Keys \subseteq present'
  BY DEF clear_table, ObjectsInv, SpansTyped
<1> HIDE DEF c, key
<1>3. \A x : Gone(c, x)
  BY <1>1 DEF Gone
<1>4. RecordedRight(c, Keys, key, {})
  BY <1>3, CurrentTyped DEF RecordedRight
<1> QED BY <1>1, <1>2, <1>4, RecordStep

\* Once its logs have been read, a span says what it said: only an empty set is dropped.
LEMMA ParsedKeeps ==
  ASSUME NEW span \in Spans, ~span.tracked => span.change = Nothing
  PROVE  LET parsed == tables_parse_complete(span)
         IN /\ parsed \in Spans /\ parsed.change = span.change /\ parsed.read = span.read
            /\ parsed.there = span.there /\ parsed.kept = span.kept /\ parsed.set = span.set
            /\ ~parsed.tracked => parsed.change = Nothing
BY DEF tables_parse_complete, Spans

\* A new span begins with nothing told, and what it tells completes the others, if the
\* table goes on being tracked.
LEMMA AdvanceKeeps ==
  ASSUME ObjectsInv, NEW watches \in BOOLEAN, advance_incremental(watches)
  PROVE  ObjectsInv'
<1>0. SUFFICES ASSUME NEW CONSTANT n, n = Len(spans) PROVE ObjectsInv'
  OBVIOUS
<1> DEFINE parsed == tables_parse_complete(spans[n])
           new == Span(present, watches, parsed.tracked)
<1>1. /\ stage = "reading" /\ stage' = "reading"
      /\ spans' = Append([spans EXCEPT ![n] = parsed], new)
      /\ present' = present /\ present \subseteq Keys
  BY <1>0 DEF advance_incremental, ObjectsInv, SpansTyped
<1>2. n \in Nat /\ n >= 1 /\ DOMAIN spans = 1 .. n /\ spans \in Seq(Spans) /\ n \in 1 .. n
  BY <1>0, SpanTyped DEF ObjectsInv, SpansTyped
<1>3. /\ parsed \in Spans /\ parsed.tracked \in BOOLEAN
      /\ parsed.change = spans[n].change /\ parsed.read = spans[n].read
      /\ parsed.there = spans[n].there /\ parsed.kept = spans[n].kept
      /\ parsed.set = spans[n].set /\ (~parsed.tracked => parsed.change = Nothing)
  <2>1. spans[n] \in Spans /\ (~spans[n].tracked => spans[n].change = Nothing)
    BY <1>2 DEF ObjectsInv, Tracks, Change
  <2> HIDE DEF parsed
  <2>2. parsed \in Spans => parsed.tracked \in BOOLEAN
    BY DEF Spans
  <2> QED BY <2>1, <2>2, ParsedKeeps DEF parsed
<1> HIDE DEF parsed
<1>4. /\ new.change = Nothing /\ new.kept = present /\ new.there = present
      /\ new.tracked = new.read
      /\ \A k \in Keys : new.set[k] = {}
      /\ new \in Spans
  BY <1>1, <1>3 DEF Span, Nothing, Spans, Changes
<1> HIDE DEF new
<1>5. /\ spans' \in Seq(Spans) /\ Len(spans') = n + 1 /\ DOMAIN spans' = 1 .. n + 1
      /\ spans'[n + 1] = new /\ \A i \in 1 .. n : spans'[i] = IF i = n THEN parsed ELSE spans[i]
  <2> DEFINE old == [spans EXCEPT ![n] = parsed]
  <2>1. /\ old \in Seq(Spans) /\ Len(old) = n
        /\ \A i \in 1 .. n : old[i] = IF i = n THEN parsed ELSE spans[i]
    BY <1>0, <1>2, <1>3
  <2>2. spans' = Append(old, new)
    BY <1>1
  <2> HIDE DEF old
  <2> QED BY <1>2, <1>4, <2>1, <2>2
<1>6. \A i \in 1 .. n :
        /\ spans'[i].change = spans[i].change /\ spans'[i].read = spans[i].read
        /\ spans'[i].there = spans[i].there /\ spans'[i].kept = spans[i].kept
        /\ spans'[i].set = spans[i].set
        /\ Change(i)' = Change(i)
  BY <1>3, <1>5 DEF Change
<1>7. SpansTyped'
  BY <1>1, <1>2, <1>5 DEF SpansTyped
<1>8. \A i \in 1 .. n + 1 : i = n + 1 \/ i \in 1 .. n
  BY <1>2
<1>9. /\ \A i \in 1 .. n : spans[i].kept \subseteq spans[i].there
      /\ \A i \in 1 .. n : spans[i].kept \subseteq present
      /\ \A i \in 1 .. n - 1 : spans[i].kept \subseteq spans[i + 1].kept
  BY <1>0, <1>1, <1>2 DEF ObjectsInv, KeptOn
<1>10. KeptOn'
  <2>1. \A i \in 1 .. n : spans'[i].kept \subseteq spans'[i + 1].kept
    <3> SUFFICES ASSUME NEW i \in 1 .. n PROVE spans'[i].kept \subseteq spans'[i + 1].kept
      OBVIOUS
    <3>1. CASE i = n
      BY <1>4, <1>5, <1>6, <1>9, <3>1
    <3>2. CASE i # n
      <4>1. i \in 1 .. n - 1 /\ i + 1 \in 1 .. n
        BY <1>2, <3>2
      <4> QED BY <1>6, <1>9, <4>1
    <3> QED BY <3>1, <3>2
  <2>2. \A i \in 1 .. n + 1 : spans'[i].kept \subseteq spans'[i].there
                             /\ spans'[i].kept \subseteq present'
    BY <1>1, <1>4, <1>5, <1>6, <1>8, <1>9
  <2> QED BY <1>2, <1>5, <2>1, <2>2 DEF KeptOn
<1>11. /\ \A k : ~Gone(Nothing, k) /\ k \notin Nothing.insertions
       /\ Change(n + 1)' = Nothing
  BY <1>4, <1>5 DEF Gone, Nothing, Change
<1>12. KeptUntold'
  <2> SUFFICES ASSUME NEW i \in 1 .. n + 1, NEW k \in spans'[i].kept
               PROVE  ~Gone(Change(i)', k) /\ k \notin Change(i)'.insertions
    BY <1>5 DEF KeptUntold, Gone
  <2>1. CASE i = n + 1
    BY <1>11, <2>1
  <2>2. CASE i \in 1 .. n
    BY <1>2, <1>6, <2>2 DEF ObjectsInv, KeptUntold
  <2> QED BY <1>8, <2>1, <2>2
<1>13. Tracks'
  <2>1. \A i \in 1 .. n : ~spans[i].tracked => Change(i) = Nothing
    BY <1>2 DEF ObjectsInv, Tracks
  <2>2. \A i \in 1 .. n : ~spans'[i].tracked => Change(i)' = Nothing
    BY <1>3, <1>5, <1>6, <2>1 DEF Change
  <2>3. \A i \in 1 .. n + 1 : ~spans'[i].tracked => Change(i)' = Nothing
    BY <1>8, <1>11, <2>2
  <2>4. spans'[Len(spans')].tracked = spans'[Len(spans')].read
    BY <1>4, <1>5
  <2> QED BY <1>5, <2>3, <2>4 DEF Tracks
<1>14. \A i \in 1 .. n : Apart(i)' /\ (ReadOn(i)' => ReadOn(i))
  <2> SUFFICES ASSUME NEW i \in 1 .. n PROVE Apart(i)' /\ (ReadOn(i)' => ReadOn(i))
    OBVIOUS
  <2>1. Apart(i)'
    BY <1>1, <1>2, <1>5 DEF Apart
  <2>2. \A j \in i .. n : j \in 1 .. n /\ j \in i .. n + 1
    BY <1>2
  <2>3. ASSUME ReadOn(i)' PROVE ReadOn(i)
    <3>1. \A j \in i .. n + 1 : spans'[j].read
      BY <1>5, <2>3 DEF ReadOn
    <3>2. \A j \in i .. n : spans[j].read
      BY <1>6, <2>2, <3>1
    <3> QED BY <1>0, <3>2 DEF ReadOn
  <2> QED BY <2>1, <2>3
<1>15. ~Apart(n + 1)'
  BY <1>2, <1>5 DEF Apart
<1>16. LostTold'
  <2> SUFFICES ASSUME NEW i \in 1 .. n + 1, ReadOn(i)',
                      NEW k \in spans'[i].there \ spans'[i].kept
               PROVE  \/ Gone(Change(i), k)'
                      \/ Apart(i)' /\ k \in spans'[i + 1].there \ spans'[i + 1].kept
    BY <1>5 DEF LostTold
  <2>1. i \in 1 .. n
    BY <1>4, <1>5, <1>8
  <2>2. Change(i)' = Change(i) /\ ReadOn(i)
    BY <1>6, <1>14, <2>1
  <2>3. \/ Gone(Change(i), k)
        \/ Apart(i) /\ k \in spans[i + 1].there \ spans[i + 1].kept
    BY <1>2, <1>6, <2>1, <2>2 DEF ObjectsInv, LostTold
  <2>4. Apart(i) => i + 1 \in 1 .. n
    BY <1>0, <1>2, <2>1 DEF Apart
  <2> QED BY <1>6, <1>14, <2>1, <2>2, <2>3, <2>4 DEF Gone
<1>17. SetTold'
  <2> SUFFICES ASSUME NEW i \in 1 .. n + 1, ReadOn(i)', NEW k \in spans'[i].kept
               PROVE  /\ ~Apart(i)' => spans'[i].set[k] = Change(i)'.modifications[k]
                      /\ Apart(i)' => spans'[i].set[k] =
                           Change(i)'.modifications[k] \cup spans'[i + 1].set[k]
    BY <1>5 DEF SetTold
  <2>1. k \in Keys
    BY <1>1, <1>4, <1>5, <1>6, <1>8, <1>9
  <2>2. Nothing.modifications[k] = {} /\ new.set[k] = {}
    BY <1>4, <2>1 DEF Nothing
  <2>3. CASE i = n + 1
    BY <1>4, <1>5, <1>11, <1>15, <2>2, <2>3
  <2>4. CASE i \in 1 .. n
    <3>1. /\ Change(i)' = Change(i) /\ spans'[i].set = spans[i].set /\ Apart(i)'
          /\ k \in spans[i].kept /\ ReadOn(i)
      BY <1>6, <1>14, <2>4
    <3>2. /\ ~Apart(i) => spans[i].set[k] = Change(i).modifications[k]
          /\ Apart(i) => spans[i].set[k] = Change(i).modifications[k] \cup spans[i + 1].set[k]
      BY <1>2, <2>4, <3>1 DEF ObjectsInv, SetTold
    <3>3. CASE i = n
      <4>1. ~Apart(i) /\ spans'[i + 1] = new
        BY <1>0, <1>2, <1>5, <3>3 DEF Apart
      <4> QED BY <2>2, <3>1, <3>2, <4>1
    <3>4. CASE i # n
      <4>1. Apart(i) /\ i + 1 \in 1 .. n
        BY <1>0, <1>1, <1>2, <2>4, <3>4 DEF Apart
      <4> QED BY <1>6, <3>1, <3>2, <4>1
    <3> QED BY <3>3, <3>4
  <2> QED BY <1>8, <2>3, <2>4
<1>18. OnlySetTold'
  <2>1. ASSUME NEW i \in 1 .. n + 1, NEW k \in spans'[i].kept
        PROVE  Change(i)'.modifications[k] \subseteq spans'[i].set[k]
    <3>1. CASE i = n + 1
      <4>1. k \in Keys
        BY <1>1, <1>4, <1>5, <2>1, <3>1
      <4>2. Change(i)'.modifications[k] = {}
        BY <1>11, <3>1, <4>1 DEF Nothing
      <4> QED BY <4>2
    <3>2. CASE i \in 1 .. n
      BY <1>2, <1>6, <2>1, <3>2 DEF ObjectsInv, OnlySetTold
    <3> QED BY <1>8, <3>1, <3>2
  <2>2. ASSUME NEW i \in 1 .. n, NEW k \in Keys
        PROVE  spans'[i + 1].set[k] \subseteq spans'[i].set[k]
    <3>1. CASE i = n
      BY <1>4, <1>5, <3>1
    <3>2. CASE i # n
      <4>1. i \in 1 .. n - 1 /\ i + 1 \in 1 .. n
        BY <1>2, <3>2
      <4>2. spans[i + 1].set[k] \subseteq spans[i].set[k]
        BY <1>0, <4>1 DEF ObjectsInv, OnlySetTold
      <4> QED BY <1>6, <4>1, <4>2
    <3> QED BY <3>1, <3>2
  <2>3. 1 .. Len(spans') - 1 = 1 .. n
    BY <1>2, <1>5
  <2> QED BY <1>5, <2>1, <2>2, <2>3 DEF OnlySetTold
<1> QED BY <1>7, <1>10, <1>12, <1>13, <1>16, <1>17, <1>18 DEF ObjectsInv

\* When merging begins, the last span tells everything since its version.
LEMMA MergingBegins ==
  ASSUME ObjectsInv, advance_to_final
  PROVE  ObjectsInv'
<1> DEFINE n == Len(spans)
           parsed == tables_parse_complete(spans[n])
<1>1. /\ stage = "reading" /\ stage' = "merging" /\ at' = n
      /\ spans' = [spans EXCEPT ![n] = parsed] /\ present' = present
  BY DEF advance_to_final
<1>2. n \in Nat /\ n >= 1 /\ DOMAIN spans = 1 .. n /\ spans \in Seq(Spans) /\ n \in 1 .. n
  BY SpanTyped DEF ObjectsInv, SpansTyped
<1>3. /\ parsed \in Spans
      /\ parsed.change = spans[n].change /\ parsed.read = spans[n].read
      /\ parsed.there = spans[n].there /\ parsed.kept = spans[n].kept
      /\ parsed.set = spans[n].set /\ (~parsed.tracked => parsed.change = Nothing)
  <2>1. spans[n] \in Spans /\ (~spans[n].tracked => spans[n].change = Nothing)
    BY <1>2 DEF ObjectsInv, Tracks, Change
  <2> HIDE DEF parsed
  <2> QED BY <2>1, ParsedKeeps DEF parsed
<1> HIDE DEF parsed
<1>4. /\ spans' \in Seq(Spans) /\ Len(spans') = n /\ DOMAIN spans' = 1 .. n
      /\ \A i \in 1 .. n : spans'[i] = IF i = n THEN parsed ELSE spans[i]
  BY <1>1, <1>2, <1>3
<1>5. \A i \in 1 .. n :
        /\ spans'[i].change = spans[i].change /\ spans'[i].read = spans[i].read
        /\ spans'[i].there = spans[i].there /\ spans'[i].kept = spans[i].kept
        /\ spans'[i].set = spans[i].set
        /\ Change(i)' = Change(i)
  BY <1>3, <1>4 DEF Change
<1> HIDE DEF n
<1>6. \A i : (Apart(i)' <=> Apart(i)) /\ (Apart(i) <=> i < n)
  BY <1>1, <1>4 DEF Apart, n
<1>7. \A i \in 1 .. n : i < n => i + 1 \in 1 .. n
  BY <1>2
<1>8. SpansTyped'
  BY <1>1, <1>2, <1>4 DEF ObjectsInv, SpansTyped
<1>9. KeptOn'
  <2>1. /\ \A i \in 1 .. n : spans[i].kept \subseteq spans[i].there
        /\ \A i \in 1 .. n - 1 : spans[i].kept \subseteq spans[i + 1].kept
    BY <1>2 DEF ObjectsInv, KeptOn, n
  <2>2. \A i \in 1 .. n - 1 : i \in 1 .. n /\ i + 1 \in 1 .. n
    BY <1>2
  <2> QED BY <1>1, <1>4, <1>5, <2>1, <2>2 DEF KeptOn
<1>10. KeptUntold'
  BY <1>2, <1>4, <1>5 DEF ObjectsInv, KeptUntold, Gone
<1>11. Tracks'
  <2>1. \A i \in 1 .. n : ~spans[i].tracked => Change(i) = Nothing
    BY <1>2 DEF ObjectsInv, Tracks
  <2> QED BY <1>1, <1>3, <1>4, <1>5, <2>1 DEF Tracks, Change
<1>12. \A i \in 1 .. n : ReadOn(i)' => ReadOn(i)
  <2>1. \A i \in 1 .. n : \A j \in i .. n : j \in 1 .. n
    BY <1>2
  <2> QED BY <1>4, <1>5, <2>1 DEF ReadOn, n
<1>13. LostTold'
  <2> SUFFICES ASSUME NEW i \in 1 .. n, ReadOn(i)', NEW k \in spans[i].there \ spans[i].kept
               PROVE  \/ Gone(Change(i)', k)
                      \/ Apart(i)' /\ k \in spans'[i + 1].there \ spans'[i + 1].kept
    BY <1>4, <1>5 DEF LostTold, Gone
  <2>1. \/ Gone(Change(i), k)
        \/ Apart(i) /\ k \in spans[i + 1].there \ spans[i + 1].kept
    BY <1>2, <1>12 DEF ObjectsInv, LostTold
  <2> QED BY <1>5, <1>6, <1>7, <2>1
<1>14. SetTold'
  <2> SUFFICES ASSUME NEW i \in 1 .. n, ReadOn(i)', NEW k \in spans[i].kept
               PROVE  /\ ~Apart(i)' => spans'[i].set[k] = Change(i)'.modifications[k]
                      /\ Apart(i)' => spans'[i].set[k] =
                           Change(i)'.modifications[k] \cup spans'[i + 1].set[k]
    BY <1>4, <1>5 DEF SetTold
  <2>1. /\ ~Apart(i) => spans[i].set[k] = Change(i).modifications[k]
        /\ Apart(i) => spans[i].set[k] = Change(i).modifications[k] \cup spans[i + 1].set[k]
    BY <1>2, <1>12 DEF ObjectsInv, SetTold
  <2> QED BY <1>5, <1>6, <1>7, <2>1
<1>15. OnlySetTold'
  <2>1. /\ \A i \in 1 .. n : \A k \in spans[i].kept :
             Change(i).modifications[k] \subseteq spans[i].set[k]
        /\ \A i \in 1 .. n - 1 : \A k \in Keys : spans[i + 1].set[k] \subseteq spans[i].set[k]
    BY <1>2 DEF ObjectsInv, OnlySetTold, n
  <2>2. \A i \in 1 .. n - 1 : i \in 1 .. n /\ i + 1 \in 1 .. n
    BY <1>2
  <2> QED BY <1>4, <1>5, <2>1, <2>2 DEF OnlySetTold
<1> QED BY <1>8, <1>9, <1>10, <1>11, <1>13, <1>14, <1>15 DEF ObjectsInv

\* What merge makes of the set of a span and of the next one's, which tells everything
\* since: it tells of both.
LEMMA MergeTells ==
  ASSUME NEW c \in Changes, NEW d \in Changes
  PROVE  /\ merge(c, d) \in Changes
         /\ \A k \in Keys :
              /\ Gone(merge(c, d), k) <=> Gone(c, k) \/ Gone(d, k)
              /\ k \in merge(c, d).insertions <=> k \in c.insertions \/ k \in d.insertions
              /\ k \notin d.deletions =>
                   merge(c, d).modifications[k] = c.modifications[k] \cup d.modifications[k]
<1>1. CASE c = Nothing
  <2>1. /\ c.deletions = {} /\ c.insertions = {} /\ ~c.clear
        /\ \A k \in Keys : c.modifications[k] = {}
    BY <1>1 DEF Nothing
  <2>2. merge(c, d) = d
    BY <1>1 DEF merge
  <2> QED BY <2>1, <2>2 DEF Gone
<1>2. CASE c # Nothing
  <2> DEFINE mods == [k \in Keys |-> IF k \in d.deletions THEN d.modifications[k]
                                     ELSE c.modifications[k] \cup d.modifications[k]]
             m == merge(c, d)
  <2>1. /\ c.deletions \subseteq Keys /\ c.insertions \subseteq Keys /\ c.clear \in BOOLEAN
        /\ d.deletions \subseteq Keys /\ d.insertions \subseteq Keys /\ d.clear \in BOOLEAN
        /\ c.modifications \in [Keys -> SUBSET Cols]
        /\ d.modifications \in [Keys -> SUBSET Cols]
    BY DEF Changes
  <2>2. m = [deletions |-> c.deletions \cup d.deletions,
             insertions |-> c.insertions \cup d.insertions,
             modifications |-> mods, clear |-> c.clear \/ d.clear]
    BY <1>2 DEF merge
  <2>3. mods \in [Keys -> SUBSET Cols]
    BY <2>1
  <2>4. \A k \in Keys : k \notin d.deletions =>
          mods[k] = c.modifications[k] \cup d.modifications[k]
    OBVIOUS
  <2> HIDE DEF mods, m
  <2>5. /\ m.deletions = c.deletions \cup d.deletions
        /\ m.insertions = c.insertions \cup d.insertions
        /\ m.modifications = mods /\ m.clear = (c.clear \/ d.clear)
    BY <2>2
  <2>6. m \in Changes
    BY <2>1, <2>2, <2>3 DEF Changes
  <2>7. \A k \in Keys : Gone(m, k) <=> Gone(c, k) \/ Gone(d, k)
    BY <2>5 DEF Gone
  <2> QED BY <2>4, <2>5, <2>6, <2>7 DEF m
<1> QED BY <1>1, <1>2

\* An iteration makes the set before it complete.
LEMMA MergeBackKeeps ==
  ASSUME ObjectsInv, MergeBack
  PROVE  ObjectsInv'
<1>0. SUFFICES ASSUME NEW CONSTANT n, NEW CONSTANT p, NEW CONSTANT q, NEW CONSTANT c,
                      NEW CONSTANT d, n = Len(spans), q = at, p = at - 1,
                      c = spans[p].change, d = spans[q].change
               PROVE  ObjectsInv'
  OBVIOUS
<1>1. /\ stage = "merging" /\ at > 1 /\ at \in 1 .. n /\ n \in Nat
      /\ p \in 1 .. n /\ p < n /\ p + 1 = q /\ q \in 1 .. n /\ DOMAIN spans = 1 .. n
      /\ present' = present
  BY <1>0, SpanTyped DEF MergeBack, ObjectsInv, SpansTyped
<1>2. CASE stage' = "crashed"
  <2>1. spans' = spans /\ at' = at
    BY <1>1, <1>2 DEF MergeBack
  <2>2. \A i : (Apart(i)' <=> Apart(i)) /\ (ReadOn(i)' <=> ReadOn(i))
    BY <1>1, <1>2, <2>1 DEF Apart, ReadOn
  <2>3. SpansTyped'
    BY <1>1, <1>2, <2>1 DEF ObjectsInv, SpansTyped
  <2>4. KeptOn' /\ KeptUntold' /\ Tracks' /\ OnlySetTold'
    BY <1>1, <1>2, <2>1 DEF ObjectsInv, KeptOn, KeptUntold, Tracks, OnlySetTold, Change, Gone
  <2>5. LostTold'
    BY <2>1, <2>2 DEF ObjectsInv, LostTold, Change, Gone
  <2>6. SetTold'
    BY <2>1, <2>2 DEF ObjectsInv, SetTold, Change
  <2> QED BY <2>3, <2>4, <2>5, <2>6 DEF ObjectsInv
<1>3. CASE stage' # "crashed"
  <2> DEFINE joins == spans[q].tracked
             m == IF joins THEN merge(c, d) ELSE c
             joined == IF joins THEN [spans[p] EXCEPT !.change = m, !.tracked = TRUE]
                       ELSE spans[p]
  <2>1. \A i \in 1 .. n : spans[i] \in Spans
    BY <1>0, <1>1, SpanTyped DEF ObjectsInv
  <2>2. c \in Changes /\ d \in Changes /\ spans \in Seq(Spans) /\ (~joins => d = Nothing)
    BY <1>0, <1>1, SpanTyped DEF ObjectsInv, SpansTyped, Tracks, Change
  <2>3. stage' = "merging" /\ at' = p /\ spans' = [spans EXCEPT ![p] = joined]
    <3>1. CASE joins
      <4>1. /\ stage' = "merging" /\ at' = p
            /\ spans' = [spans EXCEPT ![p].change = m, ![p].tracked = TRUE]
        BY <1>0, <1>1, <1>3, <3>1 DEF MergeBack
      <4> QED BY <1>1, <2>1, <2>2, <3>1, <4>1
    <3>2. CASE ~joins
      <4>1. stage' = "merging" /\ at' = p /\ spans' = spans
        BY <1>0, <1>1, <1>3, <3>2 DEF MergeBack
      <4>2. [spans EXCEPT ![p] = spans[p]] = spans
        BY <1>1, <2>2
      <4> QED BY <3>2, <4>1, <4>2
    <3> QED BY <3>1, <3>2
  <2>4. m \in Changes /\ \A k \in Keys :
          /\ Gone(m, k) <=> Gone(c, k) \/ Gone(d, k)
          /\ k \in m.insertions <=> k \in c.insertions \/ k \in d.insertions
          /\ k \notin d.deletions => m.modifications[k] = c.modifications[k] \cup d.modifications[k]
    <3>1. CASE joins
      <4>1. m = merge(c, d)
        BY <3>1 DEF m
      <4>2. c \in Changes /\ d \in Changes
        BY <2>2
      <4> HIDE DEF m
      <4> QED BY <4>1, <4>2, MergeTells
    <3>2. CASE ~joins
      <4>1. /\ d.deletions = {} /\ d.insertions = {} /\ ~d.clear
            /\ \A k \in Keys : d.modifications[k] = {}
        BY <2>2, <3>2 DEF Nothing
      <4> QED BY <2>2, <3>2, <4>1 DEF Gone, Changes
    <3> QED BY <3>1, <3>2
  <2>5. /\ joined \in Spans /\ joined.change = m
        /\ joined.kept = spans[p].kept /\ joined.there = spans[p].there
        /\ joined.set = spans[p].set /\ joined.read = spans[p].read
        /\ joined.tracked = (joins \/ spans[p].tracked)
    <3>1. spans[p] \in Spans /\ spans[p].change = c /\ m \in Changes /\ joins \in BOOLEAN
      BY <1>0, <1>1, <2>1, <2>4, SpanTyped DEF ObjectsInv
    <3>2. CASE joins
      <4> HIDE DEF m
      <4> QED BY <3>1, <3>2 DEF Spans
    <3>3. CASE ~joins
      BY <3>1, <3>3 DEF Spans
    <3> QED BY <3>1, <3>2, <3>3
  <2> HIDE DEF m, joined
  <2>6. /\ spans' \in Seq(Spans) /\ Len(spans') = n /\ DOMAIN spans' = 1 .. n
        /\ \A i \in 1 .. n : i # p => spans'[i] = spans[i]
        /\ spans'[p] = joined
    BY <1>0, <1>1, <2>2, <2>3, <2>5
  <2>7. SpansTyped'
    BY <1>0, <1>1, <2>3, <2>6 DEF ObjectsInv, SpansTyped
  <2>8. \A i \in 1 .. n : /\ spans'[i].kept = spans[i].kept
                          /\ spans'[i].read = spans[i].read
                          /\ spans'[i].there = spans[i].there
                          /\ spans'[i].set = spans[i].set
                          /\ spans[i].kept \subseteq Keys /\ spans[i].there \subseteq Keys
    BY <1>1, <2>5, <2>6, SpanTyped DEF ObjectsInv
  <2>9. \A i \in 1 .. n - 1 : i \in 1 .. n /\ i + 1 \in 1 .. n
    BY <1>1
  <2>10. /\ \A i \in 1 .. n : spans[i].kept \subseteq spans[i].there
         /\ \A i \in 1 .. n - 1 : spans[i].kept \subseteq spans[i + 1].kept
    BY <1>0, <1>1 DEF ObjectsInv, KeptOn
  <2>11. KeptOn'
    BY <2>3, <2>6, <2>8, <2>9, <2>10 DEF KeptOn
  <2>12. Change(p) = c /\ Change(q) = d /\ Change(p)' = m
         /\ \A i \in 1 .. n : i # p => Change(i)' = Change(i)
    BY <1>0, <2>5, <2>6 DEF Change
  <2>13. \A i \in 1 .. n : \A k \in spans[i].kept :
           ~Gone(Change(i), k) /\ k \notin Change(i).insertions
    BY <1>1 DEF ObjectsInv, KeptUntold
  <2>14. spans[p].kept \subseteq spans[q].kept
    BY <1>1, <2>10
  <2>15. \A k \in spans[p].kept : ~Gone(m, k) /\ k \notin m.insertions /\ k \notin d.deletions
    BY <1>1, <2>4, <2>8, <2>12, <2>13, <2>14 DEF Gone
  <2>16. KeptUntold'
    BY <2>6, <2>8, <2>12, <2>13, <2>15 DEF KeptUntold, Gone
  <2>17. /\ \A i \in 1 .. n : i # p => (Apart(i)' <=> Apart(i))
         /\ Apart(p) /\ ~Apart(p)' /\ ~Apart(q)
    BY <1>0, <1>1, <2>3, <2>6 DEF Apart
  <2>20. /\ \A i \in 1 .. n : ReadOn(i)' => ReadOn(i)
         /\ ReadOn(p) => ReadOn(q)
    <3>1. \A i \in 1 .. n : \A j \in i .. n : j \in 1 .. n
      BY <1>1
    <3>2. \A j \in q .. n : j \in p .. n
      BY <1>1
    <3> QED BY <1>0, <2>6, <2>8, <3>1, <3>2 DEF ReadOn
  <2>18. LostTold'
    <3> SUFFICES ASSUME NEW i \in 1 .. n, ReadOn(i)',
                        NEW k \in spans[i].there \ spans[i].kept
                 PROVE  \/ Gone(Change(i)', k)
                        \/ Apart(i)' /\ k \in spans'[i + 1].there \ spans'[i + 1].kept
      BY <2>6, <2>8 DEF LostTold, Gone
    <3>1. \/ Gone(Change(i), k)
          \/ Apart(i) /\ k \in spans[i + 1].there \ spans[i + 1].kept
      BY <1>1, <2>20 DEF ObjectsInv, LostTold
    <3>2. Apart(i) => i + 1 \in 1 .. n
      BY <1>0, <1>1 DEF Apart
    <3>3. CASE i # p
      BY <2>8, <2>12, <2>17, <3>1, <3>2, <3>3
    <3>4. CASE i = p
      <4>1. k \in spans[q].there \ spans[q].kept => Gone(d, k)
        BY <1>1, <2>12, <2>17, <2>20, <3>4 DEF ObjectsInv, LostTold
      <4>2. Gone(c, k) \/ Gone(d, k)
        BY <1>1, <2>12, <3>1, <3>4, <4>1
      <4> QED BY <2>4, <2>8, <2>12, <3>4, <4>2
    <3> QED BY <3>3, <3>4
  <2>19. SetTold'
    <3> SUFFICES ASSUME NEW i \in 1 .. n, ReadOn(i)', NEW k \in spans[i].kept
                 PROVE  /\ ~Apart(i)' => spans'[i].set[k] = Change(i)'.modifications[k]
                        /\ Apart(i)' => spans'[i].set[k] =
                             Change(i)'.modifications[k] \cup spans'[i + 1].set[k]
      BY <2>6, <2>8 DEF SetTold
    <3>1. /\ ~Apart(i) => spans[i].set[k] = Change(i).modifications[k]
          /\ Apart(i) => spans[i].set[k] = Change(i).modifications[k] \cup spans[i + 1].set[k]
      BY <1>1, <2>20 DEF ObjectsInv, SetTold
    <3>2. Apart(i) => i + 1 \in 1 .. n
      BY <1>0, <1>1 DEF Apart
    <3>3. CASE i # p
      BY <2>8, <2>12, <2>17, <3>1, <3>2, <3>3
    <3>4. CASE i = p
      <4>1. spans[q].set[k] = d.modifications[k]
        BY <1>1, <2>12, <2>14, <2>17, <2>20, <3>4 DEF ObjectsInv, SetTold
      <4>2. m.modifications[k] = c.modifications[k] \cup d.modifications[k]
        BY <2>4, <2>8, <2>15, <3>4
      <4>3. spans[p].set[k] = c.modifications[k] \cup spans[q].set[k]
        BY <1>1, <2>12, <2>17, <3>1, <3>4
      <4> QED BY <2>8, <2>12, <2>17, <3>4, <4>1, <4>2, <4>3
    <3> QED BY <3>3, <3>4
  <2>21. Tracks'
    <3>1. \A i \in 1 .. n : ~spans[i].tracked => Change(i) = Nothing
      BY <1>1 DEF ObjectsInv, Tracks
    <3>2. ~spans'[p].tracked => Change(p)' = Nothing
      BY <1>1, <2>5, <2>6, <2>12, <3>1 DEF m
    <3> QED BY <2>3, <2>6, <2>12, <3>1, <3>2 DEF Tracks
  <2>22. OnlySetTold'
    <3>1. /\ \A i \in 1 .. n : \A k \in spans[i].kept :
               Change(i).modifications[k] \subseteq spans[i].set[k]
          /\ \A i \in 1 .. n - 1 : \A k \in Keys :
               spans[i + 1].set[k] \subseteq spans[i].set[k]
      BY <1>0, <1>1 DEF ObjectsInv, OnlySetTold
    <3>2. \A k \in spans[p].kept : m.modifications[k] \subseteq spans[p].set[k]
      <4> SUFFICES ASSUME NEW k \in spans[p].kept
                   PROVE  m.modifications[k] \subseteq spans[p].set[k]
        OBVIOUS
      <4>1. k \in Keys /\ k \in spans[q].kept /\ k \notin d.deletions
        BY <1>1, <2>8, <2>14, <2>15
      <4>2. c.modifications[k] \subseteq spans[p].set[k] /\ d.modifications[k] \subseteq spans[q].set[k]
        BY <1>1, <2>12, <3>1, <4>1
      <4>3. spans[q].set[k] \subseteq spans[p].set[k]
        BY <1>1, <3>1, <4>1
      <4>4. m.modifications[k] = c.modifications[k] \cup d.modifications[k]
        BY <2>4, <4>1
      <4> QED BY <4>2, <4>3, <4>4
    <3>3. \A i \in 1 .. n : \A k \in spans'[i].kept :
            Change(i)'.modifications[k] \subseteq spans'[i].set[k]
      BY <2>8, <2>12, <3>1, <3>2
    <3>4. \A i \in 1 .. n - 1 : \A k \in Keys : spans'[i + 1].set[k] \subseteq spans'[i].set[k]
      BY <2>8, <2>9, <3>1
    <3> QED BY <2>6, <3>3, <3>4 DEF OnlySetTold
  <2> QED BY <2>7, <2>11, <2>16, <2>18, <2>19, <2>21, <2>22 DEF ObjectsInv
<1> QED BY <1>2, <1>3

\* Every step keeps the invariant.
LEMMA ObjectsInvStep ==
  ASSUME ObjectsInv, [ObjectsNext]_objectVars
  PROVE  ObjectsInv'
<1>1. CASE ObjectsNext
  BY <1>1, CreateObjectKeeps, RemoveObjectKeeps, ModifyObjectKeeps, ClearTableKeeps,
     AdvanceKeeps, MergingBegins, MergeBackKeeps DEF ObjectsNext
<1>2. CASE UNCHANGED objectVars
  BY <1>2 DEF objectVars, ObjectsInv, SpansTyped, KeptOn, KeptUntold, Tracks, LostTold,
     SetTold, OnlySetTold, ReadOn, Apart, Change, Gone
<1> QED BY <1>1, <1>2

\* The inductive invariant holds throughout.
THEOREM ObjectsInvariant == ObjectsAssumption /\ ObjectsSpec => []ObjectsInv
<1> SUFFICES ASSUME ObjectsAssumption PROVE ObjectsSpec => []ObjectsInv
  OBVIOUS
<1> QED BY InitObjectsInv, ObjectsInvStep, PTL DEF ObjectsSpec

\* However many versions observers start from, whether the notifiers of later versions
\* watch the table or not, and whatever the transactions between them create, set,
\* remove and clear: no observer is told of a deletion or of a column that did not
\* happen, and one from a version since which the table was read is told whether its
\* object is gone and exactly which of its columns were set.
THEOREM ObjectsAreTold == ObjectsAssumption /\ ObjectsSpec => []ObjectsTold
<1>1. ASSUME ObjectsInv PROVE ObjectsTold
  <2> SUFFICES ASSUME stage = "merging", at = 1, NEW i \in DOMAIN spans,
                      NEW k \in spans[i].there
               PROVE  /\ run(spans[i], k).deleted => k \notin spans[i].kept
                      /\ k \in spans[i].kept => run(spans[i], k).columns \subseteq spans[i].set[k]
                      /\ ReadOn(i) => ToldExactly(spans[i], k)
    BY DEF ObjectsTold
  <2>1. /\ i \in Nat /\ i >= 1 /\ ~Apart(i)
        /\ spans[i].change.clear \in BOOLEAN /\ spans[i].tracked \in BOOLEAN
    BY <1>1, SpanTyped DEF ObjectsInv, Apart
  <2>2. k \in spans[i].kept => /\ ~Gone(Change(i), k) /\ k \notin Change(i).insertions
                              /\ Change(i).modifications[k] \subseteq spans[i].set[k]
    BY <1>1 DEF ObjectsInv, KeptUntold, OnlySetTold
  <2>3. ReadOn(i) =>
          /\ k \notin spans[i].kept => Gone(Change(i), k)
          /\ k \in spans[i].kept => spans[i].set[k] = Change(i).modifications[k]
    BY <1>1, <2>1 DEF ObjectsInv, LostTold, SetTold
  <2>4. ~spans[i].tracked => /\ ~Gone(Change(i), k)
                            /\ (k \in Keys => Change(i).modifications[k] = {})
    <3>1. ~spans[i].tracked => Change(i) = Nothing
      BY <1>1 DEF ObjectsInv, Tracks
    <3> QED BY <3>1 DEF Gone, Nothing
  <2>5. k \in Keys
    BY <1>1, SpanTyped DEF ObjectsInv
  <2>6. k \in spans[i].kept => run(spans[i], k).columns \subseteq spans[i].set[k]
    BY <2>1, <2>2 DEF Gone, Change, run, deletions_contains
  <2>7. run(spans[i], k).deleted => k \notin spans[i].kept
    BY <2>1, <2>2 DEF Gone, Change, run, deletions_contains
  <2>8. ReadOn(i) => ToldExactly(spans[i], k)
    <3> SUFFICES ASSUME ReadOn(i) PROVE ToldExactly(spans[i], k)
      OBVIOUS
    <3>1. CASE spans[i].tracked
      BY <2>1, <2>2, <2>3, <3>1 DEF Gone, Change, ToldExactly, Replaced, run,
         deletions_contains
    <3>2. CASE ~spans[i].tracked
      <4>1. run(spans[i], k).columns = {} /\ ~run(spans[i], k).deleted
        BY <3>2 DEF run
      <4>2. k \in spans[i].kept /\ spans[i].set[k] = {}
        BY <2>3, <2>4, <2>5, <3>2
      <4> QED BY <4>1, <4>2 DEF ToldExactly
    <3> QED BY <2>1, <3>1, <3>2
  <2> QED BY <2>6, <2>7, <2>8
<1> QED BY <1>1, ObjectsInvariant, PTL

-------------------------------------------------------------------------------
(***************************************************************************)
(* Rows that count as modified                                             *)
(***************************************************************************)

\* a link in graph g that is not among the columns F of objects
Follows(g, F, a, b) ==
  \E c \in Listed(Columns(a)) : b \in Listed(g[a][c]) /\ <<a, c>> \notin F

\* the walks of j links
Walks(g, F, j) ==
  {w \in [0 .. j -> Objects] : \A i \in 0 .. j - 1 : Follows(g, F, w[i], w[i + 1])}

\* No walk of at most n links, none of them from F, leads from x to an object of m.
Clean(g, m, x, n, F) ==
  \A j \in 0 .. n : \A w \in Walks(g, F, j) : w[0] = x => w[j] \notin m

\* the links on the path p from depth u to depth e
Edges(p, u, e) == {<<p[j].obj, p[j].col>> : j \in u .. e}

\* What a search at depth e answers: how far is searched, and without which links.
\* The first is what is searched really; the others are what may be remembered of
\* it, for the objects on the path behind which nothing was cut.
Contexts(p, l, e) ==
  {<<l - 1 - e, Edges(p, 0, e - 1)>> : x \in {y \in {0} : e < l}}
    \cup {<<l - 1, Edges(p, u, e - 1)>> : u \in {v \in 1 .. e : ~p[v - 1].exceeded}}

\* nothing modified was found behind t at depth d
Good(g, m, p, l, t, d) == \A x \in Contexts(p, l, d) : Clean(g, m, t, x[1], x[2])

\* nothing modified was found behind column c of o at depth e
ColumnDone(g, m, p, l, o, c, e) ==
  \A x \in Contexts(p, l, e) :
    <<o, c>> \in x[2] \/ x[1] = 0 \/ \A t \in Listed(g[o][c]) : Clean(g, m, t, x[1] - 1, x[2])

\* the column begun last is on the path, and its targets have been looked at, are
\* being looked at, or will be
ColumnOpen(g, m, p, l, fs, e) ==
  LET f == fs[e + 1]
      c == Column(f.obj, f.begun)
  IN /\ p[e].obj = f.obj /\ p[e].col = c
     /\ Listed(f.keys) \subseteq Listed(g[f.obj][c])
     /\ e + 1 < Len(fs) => fs[e + 2].obj \in Listed(g[f.obj][c])
     /\ \A t \in Listed(g[f.obj][c]) :
          \/ t \in Listed(f.keys)
          \/ e + 1 < Len(fs) /\ t = fs[e + 2].obj
          \/ Good(g, m, p, l, t, e + 1)

\* The frame at depth e: its object is not modified, nothing was found behind the
\* columns before the one begun last, and that one is done or on its way.
FrameRight(g, m, p, l, fs, e) ==
  LET f == fs[e + 1] IN
  /\ f.obj \notin m
  /\ f.begun <= Len(Columns(f.obj))
  /\ f.begun = 0 => f.keys = <<>> /\ e + 1 = Len(fs)
  /\ \A c \in 1 .. f.begun - 1 : ColumnDone(g, m, p, l, f.obj, Column(f.obj, c), e)
  /\ f.begun > 0 =>
       \/ /\ e + 1 = Len(fs) /\ f.keys = <<>>
          /\ ColumnDone(g, m, p, l, f.obj, Column(f.obj, f.begun), e)
       \/ ColumnOpen(g, m, p, l, fs, e)

\* an entry of the path, and a call of the search
Places == [obj : Objects \cup {0}, col : STRING \cup {"none"}, exceeded : BOOLEAN]
Frames == [obj : Objects, begun : Nat, keys : Seq(Objects)]

\* The search is never deeper than its limit.
DeepTyped ==
  /\ links \in Graphs /\ modified \in Modified /\ limit \in Limits
  /\ cache \subseteq Objects
  /\ path \in [0 .. limit - 1 -> Places]
  /\ frames \in Seq(Frames) /\ Len(frames) <= limit
  /\ frames # <<>> => frames[1].obj \in Rows
  /\ answers \in Seq([row : Rows, modified : BOOLEAN])

\* The calls under way have missed nothing.
FramesRight ==
  \A e \in 0 .. Len(frames) - 1 : FrameRight(links, modified, path, limit, frames, e)

\* An object remembered as unmodified is so as far as the whole limit reaches.
CacheRight == \A o \in cache : Clean(links, modified, o, limit - 1, {})

\* The rows answered for.
AnswersRight ==
  \A k \in DOMAIN answers :
    answers[k].modified <=> ~Clean(links, modified, answers[k].row, limit - 1, {})

\* The inductive invariant.
DeepInv == DeepTyped /\ FramesRight /\ CacheRight /\ AnswersRight

----------------------------------------------------------------------------
\* A set of naturals has a least element.
LEMMA LeastNatural ==
  ASSUME NEW S, S \subseteq Nat, S # {}
  PROVE  \E k \in S : \A i \in S : k <= i
  <1>1. PICK k \in S : \A i \in S : ~(<<i, k>> \in OpToRel(<, Nat))
    BY NatLessThanWellFounded, WFMin
  <1>2. \A i \in S : ~(i < k)
    BY <1>1 DEF OpToRel
  <1> QED
    BY <1>2

\* Fewer links, or shorter walks, reach less.
LEMMA CleanWeaker ==
  ASSUME NEW g, NEW m, NEW x, NEW n \in Int, NEW k \in Int, k <= n,
         NEW F, NEW G, F \subseteq G,
         Clean(g, m, x, n, F)
  PROVE  Clean(g, m, x, k, G)
  <1>1. \A j : Walks(g, G, j) \subseteq Walks(g, F, j)
    BY DEF Walks, Follows
  <1>2. 0 .. k \subseteq 0 .. n
    OBVIOUS
  <1> QED
    BY <1>1, <1>2 DEF Clean

\* The end of a walk is a walk.
LEMMA WalkSuffix ==
  ASSUME NEW g, NEW F, NEW j \in Nat, NEW w \in Walks(g, F, j),
         NEW i \in Nat, NEW k \in Nat, i + k = j,
         NEW v, v = [q \in 0 .. k |-> w[i + q]]
  PROVE  v \in Walks(g, F, k) /\ v[0] = w[i] /\ v[k] = w[j]
  <1>1. w \in [0 .. j -> Objects] /\ \A q \in 0 .. j - 1 : Follows(g, F, w[q], w[q + 1])
    BY DEF Walks
  <1>2. v \in [0 .. k -> Objects]
    BY <1>1
  <1>3. ASSUME NEW q \in 0 .. k - 1
        PROVE  Follows(g, F, v[q], v[q + 1])
    <2>1. i + q \in 0 .. j - 1 /\ q \in 0 .. k /\ q + 1 \in 0 .. k
      OBVIOUS
    <2>2. v[q] = w[i + q] /\ v[q + 1] = w[(i + q) + 1]
      BY <2>1
    <2> QED
      BY <1>1, <2>1, <2>2
  <1>4. v[0] = w[i] /\ v[k] = w[j]
    OBVIOUS
  <1> QED
    BY <1>2, <1>3, <1>4 DEF Walks

\* An object is clean if its targets are, one link less far.
LEMMA CleanStep ==
  ASSUME NEW g, NEW m, NEW x, NEW n \in Nat, NEW F, x \notin m,
         \A c \in Listed(Columns(x)) :
           \/ <<x, c>> \in F
           \/ n = 0
           \/ \A t \in Listed(g[x][c]) : Clean(g, m, t, n - 1, F)
  PROVE  Clean(g, m, x, n, F)
  <1> SUFFICES ASSUME NEW j \in 0 .. n, NEW w \in Walks(g, F, j), w[0] = x, w[j] \in m
               PROVE  FALSE
    BY DEF Clean
  <1>1. j # 0
    OBVIOUS
  <1>2. j \in Nat /\ 1 \in 0 .. j /\ 0 \in 0 .. j - 1 /\ j - 1 \in 0 .. n - 1 /\ n # 0
    BY <1>1
  <1> DEFINE v == [k \in 0 .. j - 1 |-> w[1 + k]]
  <1>3. j - 1 \in Nat /\ 1 + (j - 1) = j
    BY <1>2
  <1>4. v \in Walks(g, F, j - 1) /\ v[0] = w[1] /\ v[j - 1] = w[j]
    BY <1>2, <1>3, WalkSuffix
  <1>5. Follows(g, F, x, w[1])
    BY <1>2 DEF Walks
  <1>6. PICK c \in Listed(Columns(x)) : w[1] \in Listed(g[x][c]) /\ <<x, c>> \notin F
    BY <1>5 DEF Follows
  <1>7. Clean(g, m, w[1], n - 1, F)
    BY <1>2, <1>6
  <1> HIDE DEF v
  <1> QED
    BY <1>2, <1>4, <1>7 DEF Clean

\* What is clean without the links of a column stays so with them, for the targets
\* of the column itself: take a walk from where it comes to one of them last.
LEMMA CleanColumn ==
  ASSUME NEW g, NEW m, NEW o, NEW c, NEW n \in Int, NEW F,
         \A t \in Listed(g[o][c]) : Clean(g, m, t, n, F \cup {<<o, c>>})
  PROVE  \A t \in Listed(g[o][c]) : Clean(g, m, t, n, F)
  <1> DEFINE T == Listed(g[o][c])
  <1> HIDE DEF T
  <1> SUFFICES ASSUME NEW j \in 0 .. n, NEW w \in Walks(g, F, j), w[0] \in T, w[j] \in m
               PROVE  FALSE
    BY DEF Clean, T
  <1> DEFINE S == {k \in 0 .. j : w[j - k] \in T}
  <1>1. j \in S /\ S \subseteq Nat /\ j \in Nat
    OBVIOUS
  <1>2. PICK k \in S : \A i \in S : k <= i
    BY <1>1, LeastNatural
  <1> HIDE DEF S
  <1>3. k \in 0 .. j /\ w[j - k] \in T
    BY <1>2 DEF S
  <1>3a. j - k \in 0 .. j /\ k \in 0 .. n /\ k \in Nat /\ j - k \in Nat /\ (j - k) + k = j
    BY <1>3
  <1> DEFINE v == [q \in 0 .. k |-> w[(j - k) + q]]
  <1>5. v \in Walks(g, F, k) /\ v[0] = w[j - k] /\ v[k] = w[j]
    BY <1>1, <1>3a, WalkSuffix
  <1>6. ASSUME NEW q \in 0 .. k - 1
        PROVE  v[q + 1] \notin T
    <2>1. q + 1 \in 0 .. k /\ v[q + 1] = w[(j - k) + (q + 1)]
      BY <1>3a, <1>1
    <2>2. k - (q + 1) \in 0 .. j /\ (j - k) + (q + 1) = j - (k - (q + 1)) /\ ~(k <= k - (q + 1))
      BY <1>3a, <1>1, <1>3
    <2>3. k - (q + 1) \notin S
      BY <1>2, <2>2
    <2> QED
      BY <2>1, <2>2, <2>3 DEF S
  <1> HIDE DEF v
  <1>7. v \in Walks(g, F \cup {<<o, c>>}, k)
    <2>1. ASSUME NEW q \in 0 .. k - 1
          PROVE  Follows(g, F \cup {<<o, c>>}, v[q], v[q + 1])
      <3>1. Follows(g, F, v[q], v[q + 1])
        BY <1>5 DEF Walks
      <3>2. PICK d \in Listed(Columns(v[q])) :
              v[q + 1] \in Listed(g[v[q]][d]) /\ <<v[q], d>> \notin F
        BY <3>1 DEF Follows
      <3>3. <<v[q], d>> # <<o, c>>
        BY <1>6, <3>2 DEF T
      <3> QED
        BY <3>2, <3>3 DEF Follows
    <2> QED
      BY <1>5, <2>1 DEF Walks
  <1>8. Clean(g, m, w[j - k], n, F \cup {<<o, c>>})
    BY <1>3 DEF T
  <1> QED
    BY <1>3a, <1>5, <1>7, <1>8 DEF Clean

----------------------------------------------------------------------------
\* The contexts of a depth, taken apart ...
LEMMA ContextsAre ==
  ASSUME NEW p, NEW l \in Nat \ {0}, NEW e \in Nat, NEW x \in Contexts(p, l, e)
  PROVE  /\ x[1] \in Nat /\ x[1] <= l - 1
         /\ \/ e < l /\ x = <<l - 1 - e, Edges(p, 0, e - 1)>>
            \/ \E u \in 1 .. e : ~p[u - 1].exceeded /\ x = <<l - 1, Edges(p, u, e - 1)>>
  BY DEF Contexts

\* ... and put together.
LEMMA ContextsHave ==
  ASSUME NEW p, NEW l \in Nat \ {0}, NEW e \in Nat
  PROVE  /\ e < l => <<l - 1 - e, Edges(p, 0, e - 1)>> \in Contexts(p, l, e)
         /\ \A u \in 1 .. e :
              ~p[u - 1].exceeded => <<l - 1, Edges(p, u, e - 1)>> \in Contexts(p, l, e)
  BY DEF Contexts

\* One depth more is one link more.
LEMMA EdgesGrow ==
  ASSUME NEW p, NEW u \in Nat, NEW e \in Nat, u <= e
  PROVE  Edges(p, u, e) = Edges(p, u, e - 1) \cup {<<p[e].obj, p[e].col>>}
  <1>1. u .. e = (u .. e - 1) \cup {e}
    OBVIOUS
  <1> QED
    BY <1>1 DEF Edges

\* Nothing is on the path between a depth and itself.
LEMMA NoEdges ==
  ASSUME NEW p, NEW e \in Nat
  PROVE  Edges(p, e, e - 1) = {}
  BY DEF Edges

\* All targets of a column have been looked at, one deeper.
LEMMA ColumnFinished ==
  ASSUME NEW g, NEW m, NEW p, NEW l \in Nat \ {0}, NEW e \in 0 .. l - 1,
         NEW o, NEW c, p[e].obj = o, p[e].col = c,
         \A t \in Listed(g[o][c]) : Good(g, m, p, l, t, e + 1)
  PROVE  ColumnDone(g, m, p, l, o, c, e)
  <1> DEFINE T == Listed(g[o][c])
  <1> HIDE DEF T
  <1> SUFFICES ASSUME NEW x \in Contexts(p, l, e), x[1] # 0
               PROVE  \A t \in T : Clean(g, m, t, x[1] - 1, x[2])
    BY DEF ColumnDone, T
  <1>1. /\ x[1] \in Nat /\ x[1] <= l - 1 /\ x[1] - 1 \in Int
        /\ e \in Nat /\ e + 1 \in Nat /\ (e + 1) - 1 = e
    BY ContextsAre
  <1>2. CASE e < l /\ x = <<l - 1 - e, Edges(p, 0, e - 1)>>
    <2>1. e + 1 < l /\ l - 1 - (e + 1) = x[1] - 1 /\ x[2] = Edges(p, 0, e - 1)
      BY <1>2, <1>1
    <2>2. <<x[1] - 1, Edges(p, 0, e)>> \in Contexts(p, l, e + 1)
      BY <1>1, <2>1, ContextsHave
    <2>3. Edges(p, 0, e) = x[2] \cup {<<o, c>>}
      BY <1>1, <2>1, EdgesGrow
    <2>4. \A t \in T : Clean(g, m, t, x[1] - 1, x[2] \cup {<<o, c>>})
      BY <2>2, <2>3 DEF Good, T
    <2> QED
      BY <1>1, <2>4, CleanColumn DEF T
  <1>3. CASE \E u \in 1 .. e : ~p[u - 1].exceeded /\ x = <<l - 1, Edges(p, u, e - 1)>>
    <2>1. PICK u \in 1 .. e : ~p[u - 1].exceeded /\ x = <<l - 1, Edges(p, u, e - 1)>>
      BY <1>3
    <2>2. u \in 1 .. e + 1 /\ u \in Nat /\ u <= e
      OBVIOUS
    <2>3. <<x[1], Edges(p, u, e)>> \in Contexts(p, l, e + 1)
      BY <1>1, <2>1, <2>2, ContextsHave
    <2>4. Edges(p, u, e) = x[2] \cup {<<o, c>>}
      BY <1>1, <2>1, <2>2, EdgesGrow
    <2>5. \A t \in T : Clean(g, m, t, x[1], x[2] \cup {<<o, c>>})
      BY <2>3, <2>4 DEF Good, T
    <2>6. \A t \in T : Clean(g, m, t, x[1] - 1, x[2] \cup {<<o, c>>})
      BY <1>1, <2>5, CleanWeaker
    <2> QED
      BY <1>1, <2>6, CleanColumn DEF T
  <1> QED
    BY <1>1, <1>2, <1>3, ContextsAre

\* All columns of an object have been looked at.
LEMMA ObjectFinished ==
  ASSUME NEW g, NEW m, NEW p, NEW l \in Nat \ {0}, NEW e \in Nat, NEW o, o \notin m,
         \A c \in Listed(Columns(o)) : ColumnDone(g, m, p, l, o, c, e)
  PROVE  Good(g, m, p, l, o, e)
  <1> SUFFICES ASSUME NEW x \in Contexts(p, l, e)
               PROVE  Clean(g, m, o, x[1], x[2])
    BY DEF Good
  <1>1. x[1] \in Nat
    BY ContextsAre
  <1>2. \A c \in Listed(Columns(o)) :
          \/ <<o, c>> \in x[2]
          \/ x[1] = 0
          \/ \A t \in Listed(g[o][c]) : Clean(g, m, t, x[1] - 1, x[2])
    BY DEF ColumnDone
  <1> QED
    BY <1>1, <1>2, CleanStep

\* What is remembered is right at any depth ...
LEMMA CleanIsGood ==
  ASSUME NEW g, NEW m, NEW p, NEW l \in Nat \ {0}, NEW d \in Nat, NEW t,
         Clean(g, m, t, l - 1, {})
  PROVE  Good(g, m, p, l, t, d)
  <1> SUFFICES ASSUME NEW x \in Contexts(p, l, d)
               PROVE  Clean(g, m, t, x[1], x[2])
    BY DEF Good
  <1>1. x[1] \in Nat /\ x[1] <= l - 1
    BY ContextsAre
  <1>2. x[1] \in Int /\ l - 1 \in Int /\ {} \subseteq x[2]
    BY <1>1
  <1> QED
    BY <1>1, <1>2, CleanWeaker

\* ... and is remembered only if the search was not cut.
LEMMA GoodIsClean ==
  ASSUME NEW g, NEW m, NEW p, NEW l \in Nat \ {0}, NEW e \in 0 .. l - 1, NEW t,
         Good(g, m, p, l, t, e),
         e = 0 \/ ~p[e - 1].exceeded
  PROVE  Clean(g, m, t, l - 1, {})
  <1>1. CASE e = 0
    <2>0. 0 \in Nat /\ 0 < l
      OBVIOUS
    <2>1. <<l - 1 - 0, Edges(p, 0, 0 - 1)>> \in Contexts(p, l, 0)
      BY <2>0, ContextsHave
    <2>2. l - 1 - 0 = l - 1 /\ Edges(p, 0, 0 - 1) = {}
      BY NoEdges
    <2> QED
      BY <1>1, <2>1, <2>2 DEF Good
  <1>2. CASE e # 0
    <2>1. e \in 1 .. e /\ e \in Nat
      BY <1>2
    <2>2. <<l - 1, Edges(p, e, e - 1)>> \in Contexts(p, l, e)
      BY <1>2, <2>1, ContextsHave
    <2> QED
      BY <2>1, <2>2, NoEdges DEF Good
  <1> QED
    BY <1>1, <1>2

\* At the limit, with all places marked, there is nothing left to show.
LEMMA CutIsGood ==
  ASSUME NEW g, NEW m, NEW p, NEW l \in Nat \ {0}, NEW t,
         \A j \in 0 .. l - 1 : p[j].exceeded
  PROVE  Good(g, m, p, l, t, l)
  <1> SUFFICES ASSUME NEW x \in Contexts(p, l, l)
               PROVE  FALSE
    BY DEF Good
  <1> QED
    BY ContextsAre

\* A link on the path is left to the search that follows it.
LEMMA MatchedIsDone ==
  ASSUME NEW g, NEW m, NEW p, NEW l \in Nat \ {0}, NEW e \in 0 .. l - 1, NEW o, NEW c,
         NEW k \in 0 .. e - 1, p[k].obj = o, p[k].col = c,
         \A j \in k .. e - 1 : p[j].exceeded
  PROVE  ColumnDone(g, m, p, l, o, c, e)
  <1> SUFFICES ASSUME NEW x \in Contexts(p, l, e)
               PROVE  <<o, c>> \in x[2]
    BY DEF ColumnDone
  <1>1. e \in Nat /\ k \in Int
    OBVIOUS
  <1>2. CASE x = <<l - 1 - e, Edges(p, 0, e - 1)>>
    BY <1>2 DEF Edges
  <1>3. CASE \E u \in 1 .. e : ~p[u - 1].exceeded /\ x = <<l - 1, Edges(p, u, e - 1)>>
    <2>1. PICK u \in 1 .. e : ~p[u - 1].exceeded /\ x = <<l - 1, Edges(p, u, e - 1)>>
      BY <1>3
    <2>2. ~(u - 1 \in k .. e - 1)
      BY <2>1
    <2>3. k \in u .. e - 1
      BY <2>2
    <2> QED
      BY <2>1, <2>3 DEF Edges
  <1> QED
    BY <1>1, <1>2, <1>3, ContextsAre

----------------------------------------------------------------------------
\* q is the path p up to depth d, with more places marked
Marked(p, q, d) ==
  \A j \in 0 .. d - 1 :
    q[j].obj = p[j].obj /\ q[j].col = p[j].col /\ (p[j].exceeded => q[j].exceeded)

\* Marking places takes contexts away, and adds none.
LEMMA ContextsKept ==
  ASSUME NEW p, NEW q, NEW l \in Nat \ {0}, NEW d \in Nat, Marked(p, q, d)
  PROVE  Contexts(q, l, d) \subseteq Contexts(p, l, d)
  <1>1. \A u \in Nat : Edges(q, u, d - 1) = Edges(p, u, d - 1)
    <2> SUFFICES ASSUME NEW u \in Nat
                 PROVE  Edges(q, u, d - 1) = Edges(p, u, d - 1)
      OBVIOUS
    <2>1. \A j \in u .. d - 1 : <<q[j].obj, q[j].col>> = <<p[j].obj, p[j].col>>
      BY DEF Marked
    <2> QED
      BY <2>1 DEF Edges
  <1> SUFFICES ASSUME NEW x \in Contexts(q, l, d)
               PROVE  x \in Contexts(p, l, d)
    OBVIOUS
  <1>2. CASE d < l /\ x = <<l - 1 - d, Edges(q, 0, d - 1)>>
    <2>1. Edges(q, 0, d - 1) = Edges(p, 0, d - 1)
      BY <1>1
    <2> QED
      BY <1>2, <2>1, ContextsHave
  <1>3. CASE \E u \in 1 .. d : ~q[u - 1].exceeded /\ x = <<l - 1, Edges(q, u, d - 1)>>
    <2>1. PICK u \in 1 .. d : ~q[u - 1].exceeded /\ x = <<l - 1, Edges(q, u, d - 1)>>
      BY <1>3
    <2>2. u \in Nat /\ u - 1 \in 0 .. d - 1
      OBVIOUS
    <2>3. ~p[u - 1].exceeded
      BY <2>1, <2>2 DEF Marked
    <2>4. Edges(q, u, d - 1) = Edges(p, u, d - 1)
      BY <1>1, <2>2
    <2>5. <<l - 1, Edges(p, u, d - 1)>> \in Contexts(p, l, d)
      BY <2>3, ContextsHave, Zenon
    <2> QED
      BY <2>1, <2>4, <2>5, Zenon
  <1>4. \/ d < l /\ x = <<l - 1 - d, Edges(q, 0, d - 1)>>
        \/ \E u \in 1 .. d : ~q[u - 1].exceeded /\ x = <<l - 1, Edges(q, u, d - 1)>>
    BY DEF Contexts
  <1> QED
    BY <1>2, <1>3, <1>4, Zenon

\* So what was found stays found, for an object ...
LEMMA GoodKept ==
  ASSUME NEW g, NEW m, NEW p, NEW q, NEW l \in Nat \ {0}, NEW d \in Nat, Marked(p, q, d), NEW t,
         Good(g, m, p, l, t, d)
  PROVE  Good(g, m, q, l, t, d)
  BY ContextsKept DEF Good

\* ... and for a column.
LEMMA ColumnDoneKept ==
  ASSUME NEW g, NEW m, NEW p, NEW q, NEW l \in Nat \ {0}, NEW d \in Nat, Marked(p, q, d),
         NEW o, NEW c, ColumnDone(g, m, p, l, o, c, d)
  PROVE  ColumnDone(g, m, q, l, o, c, d)
  BY ContextsKept DEF ColumnDone

\* A path that agrees up to a depth agrees up to a smaller one.
LEMMA MarkedLess ==
  ASSUME NEW p, NEW q, NEW d \in Int, NEW e \in Int, e <= d, Marked(p, q, d)
  PROVE  Marked(p, q, e)
  BY DEF Marked

\* A frame below the top one stays right.
LEMMA LowerFrameKept ==
  ASSUME NEW g, NEW m, NEW p, NEW q, NEW l \in Nat \ {0}, NEW e \in Nat, Marked(p, q, e + 1),
         NEW fs, NEW hs, Len(fs) \in Nat, Len(hs) \in Nat, e + 1 < Len(fs), e + 1 < Len(hs),
         fs[e + 1].begun \in Nat,
         hs[e + 1] = fs[e + 1], hs[e + 2].obj = fs[e + 2].obj,
         FrameRight(g, m, p, l, fs, e)
  PROVE  FrameRight(g, m, q, l, hs, e)
  <1> DEFINE f == fs[e + 1]
             c == Column(f.obj, f.begun)
             T == Listed(g[f.obj][c])
  <1>1. Marked(p, q, e) /\ e + 1 \in Nat
    BY MarkedLess
  <1>2. f.begun > 0 /\ ColumnOpen(g, m, p, l, fs, e)
    BY DEF FrameRight
  <1>3. \A d : ColumnDone(g, m, p, l, f.obj, d, e) => ColumnDone(g, m, q, l, f.obj, d, e)
    BY <1>1, ColumnDoneKept
  <1>4. \A t : Good(g, m, p, l, t, e + 1) => Good(g, m, q, l, t, e + 1)
    BY <1>1, GoodKept
  <1>5. q[e].obj = p[e].obj /\ q[e].col = p[e].col
    BY DEF Marked
  <1>6. ColumnOpen(g, m, q, l, hs, e)
    BY <1>2, <1>4, <1>5 DEF ColumnOpen
  <1>7. \A d \in 1 .. f.begun - 1 : ColumnDone(g, m, q, l, f.obj, Column(f.obj, d), e)
    BY <1>3 DEF FrameRight
  <1> HIDE DEF f
  <1>8. hs[e + 1] = f
    BY DEF f
  <1>9. f.obj \notin m /\ f.begun <= Len(Columns(f.obj)) /\ f.begun # 0
    BY <1>2 DEF FrameRight, f
  <1> QED
    BY <1>6, <1>7, <1>8, <1>9 DEF FrameRight

\* When the targets of its last column have been seen, all columns begun are done.
LEMMA ColumnsDone ==
  ASSUME NEW g, NEW m, NEW p, NEW l \in Nat \ {0}, NEW e \in 0 .. l - 1, NEW fs,
         Len(fs) = e + 1, fs[e + 1].begun \in Nat, fs[e + 1].keys = <<>>,
         FrameRight(g, m, p, l, fs, e)
  PROVE  \A c \in 1 .. fs[e + 1].begun :
           ColumnDone(g, m, p, l, fs[e + 1].obj, Column(fs[e + 1].obj, c), e)
  <1> DEFINE f == fs[e + 1]
             o == f.obj
             c == Column(o, f.begun)
  <1> SUFFICES ASSUME f.begun > 0
               PROVE  ColumnDone(g, m, p, l, o, c, e)
    BY DEF FrameRight
  <1>1. CASE ColumnOpen(g, m, p, l, fs, e)
    <2>1. Listed(f.keys) = {}
      BY DEF Listed
    <2>2. p[e].obj = o /\ p[e].col = c /\ \A t \in Listed(g[o][c]) : Good(g, m, p, l, t, e + 1)
      BY <1>1, <2>1 DEF ColumnOpen
    <2> QED
      BY <2>2, ColumnFinished
  <1> QED
    BY <1>1 DEF FrameRight

----------------------------------------------------------------------------
(* The types *)

\* The types, component by component.
LEMMA DeepFacts ==
  ASSUME DeepAssumption, DeepTyped
  PROVE  /\ limit \in Nat \ {0} /\ modified \subseteq Objects
         /\ Len(frames) \in Nat /\ DOMAIN frames = 1 .. Len(frames)
         /\ \A i \in 1 .. Len(frames) :
              /\ frames[i] \in Frames /\ frames[i].obj \in Objects
              /\ frames[i].begun \in Nat /\ frames[i].keys \in Seq(Objects)
         /\ path \in [0 .. limit - 1 -> Places]
         /\ \A o \in Objects : /\ Len(Columns(o)) \in Nat
                              /\ Listed(Columns(o)) = {Column(o, c) : c \in 1 .. Len(Columns(o))}
                              /\ \A c \in 1 .. Len(Columns(o)) :
                                   /\ Column(o, c) \in STRING
                                   /\ links[o][Column(o, c)] \in Seq(Objects)
  <1>1. limit \in Nat \ {0} /\ modified \subseteq Objects /\ links \in Graphs
        /\ path \in [0 .. limit - 1 -> Places] /\ frames \in Seq(Frames)
    BY DEF DeepAssumption, DeepTyped
  <1>2. Len(frames) \in Nat /\ DOMAIN frames = 1 .. Len(frames)
        /\ \A i \in 1 .. Len(frames) : frames[i] \in Frames
    BY <1>1
  <1>3. \A f \in Frames : f.obj \in Objects /\ f.begun \in Nat /\ f.keys \in Seq(Objects)
    BY DEF Frames
  <1>4. ASSUME NEW o \in Objects
        PROVE  /\ Len(Columns(o)) \in Nat
               /\ Listed(Columns(o)) = {Column(o, c) : c \in 1 .. Len(Columns(o))}
               /\ \A c \in 1 .. Len(Columns(o)) :
                    Column(o, c) \in STRING /\ links[o][Column(o, c)] \in Seq(Objects)
    <2>1. Columns(o) \in Seq(STRING) /\ \A c \in Listed(Columns(o)) : links[o][c] \in Seq(Objects)
      BY <1>1 DEF DeepAssumption
    <2> DEFINE s == Columns(o)
    <2>2. Len(s) \in Nat /\ DOMAIN s = 1 .. Len(s) /\ \A c \in 1 .. Len(s) : s[c] \in STRING
      BY <2>1
    <2>3. Listed(s) = {s[c] : c \in 1 .. Len(s)} /\ \A c \in 1 .. Len(s) : Column(o, c) = s[c]
      BY <2>2 DEF Listed, Column
    <2> HIDE DEF s
    <2> QED
      BY <2>1, <2>2, <2>3 DEF s
  <1> QED
    BY <1>1, <1>2, <1>3, <1>4

\* A new frame.
LEMMA FrameTyped ==
  ASSUME NEW o \in Objects
  PROVE  /\ Frame(o) \in Frames /\ Frame(o).obj = o /\ Frame(o).begun = 0
         /\ Frame(o).keys = <<>>
  BY DEF Frame, Frames

\* two sequences with the same first d elements
Alike(s, r, d) == \A i \in 1 .. d : s[i] = r[i]

\* The top frame and those below it.
LEMMA BelowTop ==
  ASSUME NEW S, frames \in Seq(S), frames # <<>>
  PROVE  /\ Depth \in Nat /\ Len(frames) = Depth + 1 /\ Top = frames[Depth + 1] /\ Top \in S
         /\ Below \in Seq(S) /\ Len(Below) = Depth /\ Alike(Below, frames, Depth)
  <1>1. Len(frames) \in Nat \ {0}
    BY EmptySeq, LenProperties
  <1>2. Depth \in Nat /\ Len(frames) = Depth + 1 /\ Top = frames[Depth + 1] /\ Top \in S
    BY <1>1, ElementOfSeq DEF Depth, Top
  <1>3. \A i \in 1 .. Depth : frames[i] \in S
    BY <1>2, ElementOfSeq
  <1> HIDE DEF Depth
  <1> QED
    BY <1>2, <1>3, SubSeqProperties DEF Below, Alike

\* A frame put in the place of the top one.
LEMMA OnTop ==
  ASSUME NEW S, frames \in Seq(S), frames # <<>>, NEW f \in S,
         NEW s, s = Append(Below, f)
  PROVE  /\ s \in Seq(S) /\ Len(s) = Depth + 1
         /\ Alike(s, frames, Depth) /\ s[Depth + 1] = f
  <1>1. Depth \in Nat /\ Below \in Seq(S) /\ Len(Below) = Depth
        /\ Alike(Below, frames, Depth)
    BY BelowTop
  <1> HIDE DEF Depth, Below
  <1> QED
    BY <1>1, AppendProperties DEF Alike

----------------------------------------------------------------------------
(* The frames *)

\* The elements of a sequence are its head and those of its tail.
LEMMA HeadListed ==
  ASSUME NEW S, NEW s \in Seq(S), s # <<>>
  PROVE  Head(s) \in S /\ Tail(s) \in Seq(S) /\ Listed(s) = {Head(s)} \cup Listed(Tail(s))
  <1>1. Head(s) = s[1] /\ Head(s) \in S /\ Tail(s) \in Seq(S) /\ Len(s) \in Nat \ {0}
        /\ Len(Tail(s)) = Len(s) - 1 /\ \A i \in 1 .. Len(s) - 1 : Tail(s)[i] = s[i + 1]
    BY EmptySeq, LenProperties, HeadTailProperties
  <1>2. DOMAIN s = 1 .. Len(s) /\ DOMAIN Tail(s) = 1 .. Len(s) - 1
    BY <1>1, LenProperties
  <1> DEFINE t == Tail(s)
             n == Len(s)
  <1>3. DOMAIN s = 1 .. n /\ DOMAIN t = 1 .. n - 1 /\ n \in Nat \ {0}
        /\ \A i \in 1 .. n - 1 : t[i] = s[i + 1]
    BY <1>1, <1>2
  <1> HIDE DEF t, n
  <1>4. \A i \in 1 .. n : i = 1 \/ (i - 1 \in 1 .. n - 1 /\ s[i] = t[i - 1])
    BY <1>3
  <1>5. \A i \in 1 .. n - 1 : i + 1 \in 1 .. n
    BY <1>3
  <1>6. Listed(s) = {s[1]} \cup Listed(t)
    <2>1. ASSUME NEW x \in Listed(s)
          PROVE  x = s[1] \/ x \in Listed(t)
      <3>1. PICK i \in 1 .. n : x = s[i]
        BY <1>3 DEF Listed
      <3>2. CASE i - 1 \in 1 .. n - 1 /\ s[i] = t[i - 1]
        BY <1>3, <3>1, <3>2 DEF Listed
      <3> QED
        BY <1>4, <3>1, <3>2
    <2>2. ASSUME NEW x \in Listed(t)
          PROVE  x \in Listed(s)
      <3>1. PICK i \in 1 .. n - 1 : x = t[i]
        BY <1>3 DEF Listed
      <3>2. x = s[i + 1] /\ i + 1 \in 1 .. n
        BY <1>3, <1>5, <3>1
      <3> QED
        BY <1>3, <3>2 DEF Listed
    <2>3. s[1] \in Listed(s)
      <3>1. 1 \in 1 .. n
        BY <1>3
      <3> QED
        BY <1>3, <3>1 DEF Listed
    <2> QED
      BY <2>1, <2>2, <2>3
  <1> QED
    BY <1>1, <1>6 DEF t

\* A frame that has begun no column is right.
LEMMA NewFrameRight ==
  ASSUME NEW g, NEW m, NEW p, NEW l, NEW e \in Nat, NEW fs, Len(fs) = e + 1,
         NEW o \in Objects, o \notin m, fs[e + 1] = Frame(o), Len(Columns(o)) \in Nat
  PROVE  FrameRight(g, m, p, l, fs, e)
  BY DEF FrameRight, Frame

\* The top frame, when the next target has been looked at or is looked at.
LEMMA TargetSeen ==
  ASSUME NEW g, NEW m, NEW p, NEW q, NEW l \in Nat \ {0}, NEW e \in 0 .. l - 1, NEW fs, NEW hs,
         Marked(p, q, e + 1), Len(fs) = e + 1, fs[e + 1] \in Frames, fs[e + 1].keys # <<>>,
         hs[e + 1] = [fs[e + 1] EXCEPT !.keys = Tail(@)],
         FrameRight(g, m, p, l, fs, e),
         \/ Len(hs) = e + 1 /\ Good(g, m, q, l, Head(fs[e + 1].keys), e + 1)
         \/ Len(hs) = e + 2 /\ hs[e + 2].obj = Head(fs[e + 1].keys)
  PROVE  FrameRight(g, m, q, l, hs, e)
  <1> DEFINE f == fs[e + 1]
             h == hs[e + 1]
             c == Column(f.obj, f.begun)
  <1>1. f.obj \in Objects /\ f.begun \in Nat /\ f.keys \in Seq(Objects)
        /\ h.obj = f.obj /\ h.begun = f.begun /\ h.keys = Tail(f.keys)
    BY DEF Frames
  <1>2. f.obj \notin m /\ f.begun <= Len(Columns(f.obj)) /\ f.begun # 0 /\ f.begun > 0
    BY <1>1 DEF FrameRight
  <1>3. ColumnOpen(g, m, p, l, fs, e)
    BY <1>2 DEF FrameRight
  <1>4. /\ p[e].obj = f.obj /\ p[e].col = c
        /\ Listed(f.keys) \subseteq Listed(g[f.obj][c])
        /\ \A t \in Listed(g[f.obj][c]) : t \in Listed(f.keys) \/ Good(g, m, p, l, t, e + 1)
    BY <1>3 DEF ColumnOpen
  <1>5. Listed(f.keys) = {Head(f.keys)} \cup Listed(h.keys)
    BY <1>1, HeadListed
  <1>6. Marked(p, q, e) /\ e + 1 \in Nat /\ e \in Nat
    BY MarkedLess
  <1>7. \A d : ColumnDone(g, m, p, l, f.obj, d, e) => ColumnDone(g, m, q, l, f.obj, d, e)
    BY <1>6, ColumnDoneKept
  <1>8. \A t : Good(g, m, p, l, t, e + 1) => Good(g, m, q, l, t, e + 1)
    BY <1>6, GoodKept
  <1>9. q[e].obj = p[e].obj /\ q[e].col = p[e].col
    BY DEF Marked
  <1>10. \A d \in 1 .. f.begun - 1 : ColumnDone(g, m, q, l, f.obj, Column(f.obj, d), e)
    BY <1>7 DEF FrameRight
  <1>11. \/ Len(hs) = e + 1 /\ Good(g, m, q, l, Head(f.keys), e + 1)
         \/ Len(hs) = e + 2 /\ hs[e + 2].obj = Head(f.keys)
    OBVIOUS
  <1> HIDE DEF f, h
  <1>12. ColumnOpen(g, m, q, l, hs, e)
    BY <1>1, <1>4, <1>5, <1>8, <1>9, <1>11, SMTT(20) DEF ColumnOpen, h
  <1> QED
    BY <1>1, <1>2, <1>10, <1>12 DEF FrameRight, h

\* The frame below the top one, when that returns.
LEMMA TargetReturned ==
  ASSUME NEW g, NEW m, NEW p, NEW l \in Nat \ {0}, NEW e \in Nat, NEW fs, NEW hs,
         Len(fs) = e + 2, Len(hs) = e + 1, hs[e + 1] = fs[e + 1],
         fs[e + 1].begun \in Nat,
         Good(g, m, p, l, fs[e + 2].obj, e + 1),
         FrameRight(g, m, p, l, fs, e)
  PROVE  FrameRight(g, m, p, l, hs, e)
  <1> DEFINE f == fs[e + 1]
  <1>1. f.obj \notin m /\ f.begun <= Len(Columns(f.obj)) /\ f.begun # 0
        /\ ColumnOpen(g, m, p, l, fs, e)
        /\ \A d \in 1 .. f.begun - 1 : ColumnDone(g, m, p, l, f.obj, Column(f.obj, d), e)
    BY DEF FrameRight
  <1>2. ColumnOpen(g, m, p, l, hs, e)
    BY <1>1 DEF ColumnOpen
  <1> HIDE DEF f
  <1> QED
    BY <1>1, <1>2 DEF FrameRight, f

\* The top frame, when a column is begun that is on the path, or is put on it.
LEMMA ColumnBegun ==
  ASSUME NEW g, NEW m, NEW p, NEW q, NEW l \in Nat \ {0}, NEW e \in 0 .. l - 1, NEW fs, NEW hs,
         Marked(p, q, e), Len(fs) = e + 1, Len(hs) = e + 1,
         fs[e + 1].begun \in Nat, fs[e + 1].keys = <<>>,
         FrameRight(g, m, p, l, fs, e),
         NEW c, c = fs[e + 1].begun + 1, c <= Len(Columns(fs[e + 1].obj)),
         hs[e + 1].obj = fs[e + 1].obj, hs[e + 1].begun = c,
         NEW col, col = Column(fs[e + 1].obj, c),
         \/ /\ hs[e + 1].keys = <<>>
            /\ ColumnDone(g, m, q, l, fs[e + 1].obj, col, e)
         \/ /\ hs[e + 1].keys = g[fs[e + 1].obj][col]
            /\ q[e].obj = fs[e + 1].obj /\ q[e].col = col
  PROVE  FrameRight(g, m, q, l, hs, e)
  <1> DEFINE f == fs[e + 1]
             h == hs[e + 1]
  <1>1. e \in Nat /\ f.obj \notin m
    BY DEF FrameRight
  <1>2. \A d \in 1 .. f.begun : ColumnDone(g, m, p, l, f.obj, Column(f.obj, d), e)
    BY ColumnsDone
  <1>3. \A d \in 1 .. f.begun : ColumnDone(g, m, q, l, f.obj, Column(f.obj, d), e)
    BY <1>1, <1>2, ColumnDoneKept
  <1>4. /\ h.obj = f.obj /\ h.begun = c /\ c # 0 /\ c - 1 = f.begun /\ c \in Nat
        /\ col = Column(f.obj, c) /\ c <= Len(Columns(f.obj))
    OBVIOUS
  <1>5. CASE h.keys = <<>> /\ ColumnDone(g, m, q, l, f.obj, col, e)
    <2> HIDE DEF f, h
    <2> QED
      BY <1>1, <1>3, <1>4, <1>5 DEF FrameRight, h
  <1>6. CASE h.keys = g[f.obj][col] /\ q[e].obj = f.obj /\ q[e].col = col
    <2> HIDE DEF f, h
    <2>1. ColumnOpen(g, m, q, l, hs, e)
      BY <1>4, <1>6 DEF ColumnOpen, h
    <2> QED
      BY <1>1, <1>3, <1>4, <2>1 DEF FrameRight, h
  <1> QED
    BY <1>5, <1>6

\* What the search finds is reached from the row.
LEMMA FoundIsReached ==
  ASSUME DeepAssumption, DeepTyped, FramesRight, frames # <<>>, Top.keys # <<>>,
         Len(frames) < limit, Head(Top.keys) \in modified
  PROVE  ~Clean(links, modified, Row, limit - 1, {})
  <1> DEFINE d == Len(frames)
             key == Head(Top.keys)
             w == [i \in 0 .. d |-> IF i < d THEN frames[i + 1].obj ELSE key]
  <1>1. d \in Nat \ {0} /\ limit \in Nat /\ d \in 0 .. limit - 1
    <2>1. d \in Nat /\ limit \in Nat
      BY DeepFacts
    <2>2. d # 0
      BY EmptySeq DEF DeepTyped
    <2> QED
      BY <2>1, <2>2
  <1>2. Top = frames[d]
    BY DEF Top
  <1>3. key \in Objects /\ key \in Listed(Top.keys)
    <2>1. Top.keys \in Seq(Objects)
      BY <1>1, <1>2, DeepFacts
    <2> QED
      BY <2>1, HeadListed
  <1>4. ASSUME NEW i \in 0 .. d - 1
        PROVE  /\ frames[i + 1].obj \in Objects
               /\ Follows(links, {}, frames[i + 1].obj,
                          IF i + 1 < d THEN frames[i + 2].obj ELSE key)
    <2> DEFINE f == frames[i + 1]
               c == Column(f.obj, f.begun)
    <2>1. i + 1 \in 1 .. d /\ i \in 0 .. Len(frames) - 1
      BY <1>1
    <2>2. f.obj \in Objects /\ f.begun \in Nat
      BY <2>1, DeepFacts
    <2>3. FrameRight(links, modified, path, limit, frames, i)
      BY <2>1 DEF FramesRight
    <2>4. i + 1 < d \/ f = Top
      BY <1>1, <1>2
    <2>5. /\ f.begun # 0 /\ f.begun <= Len(Columns(f.obj))
          /\ ColumnOpen(links, modified, path, limit, frames, i)
      BY <1>1, <2>2, <2>3, <2>4 DEF FrameRight
    <2>6. f.begun \in 1 .. Len(Columns(f.obj))
      BY <2>2, <2>5, DeepFacts
    <2>7. c \in Listed(Columns(f.obj))
      BY <2>2, <2>6, DeepFacts
    <2>8. (IF i + 1 < d THEN frames[i + 2].obj ELSE key) \in Listed(links[f.obj][c])
      BY <1>3, <2>4, <2>5 DEF ColumnOpen
    <2> QED
      BY <2>2, <2>7, <2>8 DEF Follows
  <1>5. w \in Walks(links, {}, d)
    <2>1. w \in [0 .. d -> Objects]
      BY <1>1, <1>3, <1>4
    <2>2. ASSUME NEW i \in 0 .. d - 1
          PROVE  Follows(links, {}, w[i], w[i + 1])
      <3>1. i \in 0 .. d /\ i < d /\ i + 1 \in 0 .. d /\ (i + 1) + 1 = i + 2
        BY <1>1
      <3>2. w[i] = frames[i + 1].obj /\ w[i + 1] = IF i + 1 < d THEN frames[i + 2].obj ELSE key
        BY <3>1
      <3> HIDE DEF w
      <3> QED
        BY <1>4, <3>2
    <2> HIDE DEF w
    <2> QED
      BY <2>1, <2>2 DEF Walks
  <1>6. w[0] = Row /\ w[d] = key
    BY <1>1 DEF Row
  <1> HIDE DEF w
  <1> QED
    BY <1>1, <1>5, <1>6 DEF Clean

\* A modified object reaches itself.
LEMMA ModifiedIsReached ==
  ASSUME NEW g, NEW m, NEW x \in Objects, x \in m, NEW n \in Nat, NEW F
  PROVE  ~Clean(g, m, x, n, F)
  <1> DEFINE w == [i \in 0 .. 0 |-> x]
  <1>1. w \in [0 .. 0 -> Objects] /\ 0 .. 0 - 1 = {} /\ w[0] = x /\ 0 \in 0 .. n
    OBVIOUS
  <1>2. w \in Walks(g, F, 0)
    BY <1>1 DEF Walks
  <1> HIDE DEF w
  <1> QED
    BY <1>1, <1>2 DEF Clean

\* An answer is added.
LEMMA AnswersKept ==
  ASSUME DeepTyped, AnswersRight, NEW row \in Rows, NEW b \in BOOLEAN, Answer(row, b),
         UNCHANGED <<links, modified, limit>>,
         b <=> ~Clean(links, modified, row, limit - 1, {})
  PROVE  answers' \in Seq([row : Rows, modified : BOOLEAN]) /\ AnswersRight'
  <1> DEFINE R == [row : Rows, modified : BOOLEAN]
             a == [row |-> row, modified |-> b]
             n == Len(answers)
  <1>1. answers \in Seq(R) /\ a \in R /\ a.row = row /\ a.modified = b
    BY DEF DeepTyped
  <1> HIDE DEF R, a
  <1>2. /\ answers' \in Seq(R) /\ n \in Nat /\ DOMAIN answers = 1 .. n
        /\ DOMAIN answers' = 1 .. n + 1 /\ answers'[n + 1] = a
        /\ \A i \in 1 .. n : answers'[i] = answers[i]
    BY <1>1, AppendProperties, LenProperties DEF Answer, a
  <1>3. \A i \in 1 .. n + 1 : i \in 1 .. n \/ i = n + 1
    BY <1>2
  <1> HIDE DEF n
  <1>4. ASSUME NEW k \in DOMAIN answers'
        PROVE  answers'[k].modified <=> ~Clean(links', modified', answers'[k].row, limit' - 1, {})
    <2>1. CASE k \in 1 .. n
      BY <1>2, <2>1 DEF AnswersRight
    <2>2. CASE k = n + 1
      BY <1>1, <1>2, <2>2
    <2> QED
      BY <1>2, <1>3, <2>1, <2>2
  <1> QED
    BY <1>2, <1>4 DEF AnswersRight, R

----------------------------------------------------------------------------
(* The steps *)

\* The invariant holds at first.
LEMMA DeepStart ==
  ASSUME DeepAssumption, DeepInit
  PROVE  DeepInv
  <1>1. limit \in Nat \ {0}
    BY DEF DeepAssumption, DeepInit
  <1>2. path \in [0 .. limit - 1 -> Places]
    <2> DEFINE place == [obj |-> 0, col |-> "none", exceeded |-> FALSE]
    <2>1. place \in Places
      <3>1. 0 \in Objects \cup {0}
        BY Zenon
      <3>2. "none" \in STRING \cup {"none"}
        BY Zenon
      <3> QED
        BY <3>1, <3>2, Zenon DEF Places
    <2>2. path = [d \in 0 .. limit - 1 |-> place]
      BY DEF DeepInit
    <2> HIDE DEF place
    <2> QED
      BY <2>1, <2>2
  <1>3. DeepTyped
    <2>1. frames \in Seq(Frames) /\ Len(frames) = 0 /\ frames = <<>>
          /\ answers \in Seq([row : Rows, modified : BOOLEAN])
      BY DEF DeepInit
    <2> QED
      BY <1>1, <1>2, <2>1 DEF DeepTyped, DeepInit
  <1>4. FramesRight
    <2>1. 0 .. Len(frames) - 1 = {}
      BY DEF DeepInit
    <2> QED
      BY <2>1 DEF FramesRight
  <1>5. CacheRight /\ AnswersRight
    BY DEF CacheRight, AnswersRight, DeepInit
  <1> QED
    BY <1>3, <1>4, <1>5 DEF DeepInv

\* What is remembered stays right while nothing is added.
LEMMA CacheKept ==
  ASSUME CacheRight, UNCHANGED <<links, modified, limit, cache>>
  PROVE  CacheRight'
  BY DEF CacheRight

\* Answers stay right.
LEMMA AnswersUnchanged ==
  ASSUME AnswersRight, UNCHANGED <<links, modified, limit, answers>>
  PROVE  AnswersRight'
  BY DEF AnswersRight

\* A path agrees with itself.
LEMMA MarkedSame ==
  ASSUME NEW p, NEW d
  PROVE  Marked(p, p, d)
  BY DEF Marked

\* Without frames there is nothing to show of them.
LEMMA NoFrames ==
  ASSUME frames' = <<>>
  PROVE  FramesRight' /\ frames' \in Seq(Frames) /\ Len(frames') = 0
  <1>1. frames' \in Seq(Frames) /\ Len(frames') = 0
    OBVIOUS
  <1>2. 0 .. Len(frames') - 1 = {}
    BY <1>1
  <1> QED
    BY <1>1, <1>2 DEF FramesRight

\* operator() answers rightly, or begins a search.
LEMMA CallKeeps ==
  ASSUME DeepAssumption, DeepInv, NEW row \in Rows, Call(row)
  PROVE  DeepInv'
  <1> USE DEF DeepInv
  <1>1. UNCHANGED <<links, modified, limit, cache, path>> /\ frames = <<>>
    BY DEF Call
  <1>2. CacheRight'
    BY <1>1, CacheKept
  <1>3. limit - 1 \in Nat /\ row \in Objects
    <2>1. limit \in Nat \ {0}
      BY DeepFacts
    <2> QED
      BY <2>1 DEF Objects
  <1>4. CASE row \in modified /\ Answer(row, TRUE) /\ UNCHANGED frames
    <2>1. ~Clean(links, modified, row, limit - 1, {})
      BY <1>3, <1>4, ModifiedIsReached
    <2>2. answers' \in Seq([row : Rows, modified : BOOLEAN]) /\ AnswersRight'
      BY <1>1, <1>4, <2>1, AnswersKept
    <2>3. DeepTyped'
      BY <1>1, <1>4, <2>2 DEF DeepTyped
    <2> QED
      BY <1>1, <1>2, <1>4, <2>2, <2>3, NoFrames
  <1>5. CASE row \notin modified /\ row \in cache /\ Answer(row, FALSE) /\ UNCHANGED frames
    <2>1. Clean(links, modified, row, limit - 1, {})
      BY <1>5 DEF CacheRight
    <2>2. answers' \in Seq([row : Rows, modified : BOOLEAN]) /\ AnswersRight'
      BY <1>1, <1>5, <2>1, AnswersKept
    <2>3. DeepTyped'
      BY <1>1, <1>5, <2>2 DEF DeepTyped
    <2> QED
      BY <1>1, <1>2, <1>5, <2>2, <2>3, NoFrames
  <1>6. CASE row \notin modified /\ frames' = <<Frame(row)>> /\ UNCHANGED answers
    <2>1. AnswersRight'
      BY <1>1, <1>6, AnswersUnchanged
    <2>2. Frame(row) \in Frames /\ Frame(row).obj = row
      BY <1>3, FrameTyped
    <2>3. frames' \in Seq(Frames) /\ Len(frames') = 1 /\ frames'[1] = Frame(row)
      BY <1>6, <2>2
    <2>4. DeepTyped'
      <3>1. Len(frames') <= limit
        BY <2>3, DeepFacts
      <3> QED
        BY <1>1, <1>6, <2>2, <2>3, <3>1 DEF DeepTyped
    <2>5. FrameRight(links', modified', path', limit', frames', 0)
      <3>1. 0 \in Nat /\ 0 + 1 = 1 /\ Len(Columns(row)) \in Nat
        BY <1>3, DeepFacts
      <3> QED
        BY <1>1, <1>3, <1>6, <2>3, <3>1, NewFrameRight
    <2>6. FramesRight'
      <3>1. \A e \in 0 .. Len(frames') - 1 : e = 0
        BY <2>3
      <3> QED
        BY <2>5, <3>1 DEF FramesRight
    <2> QED
      BY <1>2, <2>1, <2>4, <2>6
  <1> QED
    BY <1>4, <1>5, <1>6 DEF Call

\* Frames below the top one, when that is replaced and others are put on it.
LEMMA LowerFramesRight ==
  ASSUME DeepAssumption, DeepInv, frames # <<>>, UNCHANGED <<links, modified, limit>>,
         Marked(path, path', Depth), Len(frames') \in Nat, Len(frames') > Depth,
         Alike(frames', frames, Depth),
         frames'[Depth + 1].obj = Top.obj
  PROVE  \A e \in 0 .. Depth - 1 : FrameRight(links', modified', path', limit', frames', e)
  <1> SUFFICES ASSUME NEW e \in 0 .. Depth - 1
               PROVE  FrameRight(links, modified, path', limit, frames', e)
    OBVIOUS
  <1>1. Depth \in Nat /\ Len(frames) = Depth + 1 /\ Top = frames[Depth + 1]
    BY BelowTop DEF DeepInv, DeepTyped
  <1> HIDE DEF Depth, Top
  <1>2. e \in Nat /\ e + 1 \in 1 .. Depth /\ e + 1 < Len(frames) /\ e + 1 < Len(frames')
        /\ e \in 0 .. Len(frames) - 1 /\ (e + 2 \in 1 .. Depth \/ e + 2 = Depth + 1)
        /\ e + 1 <= Depth /\ e + 1 \in 1 .. Len(frames)
    BY <1>1
  <1>3. frames'[e + 1] = frames[e + 1] /\ frames'[e + 2].obj = frames[e + 2].obj
    BY <1>1, <1>2 DEF Alike
  <1>4. Marked(path, path', e + 1)
    <2>1. e + 1 \in Int /\ Depth \in Int
      BY <1>1
    <2> QED
      BY <1>2, <2>1, MarkedLess
  <1>5. limit \in Nat \ {0} /\ Len(frames) \in Nat /\ frames[e + 1].begun \in Nat
    BY <1>2, DeepFacts DEF DeepInv
  <1>6. FrameRight(links, modified, path, limit, frames, e)
    BY <1>2 DEF DeepInv, FramesRight
  <1> QED
    BY <1>2, <1>3, <1>4, <1>5, <1>6, LowerFrameKept

\* The frames below a depth and those from it on are all frames.
LEMMA FramesTogether ==
  ASSUME NEW n \in Nat, Len(frames') \in Nat,
         \A e \in 0 .. n - 1 : FrameRight(links', modified', path', limit', frames', e),
         \A e \in n .. Len(frames') - 1 : FrameRight(links', modified', path', limit', frames', e)
  PROVE  FramesRight'
  BY DEF FramesRight

\* Marking places changes nothing else of the path.
LEMMA ExceedMarks ==
  ASSUME limit \in Nat, path \in [0 .. limit - 1 -> Places], NEW S, Exceed(S)
  PROVE  /\ path' \in [0 .. limit - 1 -> Places]
         /\ \A d \in Int : d <= limit => Marked(path, path', d)
         /\ \A j \in S \cap 0 .. limit - 1 : path'[j].exceeded
  <1>1. path' = [d \in 0 .. limit - 1 |-> [path[d] EXCEPT !.exceeded = @ \/ d \in S]]
    BY DEF Exceed
  <1>2. ASSUME NEW d \in 0 .. limit - 1
        PROVE  /\ path'[d] \in Places /\ path'[d].obj = path[d].obj /\ path'[d].col = path[d].col
               /\ path[d].exceeded \/ d \in S => path'[d].exceeded
    <2>1. path'[d] = [path[d] EXCEPT !.exceeded = @ \/ d \in S] /\ path[d] \in Places
      BY <1>1
    <2>2. \A x \in Places, b \in BOOLEAN :
            LET y == [x EXCEPT !.exceeded = b]
            IN y \in Places /\ y.obj = x.obj /\ y.col = x.col /\ y.exceeded = b
      BY DEF Places
    <2>3. (path[d].exceeded \/ d \in S) \in BOOLEAN
      OBVIOUS
    <2>4. path'[d] = [path[d] EXCEPT !.exceeded = (path[d].exceeded \/ d \in S)]
      BY <2>1
    <2> DEFINE b == path[d].exceeded \/ d \in S
    <2> HIDE DEF b
    <2>5. /\ path'[d] \in Places /\ path'[d].obj = path[d].obj /\ path'[d].col = path[d].col
          /\ path'[d].exceeded = b
      BY <2>1, <2>2, <2>3, <2>4 DEF b
    <2> QED
      BY <2>5 DEF b
  <1>3. path' \in [0 .. limit - 1 -> Places]
    BY <1>1, <1>2
  <1>4. \A d \in Int : d <= limit => Marked(path, path', d)
    <2> SUFFICES ASSUME NEW d \in Int, d <= limit, NEW j \in 0 .. d - 1
                 PROVE  /\ path'[j].obj = path[j].obj /\ path'[j].col = path[j].col
                        /\ path[j].exceeded => path'[j].exceeded
      BY DEF Marked
    <2>1. j \in 0 .. limit - 1
      OBVIOUS
    <2> QED
      BY <1>2, <2>1
  <1> QED
    BY <1>2, <1>3, <1>4

\* check_row for a linked object, whichever way it returns or goes on.
LEMMA CheckTargetKeeps ==
  ASSUME DeepAssumption, DeepInv, CheckTarget
  PROVE  DeepInv'
  <1> USE DEF DeepInv
  <1> DEFINE key  == Head(Top.keys)
             rest == [Top EXCEPT !.keys = Tail(@)]
             D    == Depth
  <1>1. frames # <<>> /\ Top.keys # <<>> /\ UNCHANGED <<links, modified, limit, cache>>
    BY DEF CheckTarget
  <1>2. frames \in Seq(Frames) /\ frames[1].obj \in Rows /\ Len(frames) <= limit
        /\ limit \in Nat \ {0} /\ path \in [0 .. limit - 1 -> Places]
    BY <1>1, DeepFacts DEF DeepTyped
  <1>3. D \in Nat /\ Len(frames) = D + 1 /\ Top = frames[D + 1] /\ Top \in Frames
    BY <1>1, <1>2, BelowTop
  <1>4. Top.obj \in Objects /\ Top.keys \in Seq(Objects)
    BY <1>3 DEF Frames
  <1>5. key \in Objects /\ Tail(Top.keys) \in Seq(Objects)
    BY <1>1, <1>4, HeadListed
  <1>6. rest \in Frames /\ rest.obj = Top.obj
    BY <1>3, <1>5 DEF Frames
  <1>7. CacheRight'
    BY <1>1, CacheKept
  <1>8. FrameRight(links, modified, path, limit, frames, D) /\ D \in 0 .. limit - 1
    BY <1>2, <1>3 DEF FramesRight
  <1>9. Row \in Rows
    BY <1>2 DEF Row
  <1>10. Frame(key) \in Frames /\ Frame(key).obj = key
    BY <1>5, FrameTyped
  <1> HIDE DEF Depth, D, rest, key
  <1>12. ASSUME frames' = Append(Below, rest), UNCHANGED answers,
                path' \in [0 .. limit - 1 -> Places],
                Marked(path, path', D + 1),
                Good(links, modified, path', limit, key, D + 1)
         PROVE  DeepInv'
    <2>1. frames' \in Seq(Frames) /\ Len(frames') = D + 1 /\ frames'[D + 1] = rest
          /\ Alike(frames', frames, D)
      BY <1>1, <1>2, <1>3, <1>6, <1>12, OnTop DEF D
    <2>2. frames'[1].obj \in Rows /\ Len(frames') <= limit
      <3>1. D = 0 \/ 1 \in 1 .. D
        BY <1>3
      <3> QED
        BY <1>2, <1>3, <1>6, <2>1, <3>1 DEF Alike
    <2>3. DeepTyped'
      BY <1>1, <1>12, <2>1, <2>2 DEF DeepTyped
    <2>4. Marked(path, path', D)
      <3>1. D \in Int /\ D + 1 \in Int /\ D <= D + 1
        BY <1>3
      <3> QED
        BY <1>12, <3>1, MarkedLess
    <2>5. \A e \in 0 .. D - 1 : FrameRight(links', modified', path', limit', frames', e)
      <3>1. Len(frames') \in Nat /\ Len(frames') > D /\ frames'[D + 1].obj = Top.obj
        BY <1>3, <1>6, <2>1
      <3> QED
        BY <1>1, <2>1, <2>4, <3>1, LowerFramesRight DEF D
    <2>6. FrameRight(links, modified, path', limit, frames', D)
      <3>1. frames'[D + 1] = [frames[D + 1] EXCEPT !.keys = Tail(@)]
        BY <1>3, <2>1 DEF rest
      <3>2. frames[D + 1].keys # <<>> /\ frames[D + 1] \in Frames
        BY <1>1, <1>3
      <3>3. Good(links, modified, path', limit, Head(frames[D + 1].keys), D + 1)
        BY <1>3, <1>12 DEF key
      <3> HIDE DEF DeepInv
      <3> QED
        BY <1>2, <1>3, <1>8, <1>12, <2>1, <3>1, <3>2, <3>3, TargetSeen
    <2>7. FramesRight'
      <3>1. \A e \in D .. Len(frames') - 1 : e = D
        BY <1>3, <2>1
      <3>2. Len(frames') \in Nat
        BY <1>3, <2>1
      <3> QED
        BY <1>1, <1>3, <2>5, <2>6, <3>1, <3>2, FramesTogether
    <2> QED
      BY <1>1, <1>7, <1>12, <2>3, <2>7, AnswersUnchanged
  <1>13. CASE /\ Len(frames) >= limit /\ Exceed(DOMAIN path)
              /\ frames' = Append(Below, rest) /\ UNCHANGED answers
    <2>1. limit = D + 1 /\ limit \in Nat
      BY <1>2, <1>3, <1>13
    <2>2. /\ path' \in [0 .. limit - 1 -> Places] /\ Marked(path, path', D + 1)
          /\ \A j \in 0 .. limit - 1 : path'[j].exceeded
      BY <1>2, <1>3, <1>13, <2>1, ExceedMarks, SMTT(20)
    <2>3. Good(links, modified, path', limit, key, D + 1)
      BY <1>2, <2>1, <2>2, CutIsGood
    <2> QED
      BY <1>12, <1>13, <2>2, <2>3
  <1>14. CASE /\ Len(frames) < limit /\ key \in modified /\ frames' = <<>>
              /\ Answer(Row, TRUE) /\ UNCHANGED path
    <2>1. ~Clean(links, modified, Row, limit - 1, {})
      BY <1>1, <1>14, FoundIsReached DEF key
    <2>2. answers' \in Seq([row : Rows, modified : BOOLEAN]) /\ AnswersRight'
      BY <1>1, <1>9, <1>14, <2>1, AnswersKept
    <2>3. FramesRight' /\ frames' \in Seq(Frames) /\ Len(frames') = 0
      BY <1>14, NoFrames
    <2>4. Len(frames') <= limit
      BY <1>2, <2>3
    <2>5. DeepTyped'
      BY <1>1, <1>14, <2>2, <2>3, <2>4 DEF DeepTyped
    <2> QED
      BY <1>7, <2>2, <2>3, <2>5
  <1>15. CASE /\ key \in cache /\ frames' = Append(Below, rest) /\ UNCHANGED <<path, answers>>
    <2>1. Clean(links, modified, key, limit - 1, {})
      BY <1>15 DEF CacheRight
    <2>2. D + 1 \in Nat
      BY <1>3
    <2>3. Good(links, modified, path, limit, key, D + 1)
      BY <1>2, <2>1, <2>2, CleanIsGood
    <2> QED
      BY <1>2, <1>12, <1>15, <2>3, MarkedSame
  <1>16. CASE /\ Len(frames) < limit /\ key \notin modified
              /\ frames' = Append(Append(Below, rest), Frame(key)) /\ UNCHANGED <<path, answers>>
    <2>1. frames' \in Seq(Frames) /\ Len(frames') = D + 2 /\ frames'[D + 1] = rest
          /\ frames'[D + 2] = Frame(key) /\ Alike(frames', frames, D)
      <3> DEFINE h == Frame(key)
                 r == Append(Below, rest)
      <3>1. h \in Frames /\ frames' = Append(r, h)
        BY <1>10, <1>16
      <3>2. r \in Seq(Frames) /\ Len(r) = D + 1 /\ r[D + 1] = rest /\ Alike(r, frames, D)
        BY <1>1, <1>2, <1>6, OnTop DEF D
      <3> HIDE DEF h, r, DeepInv
      <3>3. frames' \in Seq(Frames) /\ Len(frames') = D + 2 /\ frames'[D + 1] = r[D + 1]
            /\ frames'[D + 2] = h /\ Alike(frames', frames, D)
        <4>1. frames' \in Seq(Frames) /\ Len(frames') = D + 2 /\ frames'[D + 2] = h
          BY <1>3, <3>1, <3>2, AppendProperties
        <4>2. \A i \in 1 .. D + 1 : frames'[i] = r[i]
          BY <1>3, <3>1, <3>2, AppendProperties
        <4>3. D + 1 \in 1 .. D + 1 /\ \A i \in 1 .. D : i \in 1 .. D + 1
          BY <1>3
        <4> QED
          BY <3>2, <4>1, <4>2, <4>3 DEF Alike
      <3> QED
        BY <3>2, <3>3 DEF h
    <2>2. frames'[1].obj \in Rows /\ Len(frames') <= limit
      <3>1. D = 0 \/ 1 \in 1 .. D
        BY <1>3
      <3>2. Len(frames') <= limit
        BY <1>2, <1>3, <1>16, <2>1
      <3> QED
        BY <1>2, <1>3, <1>6, <2>1, <3>1, <3>2 DEF Alike
    <2>3. DeepTyped'
      BY <1>1, <1>16, <2>1, <2>2 DEF DeepTyped
    <2>4. Marked(path, path', D) /\ Marked(path, path', D + 1)
      BY <1>16, MarkedSame
    <2>5. \A e \in 0 .. D - 1 : FrameRight(links', modified', path', limit', frames', e)
      <3>1. Len(frames') \in Nat /\ Len(frames') > D /\ frames'[D + 1].obj = Top.obj
        BY <1>3, <1>6, <2>1
      <3> QED
        BY <1>1, <2>1, <2>4, <3>1, LowerFramesRight DEF D
    <2>6. FrameRight(links, modified, path', limit, frames', D)
      BY <1>1, <1>2, <1>3, <1>8, <1>10, <2>1, <2>4, TargetSeen DEF key, rest
    <2>7. FrameRight(links, modified, path', limit, frames', D + 1)
      <3>1. D + 1 \in Nat /\ Len(frames') = (D + 1) + 1 /\ frames'[(D + 1) + 1] = Frame(key)
        BY <1>3, <2>1
      <3>2. Len(Columns(key)) \in Nat
        BY <1>5, DeepFacts DEF key
      <3> QED
        BY <1>5, <1>16, <3>1, <3>2, NewFrameRight DEF key
    <2>8. FramesRight'
      <3>1. \A e \in D .. Len(frames') - 1 : e = D \/ e = D + 1
        BY <1>3, <2>1
      <3>2. Len(frames') \in Nat
        BY <1>3, <2>1
      <3> QED
        BY <1>1, <1>3, <2>5, <2>6, <2>7, <3>1, <3>2, FramesTogether
    <2> QED
      BY <1>1, <1>7, <1>16, <2>3, <2>8, AnswersUnchanged
  <1> QED
    BY <1>13, <1>14, <1>15, <1>16 DEF CheckTarget, key, rest

\* A column that is begun, or that is on the path already.
LEMMA BeginColumnKeeps ==
  ASSUME DeepAssumption, DeepInv, BeginColumn
  PROVE  DeepInv'
  <1> USE DEF DeepInv
  <1> DEFINE D   == Depth
             f   == Top
             c   == Top.begun + 1
             col == Column(Top.obj, c)
             matches == {d \in 0 .. D - 1 : path[d].obj = Top.obj /\ path[d].col = col}
  <1>1. frames # <<>> /\ f.keys = <<>> /\ f.begun < Len(Columns(f.obj))
        /\ UNCHANGED <<links, modified, limit, cache, answers>>
    BY DEF BeginColumn
  <1>2. frames \in Seq(Frames) /\ frames[1].obj \in Rows /\ Len(frames) <= limit
        /\ limit \in Nat \ {0} /\ path \in [0 .. limit - 1 -> Places]
    BY <1>1, DeepFacts DEF DeepTyped
  <1>3. D \in Nat /\ Len(frames) = D + 1 /\ f = frames[D + 1] /\ f \in Frames
    BY <1>1, <1>2, BelowTop
  <1>4. f.obj \in Objects /\ f.begun \in Nat /\ f.keys \in Seq(Objects)
    BY <1>3 DEF Frames
  <1>5. c \in 1 .. Len(Columns(f.obj)) /\ c \in Nat
    BY <1>1, <1>4, DeepFacts
  <1>6. col \in STRING /\ links[f.obj][col] \in Seq(Objects)
    BY <1>4, <1>5, DeepFacts
  <1>7. FrameRight(links, modified, path, limit, frames, D) /\ D \in 0 .. limit - 1
    BY <1>2, <1>3 DEF FramesRight
  <1>8. CacheRight' /\ AnswersRight'
    BY <1>1, CacheKept, AnswersUnchanged
  <1> HIDE DEF D, f, c, col, matches
  <1>9. ASSUME NEW h \in Frames, h.obj = f.obj, h.begun = c, frames' = Append(Below, h),
               path' \in [0 .. limit - 1 -> Places], Marked(path, path', D),
               \/ /\ h.keys = <<>>
                  /\ ColumnDone(links, modified, path', limit, f.obj, col, D)
               \/ /\ h.keys = links[f.obj][col]
                  /\ path'[D].obj = f.obj /\ path'[D].col = col
        PROVE  DeepInv'
    <2>1. frames' \in Seq(Frames) /\ Len(frames') = D + 1 /\ frames'[D + 1] = h
          /\ Alike(frames', frames, D)
      BY <1>1, <1>2, <1>9, OnTop DEF D
    <2>2. frames'[1].obj \in Rows /\ Len(frames') <= limit
      <3>1. D = 0 \/ 1 \in 1 .. D
        BY <1>3
      <3> QED
        BY <1>2, <1>3, <1>9, <2>1, <3>1 DEF Alike
    <2>3. DeepTyped'
      BY <1>1, <1>9, <2>1, <2>2 DEF DeepTyped
    <2>4. Len(frames') \in Nat /\ Len(frames') > D
      BY <1>3, <2>1
    <2>5. \A e \in 0 .. D - 1 : FrameRight(links', modified', path', limit', frames', e)
      BY <1>1, <1>9, <2>1, <2>4, LowerFramesRight DEF D, f
    <2>6. FrameRight(links, modified, path', limit, frames', D)
      <3>1. frames[D + 1].begun \in Nat /\ frames[D + 1].keys = <<>>
            /\ c = frames[D + 1].begun + 1 /\ c <= Len(Columns(frames[D + 1].obj))
            /\ frames'[D + 1].obj = frames[D + 1].obj /\ frames'[D + 1].begun = c
            /\ col = Column(frames[D + 1].obj, c)
        BY <1>1, <1>3, <1>4, <1>5, <1>9, <2>1, DeepFacts DEF c, col, f
      <3>2. \/ /\ frames'[D + 1].keys = <<>>
               /\ ColumnDone(links, modified, path', limit, frames[D + 1].obj, col, D)
            \/ /\ frames'[D + 1].keys = links[frames[D + 1].obj][col]
               /\ path'[D].obj = frames[D + 1].obj /\ path'[D].col = col
        BY <1>3, <1>9, <2>1
      <3> HIDE DEF DeepInv
      <3> QED
        BY <1>2, <1>3, <1>7, <1>9, <2>1, <3>1, <3>2, ColumnBegun
    <2>7. FramesRight'
      <3>1. \A e \in D .. Len(frames') - 1 : e = D
        BY <1>3, <2>1
      <3> QED
        BY <1>1, <1>3, <2>4, <2>5, <2>6, <3>1, FramesTogether
    <2> QED
      BY <1>8, <2>3, <2>7
  <1>10. CASE /\ matches # {}
              /\ Exceed({d \in 0 .. D - 1 : \E k \in matches : k <= d})
              /\ frames' = Append(Below, [f EXCEPT !.begun = c])
    <2> DEFINE h == [f EXCEPT !.begun = c]
               S == {d \in 0 .. D - 1 : \E k \in matches : k <= d}
    <2>1. h \in Frames /\ h.obj = f.obj /\ h.begun = c /\ h.keys = <<>>
      BY <1>1, <1>3, <1>5 DEF Frames
    <2>2. /\ path' \in [0 .. limit - 1 -> Places] /\ Marked(path, path', D)
          /\ \A j \in S \cap 0 .. limit - 1 : path'[j].exceeded
      <3>1. D \in Int /\ D <= limit /\ limit \in Nat
        BY <1>2, <1>3
      <3>2. Exceed(S)
        BY <1>10, Zenon
      <3> HIDE DEF S, DeepInv
      <3>3. /\ path' \in [0 .. limit - 1 -> Places]
            /\ \A d \in Int : d <= limit => Marked(path, path', d)
            /\ \A j \in S \cap 0 .. limit - 1 : path'[j].exceeded
        BY <1>2, <3>1, <3>2, ExceedMarks
      <3> QED
        BY <3>1, <3>3
    <2>3. ColumnDone(links, modified, path', limit, f.obj, col, D)
      <3>1. PICK k \in 0 .. D - 1 : k \in matches /\ path[k].obj = f.obj /\ path[k].col = col
        BY <1>10 DEF matches, f
      <3>2. path'[k].obj = f.obj /\ path'[k].col = col
        BY <2>2, <3>1 DEF Marked
      <3>3. \A j \in k .. D - 1 : j \in S /\ j \in 0 .. limit - 1
        <4> SUFFICES ASSUME NEW j \in k .. D - 1
                     PROVE  j \in S /\ j \in 0 .. limit - 1
          OBVIOUS
        <4>1. j \in 0 .. D - 1 /\ k <= j /\ j \in 0 .. limit - 1
          BY <1>2, <1>3, <1>7
        <4> QED
          BY <3>1, <4>1
      <3>4. \A j \in k .. D - 1 : path'[j].exceeded
        BY <2>2, <3>3
      <3> QED
        BY <1>2, <1>7, <3>2, <3>4, MatchedIsDone
    <2> HIDE DEF h
    <2> QED
      BY <1>9, <1>10, <2>1, <2>2, <2>3 DEF h
  <1>11. CASE /\ path' = [path EXCEPT ![D] = [obj |-> f.obj, col |-> col, exceeded |-> FALSE]]
              /\ frames' = Append(Below, [f EXCEPT !.begun = c, !.keys = links[f.obj][col]])
    <2> DEFINE h == [f EXCEPT !.begun = c, !.keys = links[f.obj][col]]
               x == [obj |-> f.obj, col |-> col, exceeded |-> FALSE]
    <2>1. h \in Frames /\ h.obj = f.obj /\ h.begun = c /\ h.keys = links[f.obj][col]
      BY <1>3, <1>5, <1>6 DEF Frames
    <2>2. x \in Places /\ x.obj = f.obj /\ x.col = col
      BY <1>4, <1>6 DEF Places
    <2> HIDE DEF x, h
    <2>3. path' = [path EXCEPT ![D] = x]
      BY <1>11 DEF x
    <2>4. path' \in [0 .. limit - 1 -> Places] /\ path'[D] = x
          /\ \A j \in 0 .. D - 1 : path'[j] = path[j]
      BY <1>2, <1>3, <1>7, <2>2, <2>3
    <2>5. Marked(path, path', D)
      BY <2>4 DEF Marked
    <2> QED
      BY <1>9, <1>11, <2>1, <2>2, <2>4, <2>5 DEF h
  <1> QED
    BY <1>10, <1>11 DEF BeginColumn, matches, col, c, f, D

\* check_row returns false: what it remembers and answers is right.
LEMMA ReturnKeeps ==
  ASSUME DeepAssumption, DeepInv, Return
  PROVE  DeepInv'
  <1> USE DEF DeepInv
  <1> DEFINE D == Depth
             f == Top
  <1>1. frames # <<>> /\ f.keys = <<>> /\ f.begun = Len(Columns(f.obj)) /\ frames' = Below
        /\ UNCHANGED <<links, modified, limit, path>> /\ NotModified
    BY DEF Return
  <1>2. frames \in Seq(Frames) /\ frames[1].obj \in Rows /\ Len(frames) <= limit
        /\ limit \in Nat \ {0} /\ cache \subseteq Objects
    BY <1>1, DeepFacts DEF DeepTyped
  <1>3. D \in Nat /\ Len(frames) = D + 1 /\ f = frames[D + 1] /\ f \in Frames
        /\ frames' \in Seq(Frames) /\ Len(frames') = D /\ Alike(frames', frames, D)
    BY <1>1, <1>2, BelowTop
  <1>4. f.obj \in Objects /\ f.begun \in Nat
    BY <1>3 DEF Frames
  <1>5. FrameRight(links, modified, path, limit, frames, D) /\ D \in 0 .. limit - 1
    BY <1>2, <1>3 DEF FramesRight
  <1>6. f.obj \notin modified
    BY <1>3, <1>5 DEF FrameRight
  <1> HIDE DEF D, f
  <1>7. Good(links, modified, path, limit, f.obj, D)
    <2>1. \A c \in 1 .. f.begun :
            ColumnDone(links, modified, path, limit, f.obj, Column(f.obj, c), D)
      <3>1. frames[D + 1].begun \in Nat /\ frames[D + 1].keys = <<>> /\ Len(frames) = D + 1
        BY <1>1, <1>3, <1>4
      <3>2. \A c \in 1 .. frames[D + 1].begun :
              ColumnDone(links, modified, path, limit, frames[D + 1].obj,
                         Column(frames[D + 1].obj, c), D)
        BY <1>2, <1>5, <3>1, ColumnsDone
      <3> QED
        BY <1>3, <3>2
    <2>2. Listed(Columns(f.obj)) = {Column(f.obj, c) : c \in 1 .. f.begun}
      BY <1>1, <1>4, DeepFacts
    <2>3. \A c \in Listed(Columns(f.obj)) : ColumnDone(links, modified, path, limit, f.obj, c, D)
      BY <2>1, <2>2
    <2> QED
      BY <1>2, <1>3, <1>6, <2>3, ObjectFinished
  <1>8. D = 0 \/ ~path[D - 1].exceeded => Clean(links, modified, f.obj, limit - 1, {})
    BY <1>2, <1>5, <1>7, GoodIsClean
  <1>9. cache' \subseteq Objects /\ CacheRight'
    <2>1. CASE D > 0 /\ path[D - 1].exceeded
      <3>1. cache' = cache
        BY <1>1, <2>1 DEF NotModified, D
      <3> QED
        BY <1>1, <1>2, <3>1, CacheKept
    <2>2. CASE ~(D > 0 /\ path[D - 1].exceeded)
      <3>1. cache' = cache \cup {f.obj}
        BY <1>1, <2>2 DEF NotModified, D, f
      <3>2. Clean(links, modified, f.obj, limit - 1, {})
        BY <1>3, <1>8, <2>2
      <3> QED
        BY <1>1, <1>2, <1>4, <3>1, <3>2 DEF CacheRight
    <2> QED
      BY <2>1, <2>2
  <1>10. answers' \in Seq([row : Rows, modified : BOOLEAN]) /\ AnswersRight'
    <2>1. CASE D = 0
      <3>1. Answer(Row, FALSE) /\ Row = f.obj /\ Row \in Rows
        <4>1. Answer(Row, FALSE)
          BY <2>1 DEF Return, D
        <4>2. D + 1 = 1
          BY <2>1
        <4> QED
          BY <1>2, <1>3, <4>1, <4>2 DEF Row
      <3>2. Clean(links, modified, Row, limit - 1, {})
        BY <1>8, <2>1, <3>1
      <3> QED
        BY <1>1, <3>1, <3>2, AnswersKept
    <2>2. CASE D # 0
      <3>1. UNCHANGED answers
        BY <2>2 DEF Return, D
      <3> QED
        BY <1>1, <3>1, AnswersUnchanged DEF DeepTyped
    <2> QED
      BY <2>1, <2>2
  <1>11. DeepTyped'
    <2>1. Len(frames') <= limit /\ (frames' # <<>> => frames'[1].obj \in Rows)
      <3>1. D = 0 \/ 1 \in 1 .. D
        BY <1>3
      <3>2. D = 0 => frames' = <<>>
        BY <1>3, EmptySeq
      <3>3. 1 \in 1 .. D => frames'[1] = frames[1]
        BY <1>3 DEF Alike
      <3> QED
        BY <1>2, <1>3, <3>1, <3>2, <3>3
    <2> QED
      BY <1>1, <1>3, <1>9, <1>10, <2>1 DEF DeepTyped
  <1>12. FramesRight'
    <2> SUFFICES ASSUME NEW e \in 0 .. D - 1
                 PROVE  FrameRight(links, modified, path, limit, frames', e)
      BY <1>1, <1>3 DEF FramesRight
    <2>1. /\ e \in Nat /\ e + 1 \in 1 .. D /\ e \in 0 .. Len(frames) - 1
          /\ e + 1 \in 1 .. Len(frames) /\ e + 1 < Len(frames)
      BY <1>3
    <2>2. frames'[e + 1] = frames[e + 1] /\ frames[e + 1].begun \in Nat
          /\ FrameRight(links, modified, path, limit, frames, e)
      BY <1>3, <2>1, DeepFacts DEF Alike, FramesRight
    <2>3. CASE e + 1 = D
      <3>1. Len(frames) = e + 2 /\ Len(frames') = e + 1 /\ frames[e + 2] = f
        BY <1>3, <2>3
      <3> QED
        BY <1>2, <1>7, <2>1, <2>2, <2>3, <3>1, TargetReturned
    <2>4. CASE e + 1 < D
      <3>1. e + 2 \in 1 .. D /\ e + 1 < Len(frames') /\ Len(frames) \in Nat /\ Len(frames') \in Nat
        BY <1>3, <2>1, <2>4
      <3>2. frames'[e + 2].obj = frames[e + 2].obj
        BY <1>3, <3>1 DEF Alike
      <3>3. Marked(path, path, e + 1)
        BY MarkedSame
      <3> HIDE DEF DeepInv
      <3> QED
        BY <1>2, <2>1, <2>2, <3>1, <3>2, <3>3, LowerFrameKept
    <2> QED
      BY <2>1, <2>3, <2>4, <1>3
  <1> QED
    BY <1>9, <1>10, <1>11, <1>12

\* The inductive invariant holds throughout: columns, frames, remembered objects and
\* answers are right, for any links.
THEOREM DeepInvariant == DeepAssumption /\ DeepSpec => []DeepInv
  <1> SUFFICES ASSUME DeepAssumption
               PROVE  DeepSpec => []DeepInv
    OBVIOUS
  <1>1. DeepInit => DeepInv
    BY DeepStart
  <1>2. DeepInv /\ [DeepNext]_deepVars => DeepInv'
    <2> SUFFICES ASSUME DeepInv, [DeepNext]_deepVars
                 PROVE  DeepInv'
      OBVIOUS
    <2>1. CASE \E row \in Rows : Call(row)
      BY <2>1, CallKeeps
    <2>2. CASE CheckTarget
      BY <2>2, CheckTargetKeeps
    <2>3. CASE BeginColumn
      BY <2>3, BeginColumnKeeps
    <2>4. CASE Return
      BY <2>4, ReturnKeeps
    <2>5. CASE UNCHANGED deepVars
      BY <2>5 DEF deepVars, DeepInv, DeepTyped, FramesRight, CacheRight, AnswersRight
    <2> QED
      BY <2>1, <2>2, <2>3, <2>4, <2>5 DEF DeepNext
  <1> QED
    BY <1>1, <1>2, PTL DEF DeepSpec

\* Clean says what the property says.
LEMMA CleanIsUnreached ==
  ASSUME NEW row
  PROVE  ~Clean(links, modified, row, limit - 1, {})
           <=> \E n \in 0 .. limit - 1, t \in modified : Leads(row, n, t)
  <1>1. \A a, b : Follows(links, {}, a, b) <=> b \in Targets(a)
    BY DEF Follows, Targets
  <1>2. \A n : Walks(links, {}, n) =
          {w \in [0 .. n -> Objects] : \A i \in 0 .. n - 1 : w[i + 1] \in Targets(w[i])}
    BY <1>1 DEF Walks
  <1>3. \A n : (\E w \in Walks(links, {}, n) : w[0] = row /\ w[n] \in modified)
              <=> \E t \in modified : Leads(row, n, t)
    BY <1>2, Zenon DEF Leads
  <1>4. ~Clean(links, modified, row, limit - 1, {}) <=>
          \E n \in 0 .. limit - 1 : \E w \in Walks(links, {}, n) : w[0] = row /\ w[n] \in modified
    BY Zenon DEF Clean
  <1> QED
    BY <1>3, <1>4, Zenon

\* Every row is reported as modified if and only if a link path no longer than the
\* limit leads to a modified object, for any graph, order of rows and limit.
THEOREM RowsAreModifiedExactly == DeepAssumption /\ DeepSpec => []RowsModifiedExactly
  <1>1. DeepInv => RowsModifiedExactly
    BY CleanIsUnreached DEF DeepInv, AnswersRight, RowsModifiedExactly
  <1> QED
    BY <1>1, DeepInvariant, PTL

----------------------------------------------------------------------------
(* The callbacks of a notifier                                             *)

\* an entry of m_callbacks
Entries == [token : Tokens, changes : BOOLEAN, initial : BOOLEAN]

\* The vector grows at its end only: tokens ascend.
Ascending ==
  /\ Len(callbacks) + uncounted < next_token
  /\ \A i \in DOMAIN callbacks : callbacks[i].token < next_token
  /\ \A i, j \in DOMAIN callbacks : i < j => callbacks[i].token < callbacks[j].token

\* how many callbacks the walk has got past
Passed == IF index = npos THEN 0 ELSE index + 1

\* The walk stands at the callback that is running, or where that one was.
PlaceKept ==
  /\ Walking <=> running # 0
  /\ running < next_token
  /\ ~Walking => index = npos
  /\ Passed <= Len(callbacks)
  /\ Walking => \A i \in DOMAIN callbacks : i <= Passed <=> callbacks[i].token <= running

\* Only callbacks that were added are packaged.
PackagedBefore == \A t \in packaged : t < next_token

\* Those called so far were called in the order they were added.
CalledInTurn ==
  /\ ~Walking => called = <<>>
  /\ \A i \in DOMAIN called : called[i] <= running
  /\ \A i, j \in DOMAIN called : i < j => called[i] < called[j]

\* The count has wrapped around.
Wrapped == count + uncounted >= SizeT

\* How many of the packaged callbacks are left.
Packed == IF Wrapped THEN count + uncounted - SizeT ELSE count + uncounted

\* Those are the first in the vector; until the count wraps around only packaged
\* callbacks are called, and whoever the last walk got past has nothing to be told.
Counted ==
  pass \notin {"none", "overrun"} =>
    /\ Packed <= Len(callbacks)
    /\ \A i \in DOMAIN callbacks : callbacks[i].token \in packaged <=> i <= Packed
    /\ ~Wrapped => \A i \in DOMAIN called : called[i] \in packaged
    /\ ~Wrapped /\ pass = "after" =>
         \A i \in DOMAIN callbacks : i <= Passed /\ i <= count =>
           callbacks[i].initial /\ ~callbacks[i].changes

\* The inductive invariant.
CallbacksInv ==
  /\ TypeOK /\ Ascending /\ PlaceKept /\ PackagedBefore /\ CalledInTurn /\ Counted
  /\ HaveIsRight

-----------------------------------------------------------------------------
(* size_t and the vector                                                   *)

\* One more, as size_t counts.
LEMMA WrapForward ==
  ASSUME NEW k \in Nat, k > 0, NEW a \in 0 .. k - 1
  PROVE  (a + 1) % k = IF a = k - 1 THEN 0 ELSE a + 1
<1>1. k % k = 0
  OBVIOUS
<1>2. \A b \in 0 .. k - 1 : b % k = b
  OBVIOUS
<1> QED BY <1>1, <1>2

\* A sum, as size_t counts.
LEMMA SumWrapped ==
  ASSUME NEW k \in Nat, NEW a \in 0 .. k - 1, NEW b \in 0 .. k - 1
  PROVE  (a + b) % k = IF a + b >= k THEN a + b - k ELSE a + b
<1>1. \A c \in 0 .. k - 1 : c % k = c /\ (c + k) % k = c
  OBVIOUS
<1>2. CASE a + b >= k
  <2>1. a + b - k \in 0 .. k - 1 /\ a + b = (a + b - k) + k
    BY <1>2
  <2> QED BY <1>1, <1>2, <2>1
<1>3. CASE ~(a + b >= k)
  <2>1. a + b \in 0 .. k - 1
    BY <1>3
  <2> QED BY <1>1, <1>3, <2>1
<1> QED BY <1>2, <1>3

\* One less, as size_t counts.
LEMMA WrapBack ==
  ASSUME NEW k \in Nat, k > 0, NEW a \in 0 .. k - 1
  PROVE  (a + k - 1) % k = IF a = 0 THEN k - 1 ELSE a - 1
<1>1. \A b \in 0 .. k - 1 : b % k = b /\ (b + k) % k = b
  OBVIOUS
<1>2. CASE a = 0
  BY <1>1, <1>2
<1>3. CASE a # 0
  <2>1. a - 1 \in 0 .. k - 1 /\ a + k - 1 = (a - 1) + k
    BY <1>3
  <2> QED BY <1>1, <1>3, <2>1
<1> QED BY <1>2, <1>3

\* What index and count become, without the wrapping.
LEMMA CountersUnwrapped ==
  ASSUME CallbacksAssumption, TypeOK, NEW i
  PROVE  /\ (index + 1) % SizeT = Passed
         /\ DecrementedCount(i) = IF count = 0 THEN npos ELSE count - 1
         /\ ShiftedIndex(i) = IF index # npos /\ index >= i - 1
                              THEN IF index = 0 THEN npos ELSE index - 1
                              ELSE index
<1>1. SizeT \in Nat /\ SizeT > 0 /\ index \in 0 .. SizeT - 1 /\ count \in 0 .. SizeT - 1
  BY DEF CallbacksAssumption, TypeOK, npos
<1>2. (index + 1) % SizeT = Passed
  BY <1>1, WrapForward DEF Passed, npos
<1>3. /\ (count + SizeT - 1) % SizeT = IF count = 0 THEN SizeT - 1 ELSE count - 1
      /\ (index + SizeT - 1) % SizeT = IF index = 0 THEN SizeT - 1 ELSE index - 1
  BY <1>1, WrapBack
<1> QED BY <1>2, <1>3 DEF DecrementedCount, ShiftedIndex, npos

\* A sequence without one of its elements.
LEMMA RemoveAtProperties ==
  ASSUME NEW S, NEW s \in Seq(S), NEW i \in 1 .. Len(s)
  PROVE  /\ RemoveAt(s, i) \in Seq(S)
         /\ Len(RemoveAt(s, i)) = Len(s) - 1
         /\ \A k \in 1 .. Len(s) - 1 :
              RemoveAt(s, i)[k] = IF k < i THEN s[k] ELSE s[k + 1]
<1> DEFINE a == SubSeq(s, 1, i - 1)
           b == SubSeq(s, i + 1, Len(s))
<1>1. Len(s) \in Nat /\ i \in Nat /\ i >= 1 /\ i <= Len(s)
  OBVIOUS
<1>2. a \in Seq(S) /\ Len(a) = i - 1 /\ \A k \in 1 .. i - 1 : a[k] = s[k]
  <2>1. \A k \in 1 .. i - 1 : s[k] \in S
    BY <1>1
  <2> QED BY <1>1, <2>1, SubSeqProperties
<1>3. b \in Seq(S) /\ Len(b) = Len(s) - i
      /\ \A k \in 1 .. Len(s) - i : b[k] = s[i + k]
  <2>1. \A k \in i + 1 .. Len(s) : s[k] \in S
    BY <1>1
  <2> QED BY <1>1, <2>1, SubSeqProperties
<1>4. RemoveAt(s, i) = a \o b
  BY DEF RemoveAt
<1> HIDE DEF a, b
<1>5. /\ a \o b \in Seq(S) /\ Len(a \o b) = Len(s) - 1
      /\ \A k \in 1 .. Len(s) - 1 :
           (a \o b)[k] = IF k <= i - 1 THEN a[k] ELSE b[k - (i - 1)]
  <2>1. /\ a \o b \in Seq(S) /\ Len(a \o b) = Len(a) + Len(b)
        /\ \A k \in 1 .. Len(a) + Len(b) :
             (a \o b)[k] = IF k <= Len(a) THEN a[k] ELSE b[k - Len(a)]
    BY <1>2, <1>3, ConcatProperties
  <2>2. Len(a) = i - 1 /\ Len(a) + Len(b) = Len(s) - 1
    BY <1>1, <1>2, <1>3
  <2> QED BY <2>1, <2>2
<1>6. ASSUME NEW k \in 1 .. Len(s) - 1
      PROVE  (a \o b)[k] = IF k < i THEN s[k] ELSE s[k + 1]
  <2>1. CASE k < i
    BY <1>1, <1>2, <1>5, <2>1
  <2>2. CASE ~(k < i)
    <3>1. k - (i - 1) \in 1 .. Len(s) - i /\ i + (k - (i - 1)) = k + 1
      BY <1>1, <2>2
    <3> QED BY <1>1, <1>3, <1>5, <2>2, <3>1
  <2> QED BY <2>1, <2>2
<1> QED BY <1>4, <1>5, <1>6

\* The domains the invariant quantifies over.
LEMMA VectorTyped ==
  ASSUME CallbacksAssumption, TypeOK
  PROVE  /\ callbacks \in Seq(Entries) /\ called \in Seq(Tokens)
         /\ DOMAIN callbacks = 1 .. Len(callbacks) /\ Len(callbacks) \in Nat
         /\ DOMAIN called = 1 .. Len(called) /\ Len(called) \in Nat
         /\ \A i \in 1 .. Len(callbacks) :
              /\ callbacks[i] \in Entries /\ callbacks[i].token \in Tokens
         /\ Tokens \subseteq Nat \ {0}
         /\ npos \in Nat /\ MaxTokens < npos /\ count \in Nat /\ index \in Nat
         /\ uncounted \in Nat /\ uncounted < SizeT /\ SizeT \in Nat /\ count < SizeT
<1>1. callbacks \in Seq(Entries) /\ called \in Seq(Tokens)
  BY DEF TypeOK, Entries
<1>2. \A i \in 1 .. Len(callbacks) : callbacks[i] \in Entries
  BY <1>1
<1>3. \A e \in Entries : e.token \in Tokens
  BY DEF Entries
<1> QED BY <1>1, <1>2, <1>3 DEF TypeOK, CallbacksAssumption, Tokens, npos

\* There is no callback at first.
LEMMA InitCallbacksInv ==
  ASSUME CallbacksAssumption, Init
  PROVE  CallbacksInv
<1>1. TypeOK
  <2>1. npos \in 0 .. npos /\ 1 \in 1 .. MaxTokens + 1 /\ 0 \in 0 .. MaxPackages
    BY DEF CallbacksAssumption, npos
  <2>2. \A S : <<>> \in Seq(S)
    OBVIOUS
  <2>3. have \in BOOLEAN /\ packaged \subseteq Tokens /\ uncounted = 0
    BY DEF Init
  <2>4. 0 \in 0 .. MaxTokens
    BY DEF CallbacksAssumption
  <2> QED BY <2>1, <2>2, <2>3, <2>4 DEF Init, TypeOK
<1>2. DOMAIN callbacks = {} /\ DOMAIN called = {} /\ Len(callbacks) = 0
  BY DEF Init
<1>3. HaveIsRight
  BY DEF Init, HaveIsRight
<1>4. Ascending /\ PlaceKept /\ PackagedBefore /\ CalledInTurn
  BY <1>2 DEF Init, Ascending, PlaceKept, PackagedBefore, CalledInTurn, Passed, Walking
<1>5. Counted
  BY DEF Init, Counted
<1> QED BY <1>1, <1>3, <1>4, <1>5 DEF CallbacksInv

-----------------------------------------------------------------------------
(* Adding, removing and packaging                                          *)

\* add_callback puts the new callback behind every place that is counted.
LEMMA AddKeepsInv ==
  ASSUME CallbacksAssumption, CallbacksInv, add_callback
  PROVE  CallbacksInv'
<1> DEFINE c == [token |-> next_token, changes |-> FALSE, initial |-> FALSE]
           n == Len(callbacks)
<1>1. /\ next_token \in Tokens /\ next_token' = next_token + 1
      /\ callbacks' = Append(callbacks, c)
      /\ have' = (have \/ index = npos)
      /\ UNCHANGED <<index, count, pass, running, packagings, packaged, uncounted, called>>
  BY DEF add_callback, CallbacksInv, TypeOK, Tokens, CallbacksAssumption
<1>2. /\ TypeOK /\ callbacks \in Seq(Entries) /\ DOMAIN callbacks = 1 .. n /\ n \in Nat
      /\ next_token \in Nat
  BY <1>1, VectorTyped DEF CallbacksInv
<1>3. c \in Entries /\ c.token = next_token
  BY <1>1 DEF Entries
<1> HIDE DEF c
<1>4. /\ callbacks' \in Seq(Entries) /\ Len(callbacks') = n + 1
      /\ DOMAIN callbacks' = 1 .. n + 1 /\ callbacks' # <<>>
      /\ callbacks'[n + 1] = c /\ \A i \in 1 .. n : callbacks'[i] = callbacks[i]
  BY <1>1, <1>2, <1>3, AppendProperties
<1> HIDE DEF n
<1>5. TypeOK'
  <2>1. next_token' \in 1 .. MaxTokens + 1 /\ have' \in BOOLEAN
    BY <1>1, <1>2 DEF TypeOK, Tokens, CallbacksAssumption
  <2> QED BY <1>1, <1>2, <1>4, <2>1 DEF TypeOK, Entries
<1>6. Ascending'
  <2>1. Len(callbacks') + uncounted' < next_token'
    <3>1. n + uncounted < next_token /\ uncounted \in Nat
      BY <1>2, VectorTyped DEF CallbacksInv, Ascending, n
    <3> QED BY <1>1, <1>2, <1>4, <3>1
  <2>2. ASSUME NEW i \in DOMAIN callbacks' PROVE callbacks'[i].token < next_token'
    <3>1. CASE i = n + 1
      BY <1>1, <1>2, <1>3, <1>4, <3>1
    <3>2. CASE i \in 1 .. n
      <4>1. callbacks[i].token < next_token /\ callbacks[i].token \in Nat
        BY <1>2, <3>2, VectorTyped DEF CallbacksInv, Ascending, n
      <4> QED BY <1>1, <1>2, <1>4, <3>2, <4>1
    <3> QED BY <1>2, <1>4, <2>2, <3>1, <3>2
  <2>3. ASSUME NEW i \in DOMAIN callbacks', NEW j \in DOMAIN callbacks', i < j
        PROVE  callbacks'[i].token < callbacks'[j].token
    <3>1. i \in 1 .. n
      BY <1>2, <1>4, <2>3
    <3>2. CASE j = n + 1
      BY <1>2, <1>3, <1>4, <3>1, <3>2 DEF CallbacksInv, Ascending
    <3>3. CASE j \in 1 .. n
      BY <1>2, <1>4, <2>3, <3>1, <3>3 DEF CallbacksInv, Ascending
    <3> QED BY <1>2, <1>4, <3>2, <3>3
  <2> QED BY <2>1, <2>2, <2>3 DEF Ascending
<1>7. PlaceKept'
  <2>1. Passed' = Passed /\ Walking' = Walking /\ Passed \in Nat /\ Passed <= n
    BY <1>1, <1>2, VectorTyped DEF Passed, Walking, CallbacksInv, PlaceKept, n
  <2>2. running < next_token /\ running \in Nat
    BY <1>2, VectorTyped DEF TypeOK, CallbacksInv, PlaceKept
  <2>3. ASSUME Walking, NEW i \in DOMAIN callbacks'
        PROVE  i <= Passed <=> callbacks'[i].token <= running
    <3>1. CASE i = n + 1
      BY <1>1, <1>2, <1>3, <1>4, <2>1, <2>2, <3>1
    <3>2. CASE i \in 1 .. n
      BY <1>2, <1>4, <2>3, <3>2 DEF CallbacksInv, PlaceKept
    <3> QED BY <1>2, <1>4, <2>3, <3>1, <3>2
  <2> QED
    BY <1>1, <1>2, <1>4, <2>1, <2>2, <2>3 DEF CallbacksInv, PlaceKept
<1>8. PackagedBefore' /\ CalledInTurn' /\ HaveIsRight'
  <2>1. PackagedBefore'
    BY <1>1, <1>2, VectorTyped DEF CallbacksInv, PackagedBefore, TypeOK
  <2>2. CalledInTurn'
    BY <1>1 DEF CallbacksInv, CalledInTurn, Walking
  <2>3. HaveIsRight'
    <3>1. CASE callbacks = <<>>
      <4>1. index = npos
        BY <1>2, <3>1, VectorTyped DEF CallbacksInv, PlaceKept, Passed
      <4> QED BY <1>1, <1>4, <4>1 DEF HaveIsRight
    <3>2. CASE callbacks # <<>>
      BY <1>1, <1>4, <3>2 DEF CallbacksInv, HaveIsRight
    <3> QED BY <3>1, <3>2
  <2> QED BY <2>1, <2>2, <2>3
<1>9. Counted'
  <2> SUFFICES ASSUME pass \notin {"none", "overrun"}
               PROVE  /\ Packed <= n + 1
                      /\ \A i \in 1 .. n + 1 : callbacks'[i].token \in packaged <=> i <= Packed
                      /\ ~Wrapped => \A i \in DOMAIN called : called[i] \in packaged
                      /\ ~Wrapped /\ pass = "after" =>
                           \A i \in 1 .. n + 1 : i <= Passed /\ i <= count =>
                             callbacks'[i].initial /\ ~callbacks'[i].changes
    <3>1. Packed' = Packed /\ Wrapped' = Wrapped /\ Passed' = Passed
      BY <1>1 DEF Packed, Wrapped, Passed, npos
    <3> QED BY <1>1, <1>4, <3>1 DEF Counted
  <2>1. /\ Packed <= n /\ Packed \in Int
        /\ \A i \in 1 .. n : callbacks[i].token \in packaged <=> i <= Packed
        /\ next_token \notin packaged
    BY <1>2, VectorTyped, SMTT(30) DEF CallbacksInv, Counted, PackagedBefore, Packed, n
  <2>2. ASSUME NEW i \in 1 .. n + 1 PROVE callbacks'[i].token \in packaged <=> i <= Packed
    <3>1. CASE i = n + 1
      BY <1>2, <1>3, <1>4, <2>1, <3>1
    <3>2. CASE i \in 1 .. n
      BY <1>4, <2>1, <3>2
    <3> QED BY <1>2, <2>2, <3>1, <3>2
  <2>3. ASSUME ~Wrapped, pass = "after", NEW i \in 1 .. n + 1, i <= Passed, i <= count
        PROVE  callbacks'[i].initial /\ ~callbacks'[i].changes
    <3>1. Passed <= n /\ Passed \in Nat
      BY <1>2, VectorTyped DEF CallbacksInv, PlaceKept, Passed, n
    <3>2. i \in 1 .. n
      BY <1>2, <2>3, <3>1
    <3> QED BY <1>2, <1>4, <2>3, <3>2 DEF CallbacksInv, Counted
  <2>4. Packed <= n + 1
    BY <1>2, <2>1
  <2> QED BY <2>2, <2>3, <2>4 DEF CallbacksInv, Counted
<1> QED BY <1>5, <1>6, <1>7, <1>8, <1>9 DEF CallbacksInv

\* The vector without its i-th entry, and where its entries were before.
From(i, k) == IF k < i THEN k ELSE k + 1

\* remove_callback, with a walk under way or not, moves the places with the entries.
LEMMA RemoveKeepsInv ==
  ASSUME CallbacksAssumption, CallbacksInv, NEW token \in Tokens, remove_callback(token)
  PROVE  CallbacksInv'
<1> DEFINE n == Len(callbacks)
<1>0. /\ pass # "overrun"
      /\ uncounted' = IF pass # "none" /\ token \notin packaged THEN uncounted + 1 ELSE uncounted
  BY DEF remove_callback
<1>1. PICK i \in DOMAIN callbacks :
        /\ callbacks[i].token = token
        /\ callbacks' = RemoveAt(callbacks, i)
        /\ index' = ShiftedIndex(i)
        /\ count' = DecrementedCount(i)
        /\ have' = (Len(callbacks) > 1)
        /\ UNCHANGED <<next_token, pass, running, packagings, packaged, called>>
  BY DEF remove_callback
<1>2. /\ TypeOK /\ callbacks \in Seq(Entries) /\ DOMAIN callbacks = 1 .. n /\ n \in Nat
      /\ i \in 1 .. n /\ npos \in Nat /\ index \in 0 .. npos /\ count \in 0 .. npos
      /\ \A k \in 1 .. n : callbacks[k].token \in Nat
  BY <1>1, VectorTyped DEF CallbacksInv, TypeOK
<1>3. /\ callbacks' \in Seq(Entries) /\ Len(callbacks') = n - 1
      /\ DOMAIN callbacks' = 1 .. n - 1
      /\ \A k \in 1 .. n - 1 : callbacks'[k] = callbacks[From(i, k)]
  <2>1. /\ callbacks' \in Seq(Entries) /\ Len(callbacks') = n - 1
        /\ \A k \in 1 .. n - 1 :
             callbacks'[k] = IF k < i THEN callbacks[k] ELSE callbacks[k + 1]
    BY <1>1, <1>2, RemoveAtProperties
  <2> QED BY <1>2, <2>1 DEF From
<1>4. /\ Passed \in Nat /\ Passed <= n
      /\ Passed' = IF Passed >= i THEN Passed - 1 ELSE Passed
      /\ index' \in 0 .. npos
  <2>1. index' = IF index # npos /\ index >= i - 1
                 THEN IF index = 0 THEN npos ELSE index - 1
                 ELSE index
    BY <1>1, <1>2, CountersUnwrapped
  <2>2. Passed <= n
    BY DEF CallbacksInv, PlaceKept
  <2>3. npos' = npos
    BY DEF npos
  <2> QED BY <1>2, <2>1, <2>2, <2>3 DEF Passed
<1>5. count' = (IF count = 0 THEN npos ELSE count - 1) /\ count' \in 0 .. npos
  <2>1. count' = IF count = 0 THEN npos ELSE count - 1
    BY <1>1, <1>2, CountersUnwrapped
  <2> QED BY <1>2, <2>1
<1> HIDE DEF n
<1>6. \A k \in 1 .. n - 1 :
        /\ From(i, k) \in 1 .. n
        /\ k <= Passed' <=> From(i, k) <= Passed
        /\ count >= i => (k <= count - 1 <=> From(i, k) <= count)
  BY <1>2, <1>4 DEF From
<1>7. \A j, k \in 1 .. n - 1 : j < k => From(i, j) < From(i, k)
  BY <1>2 DEF From
<1>8. TypeOK'
  <2>1. have' \in BOOLEAN
    BY <1>1
  <2>2. uncounted' \in 0 .. MaxTokens
    <3>1. /\ n + uncounted < next_token /\ next_token \in 1 .. MaxTokens + 1
          /\ uncounted \in 0 .. MaxTokens /\ MaxTokens \in Nat
      BY <1>2 DEF CallbacksInv, Ascending, TypeOK, CallbacksAssumption, n
    <3> QED BY <1>0, <1>2, <3>1
  <2> QED BY <1>1, <1>2, <1>3, <1>4, <1>5, <2>1, <2>2 DEF TypeOK, Entries, npos
<1>9. Ascending'
  <2>1. /\ n + uncounted < next_token /\ next_token \in Nat /\ uncounted \in Nat
        /\ \A k \in 1 .. n : callbacks[k].token < next_token
        /\ \A j, k \in 1 .. n : j < k => callbacks[j].token < callbacks[k].token
    <3>1. next_token \in Nat /\ uncounted \in Nat
      BY <1>2 DEF TypeOK, CallbacksAssumption
    <3>2. Len(callbacks) + uncounted < next_token
      BY DEF CallbacksInv, Ascending
    <3> QED BY <1>2, <3>1, <3>2 DEF CallbacksInv, Ascending, n
  <2>2. (n - 1) + uncounted' < next_token
    BY <1>0, <1>2, <2>1
  <2>3. next_token' = next_token
    BY <1>1
  <2>4. ASSUME NEW k \in 1 .. n - 1 PROVE callbacks'[k].token < next_token
    BY <1>3, <1>6, <2>1
  <2>5. ASSUME NEW j \in 1 .. n - 1, NEW k \in 1 .. n - 1, j < k
        PROVE  callbacks'[j].token < callbacks'[k].token
    BY <1>3, <1>6, <1>7, <2>1, <2>5
  <2> QED BY <1>3, <2>2, <2>3, <2>4, <2>5 DEF Ascending
<1>10. PlaceKept'
  <2>1. Walking' = Walking
    BY <1>1 DEF Walking
  <2>2. ~Walking => index' = npos
    <3>1. ~Walking => index = npos
      BY DEF CallbacksInv, PlaceKept
    <3> QED BY <1>1, <3>1 DEF ShiftedIndex
  <2>3. Passed' <= Len(callbacks')
    BY <1>2, <1>3, <1>4
  <2>4. Walking => \A k \in 1 .. n : k <= Passed <=> callbacks[k].token <= running
    BY <1>2 DEF CallbacksInv, PlaceKept
  <2>5. Walking => \A k \in 1 .. n - 1 : k <= Passed' <=> callbacks'[k].token <= running
    BY <1>3, <1>6, <2>4
  <2> QED
    BY <1>1, <1>3, <2>1, <2>2, <2>3, <2>5 DEF CallbacksInv, PlaceKept, npos
<1>11. PackagedBefore' /\ CalledInTurn'
  BY <1>1 DEF CallbacksInv, PackagedBefore, CalledInTurn, Walking
<1>12. HaveIsRight'
  <2>1. callbacks' = <<>> <=> n - 1 = 0
    BY <1>2, <1>3
  <2>2. n > 1 <=> callbacks' # <<>>
    BY <1>2, <2>1
  <2> QED BY <1>1, <2>2 DEF HaveIsRight, n
<1>13. Counted'
  <2> SUFFICES ASSUME pass \notin {"none", "overrun"}
               PROVE  /\ Packed' <= n - 1
                      /\ \A k \in 1 .. n - 1 : callbacks'[k].token \in packaged <=> k <= Packed'
                      /\ ~Wrapped' => \A k \in DOMAIN called : called[k] \in packaged
                      /\ ~Wrapped' /\ pass = "after" =>
                           \A k \in 1 .. n - 1 : k <= Passed' /\ k <= count' =>
                             callbacks'[k].initial /\ ~callbacks'[k].changes
    BY <1>1, <1>3 DEF Counted
  <2>1. /\ Packed <= n /\ \A k \in 1 .. n : callbacks[k].token \in packaged <=> k <= Packed
        /\ uncounted \in Nat /\ uncounted < SizeT /\ SizeT \in Nat /\ npos = SizeT - 1
        /\ uncounted' \in Nat /\ count \in Nat
    BY <1>0, <1>2, VectorTyped, SMTT(30) DEF CallbacksInv, Counted, npos, n
  <2>2. token \in packaged <=> i <= Packed
    BY <1>1, <1>2, <2>1
  <2>3. uncounted' = IF i <= Packed THEN uncounted ELSE uncounted + 1
    BY <1>0, <2>2
  <2>4. /\ Packed' = (IF i <= Packed THEN Packed - 1 ELSE Packed)
        /\ ~Wrapped' => ~Wrapped /\ (i > Packed => count > 0)
        /\ Packed \in Nat
    BY <1>2, <1>5, <2>1, <2>3 DEF Packed, Wrapped
  <2>5. Packed' <= n - 1
    BY <1>2, <2>1, <2>4
  <2>6. ASSUME NEW k \in 1 .. n - 1 PROVE callbacks'[k].token \in packaged <=> k <= Packed'
    <3>1. callbacks'[k].token \in packaged <=> From(i, k) <= Packed
      BY <1>3, <1>6, <2>1
    <3>2. From(i, k) <= Packed <=> k <= Packed'
      BY <1>2, <2>4 DEF From
    <3> QED BY <3>1, <3>2
  <2>7. ~Wrapped' => \A k \in DOMAIN called : called[k] \in packaged
    BY <2>4 DEF CallbacksInv, Counted
  <2>8. ASSUME ~Wrapped', pass = "after", NEW k \in 1 .. n - 1, k <= Passed', k <= count'
        PROVE  callbacks'[k].initial /\ ~callbacks'[k].changes
    <3>1. ~Wrapped /\ count' = count - 1
      <4>1. i <= Packed /\ ~Wrapped' => count > 0
        BY <1>2, <1>5, <2>1, <2>3 DEF Packed, Wrapped
      <4> QED BY <1>2, <1>5, <2>1, <2>4, <2>8, <4>1
    <3>2. From(i, k) \in 1 .. n /\ From(i, k) <= Passed /\ From(i, k) <= count
      BY <1>2, <1>6, <2>1, <2>8, <3>1 DEF From
    <3>3. callbacks[From(i, k)].initial /\ ~callbacks[From(i, k)].changes
      BY <1>2, <2>8, <3>1, <3>2 DEF CallbacksInv, Counted
    <3> QED BY <1>3, <3>3
  <2> QED BY <2>5, <2>6, <2>7, <2>8
<1> QED BY <1>8, <1>9, <1>10, <1>11, <1>12, <1>13 DEF CallbacksInv

\* package_for_delivery counts the callbacks there are.
LEMMA PackageKeepsInv ==
  ASSUME CallbacksAssumption, CallbacksInv, package_for_delivery
  PROVE  CallbacksInv'
<1> DEFINE n == Len(callbacks)
<1>1. /\ pass = "none" /\ packagings' = packagings + 1 /\ packagings < MaxPackages
      /\ count' = n /\ packaged' = Present /\ uncounted' = 0 /\ pass' = "packaged"
      /\ UNCHANGED <<index, have, next_token, running, called>>
  BY DEF package_for_delivery
<1>2. PICK changed \in SUBSET Present :
        callbacks' = [i \in DOMAIN callbacks |->
                        [callbacks[i] EXCEPT !.changes = callbacks[i].token \in changed]]
  BY DEF package_for_delivery
<1>3. /\ TypeOK /\ callbacks \in Seq(Entries) /\ DOMAIN callbacks = 1 .. n /\ n \in Nat
      /\ \A i \in 1 .. n : callbacks[i] \in Entries /\ callbacks[i].token \in Tokens
      /\ MaxTokens < npos /\ npos \in Nat /\ MaxTokens \in Nat /\ MaxPackages \in Nat
  BY VectorTyped DEF CallbacksInv, CallbacksAssumption
<1>4. \A i \in 1 .. n :
        callbacks'[i] \in Entries /\ callbacks'[i].token = callbacks[i].token
  <2> SUFFICES ASSUME NEW i \in 1 .. n
               PROVE  callbacks'[i] \in Entries /\ callbacks'[i].token = callbacks[i].token
    OBVIOUS
  <2> DEFINE b == callbacks[i].token \in changed
  <2>1. callbacks'[i] = [callbacks[i] EXCEPT !.changes = b]
    BY <1>2, <1>3
  <2>2. b \in BOOLEAN /\ callbacks[i] \in Entries
    BY <1>3
  <2> HIDE DEF b
  <2> QED BY <2>1, <2>2 DEF Entries
<1>5. callbacks' \in Seq(Entries) /\ Len(callbacks') = n /\ DOMAIN callbacks' = 1 .. n
  <2> HIDE DEF n
  <2>1. DOMAIN callbacks' = 1 .. n /\ callbacks' = [i \in 1 .. n |-> callbacks'[i]]
    BY <1>2, <1>3
  <2>2. callbacks' \in [1 .. n -> Entries]
    BY <1>4, <2>1
  <2> QED BY <1>3, <2>1, <2>2
<1>6. n < next_token /\ next_token \in 1 .. MaxTokens + 1
  <2>1. uncounted \in Nat /\ next_token \in 1 .. MaxTokens + 1 /\ n + uncounted < next_token
    BY <1>3, VectorTyped DEF CallbacksInv, Ascending, TypeOK
  <2> QED BY <1>3, <2>1
<1> HIDE DEF n
<1>7. Present \subseteq Tokens /\ \A i \in 1 .. n : callbacks[i].token \in Present
  BY <1>3 DEF Present
<1>8. TypeOK'
  <2>1. count' \in 0 .. npos /\ packagings' \in 0 .. MaxPackages
    BY <1>1, <1>3, <1>6 DEF TypeOK
  <2> QED BY <1>1, <1>3, <1>5, <1>7, <2>1 DEF TypeOK, Entries, npos
<1>9. Ascending'
  BY <1>1, <1>3, <1>4, <1>5, <1>6 DEF CallbacksInv, Ascending, n
<1>10. ~Walking /\ ~Walking' /\ Passed' = Passed
  BY <1>1 DEF Walking, Passed
<1>11. PlaceKept'
  BY <1>1, <1>5, <1>10 DEF CallbacksInv, PlaceKept, npos, n
<1>12. PackagedBefore' /\ CalledInTurn'
  BY <1>1, <1>10 DEF CallbacksInv, PackagedBefore, CalledInTurn, Present, Ascending
<1>13. HaveIsRight'
  <2>1. callbacks' = <<>> <=> callbacks = <<>>
    BY <1>3, <1>5 DEF n
  <2> QED BY <1>1, <2>1 DEF CallbacksInv, HaveIsRight
<1>14. Counted'
  <2>1. called' = <<>>
    BY <1>1, <1>10 DEF CallbacksInv, CalledInTurn
  <2>2. \A i \in 1 .. n : callbacks'[i].token \in packaged'
    BY <1>1, <1>4, <1>7
  <2>3. Packed' = n
    <3>1. count' = n /\ uncounted' = 0 /\ n \in Nat /\ n < SizeT /\ SizeT \in Nat
      BY <1>1, <1>3, <1>6 DEF CallbacksAssumption
    <3> QED BY <3>1 DEF Packed, Wrapped
  <2> QED BY <1>1, <1>3, <1>5, <2>1, <2>2, <2>3 DEF Counted
<1> QED BY <1>8, <1>9, <1>11, <1>12, <1>13, <1>14 DEF CallbacksInv

-----------------------------------------------------------------------------
(* for_each_callback                                                       *)

\* Whoever the last walk has got past, or passes over, has nothing to be told.
LEMMA PassedOver ==
  ASSUME CallbacksAssumption, CallbacksInv, ~Wrapped,
         pass \notin {"none", "overrun"}, Walking => pass = "after",
         NEW m \in Nat,
         \A j \in Pending("after", Passed) : m <= j,
         NEW i \in DOMAIN callbacks, i <= m, i <= count
  PROVE  callbacks[i].initial /\ ~callbacks[i].changes
<1>1. /\ TypeOK /\ DOMAIN callbacks = 1 .. Len(callbacks) /\ Len(callbacks) \in Nat
      /\ count \in Nat /\ index \in Nat /\ callbacks[i] \in Entries
  BY VectorTyped DEF CallbacksInv
<1>2. Passed \in Nat
  BY <1>1 DEF Passed
<1>3. CASE i <= Passed
  <2>1. Walking
    <3>1. ~Walking => Passed = 0
      BY DEF CallbacksInv, PlaceKept, Passed
    <3> QED BY <1>1, <1>3, <3>1
  <2>2. i <= Passed /\ i <= count /\ pass = "after"
    BY <1>3, <2>1
  <2> QED BY <2>2 DEF CallbacksInv, Counted
<1>4. CASE i > Passed
  <2>1. /\ i - 1 \in Passed .. Len(callbacks) - 1 /\ i - 1 < count /\ (i - 1) + 1 = i
        /\ ~(m <= i - 1)
    BY <1>1, <1>2, <1>4
  <2>2. i - 1 \notin Pending("after", Passed)
    BY <2>1
  <2>3. ~Wants("after", callbacks[i])
    BY <2>1, <2>2 DEF Pending
  <2>4. callbacks[i].initial \in BOOLEAN /\ callbacks[i].changes \in BOOLEAN
    BY <1>1 DEF Entries
  <2> QED BY <2>3, <2>4 DEF Wants
<1> QED BY <1>1, <1>2, <1>3, <1>4

\* A walk of one kind that goes on, or begins.
InWalk(kind, end) ==
  /\ \/ kind = "before" /\ end = "between"
     \/ kind = "after" /\ end = "none"
  /\ pass \notin {"none", "overrun"} /\ (Walking => pass = kind)
  /\ Walk(kind, Passed, end)
  /\ UNCHANGED <<count, have, next_token, packagings>>

\* The next callback is called.
LEMMA CallKeepsInv ==
  ASSUME CallbacksAssumption, CallbacksInv, NEW kind, NEW end, InWalk(kind, end),
         NEW k \in Pending(kind, Passed), \A j \in Pending(kind, Passed) : k <= j,
         index' = k, running' = callbacks[k + 1].token,
         called' = Append(called, callbacks[k + 1].token),
         callbacks' = IF kind = "after"
                      THEN [callbacks EXCEPT ![k + 1].initial = TRUE,
                                             ![k + 1].changes = FALSE]
                      ELSE callbacks,
         pass' = kind, UNCHANGED <<packaged, uncounted>>
  PROVE  CallbacksInv'
<1> DEFINE n == Len(callbacks)
           c == callbacks[k + 1]
           m == Len(called)
<1>1. /\ TypeOK /\ callbacks \in Seq(Entries) /\ DOMAIN callbacks = 1 .. n /\ n \in Nat
      /\ \A i \in 1 .. n : callbacks[i] \in Entries /\ callbacks[i].token \in Nat \ {0}
      /\ npos \in Nat /\ MaxTokens < npos /\ MaxTokens \in Nat
      /\ count \in Nat /\ index \in Nat /\ Passed \in Nat
      /\ called \in Seq(Tokens) /\ m \in Nat /\ DOMAIN called = 1 .. m
      /\ Tokens \subseteq Nat
  BY VectorTyped DEF CallbacksInv, Passed, CallbacksAssumption
<1>2. k \in Nat /\ k >= Passed /\ k + 1 \in 1 .. n /\ k + 1 <= count
  BY <1>1 DEF Pending
<1>3. c \in Entries /\ c.token \in Tokens
  BY <1>1, <1>2 DEF Entries
<1>4. /\ callbacks' \in Seq(Entries) /\ Len(callbacks') = n /\ DOMAIN callbacks' = 1 .. n
      /\ \A i \in 1 .. n : callbacks'[i].token = callbacks[i].token
      /\ \A i \in 1 .. n : i # k + 1 => callbacks'[i] = callbacks[i]
      /\ kind = "after" => callbacks'[k + 1].initial /\ ~callbacks'[k + 1].changes
  <2>1. CASE kind # "after"
    BY <1>1, <2>1
  <2>2. CASE kind = "after"
    <3> DEFINE d == [c EXCEPT !.initial = TRUE]
               e == [d EXCEPT !.changes = FALSE]
               half == [callbacks EXCEPT ![k + 1] = d]
    <3>1. d \in Entries /\ d.token = c.token /\ d.initial
      BY <1>3 DEF Entries
    <3>2. e \in Entries /\ e.token = c.token /\ e.initial /\ ~e.changes
      <4> HIDE DEF d
      <4> QED BY <3>1 DEF Entries
    <3>3. half[k + 1] = d /\ half \in Seq(Entries) /\ Len(half) = n /\ DOMAIN half = 1 .. n
          /\ \A i \in 1 .. n : i # k + 1 => half[i] = callbacks[i]
      <4> HIDE DEF d
      <4> QED BY <1>1, <1>2, <3>1
    <3>4. callbacks' = [half EXCEPT ![k + 1] = e]
      <4>1. callbacks' = [half EXCEPT ![k + 1] = [half[k + 1] EXCEPT !.changes = FALSE]]
        BY <2>2
      <4> QED BY <3>3, <4>1
    <3> HIDE DEF half, e
    <3>5. /\ callbacks' \in Seq(Entries) /\ Len(callbacks') = n /\ DOMAIN callbacks' = 1 .. n
          /\ callbacks'[k + 1] = e
          /\ \A i \in 1 .. n : i # k + 1 => callbacks'[i] = half[i]
      BY <1>1, <1>2, <3>2, <3>3, <3>4
    <3>6. \A i \in 1 .. n : i # k + 1 => callbacks'[i] = callbacks[i]
      BY <3>3, <3>5
    <3> QED BY <3>2, <3>5, <3>6
  <2> QED BY <2>1, <2>2
<1>5. /\ n + uncounted < next_token /\ next_token \in 1 .. MaxTokens + 1 /\ uncounted \in Nat
      /\ \A i \in 1 .. n : callbacks[i].token < next_token
      /\ \A i, j \in 1 .. n : i < j => callbacks[i].token < callbacks[j].token
  <2>1. next_token \in 1 .. MaxTokens + 1 /\ uncounted \in Nat
    BY <1>1, VectorTyped DEF TypeOK
  <2> QED BY <1>1, <2>1 DEF CallbacksInv, Ascending
<1>6. k < npos /\ npos' = npos /\ Passed' = k + 1
  <2>1. k < npos
    BY <1>1, <1>2, <1>5
  <2>2. npos' = npos
    BY DEF npos
  <2> QED BY <1>1, <1>2, <2>1, <2>2 DEF Passed
<1>7. /\ Walking' /\ kind \in {"before", "after"} /\ pass \notin {"none", "overrun"}
      /\ (Walking => pass = kind) /\ UNCHANGED <<count, have, next_token, packagings>>
  BY DEF InWalk, Walking
<1>8. /\ called' \in Seq(Tokens) /\ Len(called') = m + 1 /\ DOMAIN called' = 1 .. m + 1
      /\ called'[m + 1] = c.token /\ \A i \in 1 .. m : called'[i] = called[i]
  <2> HIDE DEF c
  <2> QED BY <1>1, <1>3, AppendProperties DEF c
<1> HIDE DEF n, m, c
<1>9. TypeOK'
  <2>1. index' \in 0 .. npos /\ running' \in Tokens
    BY <1>1, <1>2, <1>3, <1>6 DEF c
  <2> QED BY <1>1, <1>4, <1>6, <1>7, <1>8, <2>1 DEF TypeOK, Entries
<1>10. Ascending'
  BY <1>4, <1>5, <1>7 DEF Ascending
<1>11. PlaceKept'
  <2>1. running' # 0 /\ running' < next_token'
    BY <1>1, <1>2, <1>5, <1>7
  <2>2. Passed' <= Len(callbacks')
    BY <1>1, <1>2, <1>4, <1>6
  <2>3. ASSUME NEW i \in 1 .. n PROVE i <= k + 1 <=> callbacks'[i].token <= running'
    <3>1. CASE i = k + 1
      BY <1>1, <1>2, <1>4, <3>1
    <3>4. /\ k + 1 \in 1 .. n /\ running' = callbacks[k + 1].token
          /\ callbacks'[i].token = callbacks[i].token
          /\ callbacks[i].token \in Nat /\ callbacks[k + 1].token \in Nat
      BY <1>1, <1>2, <1>4
    <3>2. CASE i < k + 1
      <4>1. callbacks[i].token < callbacks[k + 1].token
        BY <1>5, <3>2, <3>4
      <4> QED BY <3>2, <3>4, <4>1
    <3>3. CASE i > k + 1
      <4>1. callbacks[k + 1].token < callbacks[i].token
        BY <1>5, <3>3, <3>4
      <4> QED BY <1>2, <3>3, <3>4, <4>1
    <3> QED BY <1>2, <3>1, <3>2, <3>3
  <2> QED BY <1>4, <1>6, <1>7, <2>1, <2>2, <2>3 DEF PlaceKept
<1>12. PackagedBefore'
  BY <1>7 DEF CallbacksInv, PackagedBefore
<1>13. CalledInTurn'
  <2>1. ASSUME NEW i \in 1 .. m PROVE called[i] < c.token /\ called[i] \in Nat
    <3>1. called # <<>>
      BY <1>1, <2>1 DEF m
    <3>2. Walking
      BY <3>1 DEF CallbacksInv, CalledInTurn
    <3>3. called[i] <= running /\ called[i] \in Nat
      BY <1>1, <2>1 DEF CallbacksInv, CalledInTurn
    <3>4. ~(c.token <= running)
      <4>1. ~(k + 1 <= Passed)
        BY <1>1, <1>2
      <4> QED BY <1>1, <1>2, <3>2, <4>1 DEF CallbacksInv, PlaceKept, c
    <3>5. running \in Nat /\ c.token \in Nat
      <4>1. running \in Tokens \cup {0} /\ Tokens \subseteq Nat
        BY <1>1 DEF TypeOK
      <4> QED BY <1>3, <4>1
    <3> QED BY <3>3, <3>4, <3>5
  <2>2. c.token \in Nat /\ running' = c.token
    BY <1>1, <1>3 DEF c
  <2>3. ASSUME NEW i \in 1 .. m + 1 PROVE called'[i] <= running'
    <3>1. CASE i = m + 1
      BY <1>8, <2>2, <3>1
    <3>2. CASE i \in 1 .. m
      BY <1>8, <2>1, <2>2, <3>2
    <3> QED BY <1>1, <2>3, <3>1, <3>2
  <2>4. ASSUME NEW i \in 1 .. m + 1, NEW j \in 1 .. m + 1, i < j
        PROVE  called'[i] < called'[j]
    <3>1. i \in 1 .. m
      BY <1>1, <2>4
    <3>2. CASE j = m + 1
      BY <1>8, <2>1, <3>1, <3>2
    <3>3. CASE j \in 1 .. m
      BY <1>1, <1>8, <2>4, <3>1, <3>3 DEF CallbacksInv, CalledInTurn
    <3>4. j = m + 1 \/ j \in 1 .. m
      <4>1. m \in Nat
        BY <1>1
      <4> QED BY <4>1
    <3> QED BY <3>2, <3>3, <3>4
  <2> QED BY <1>7, <1>8, <2>3, <2>4 DEF CalledInTurn
<1>14. HaveIsRight'
  <2>1. callbacks' # <<>> /\ callbacks # <<>>
    BY <1>1, <1>2, <1>4 DEF n
  <2> QED BY <1>7, <2>1 DEF CallbacksInv, HaveIsRight
<1>15. Counted'
  <2> SUFFICES /\ Packed <= n
               /\ \A i \in 1 .. n : callbacks'[i].token \in packaged <=> i <= Packed
               /\ ~Wrapped => \A i \in 1 .. m + 1 : called'[i] \in packaged
               /\ ~Wrapped /\ kind = "after" =>
                    \A i \in 1 .. n : i <= k + 1 /\ i <= count =>
                      callbacks'[i].initial /\ ~callbacks'[i].changes
    <3>1. Packed' = Packed /\ Wrapped' = Wrapped
      BY <1>7 DEF Packed, Wrapped
    <3>2. UNCHANGED <<packaged, count>> /\ pass' = kind
      BY <1>7
    <3> QED BY <1>4, <1>6, <1>8, <3>1, <3>2 DEF Counted
  <2>1. /\ Packed <= n
        /\ \A i \in 1 .. n : callbacks[i].token \in packaged <=> i <= Packed
    BY <1>1, <1>7 DEF CallbacksInv, Counted, n
  <2>2. ~Wrapped => k + 1 <= Packed
    <3>1. uncounted \in Nat /\ count \in Nat
      BY <1>5, <1>1
    <3> QED BY <1>2, <3>1 DEF Packed
  <2>3. ASSUME ~Wrapped, NEW i \in 1 .. m + 1 PROVE called'[i] \in packaged
    <3>1. CASE i = m + 1
      BY <1>2, <1>8, <2>1, <2>2, <2>3, <3>1 DEF c
    <3>2. CASE i \in 1 .. m
      BY <1>1, <1>7, <1>8, <2>3, <3>2 DEF CallbacksInv, Counted
    <3> QED BY <1>1, <2>3, <3>1, <3>2
  <2>4. ASSUME ~Wrapped, kind = "after", NEW i \in 1 .. n, i <= k + 1, i <= count
        PROVE  callbacks'[i].initial /\ ~callbacks'[i].changes
    <3>1. CASE i = k + 1
      BY <1>4, <2>4, <3>1
    <3>2. CASE i # k + 1
      <4>1. i <= k
        BY <1>2, <2>4, <3>2
      <4>2. callbacks[i].initial /\ ~callbacks[i].changes
        BY <1>1, <1>2, <1>7, <2>4, <4>1, PassedOver
      <4> QED BY <1>4, <3>2, <4>2
    <3> QED BY <3>1, <3>2
  <2>5. \A i \in 1 .. n : callbacks'[i].token \in packaged <=> i <= Packed
    BY <1>4, <2>1
  <2> QED BY <2>1, <2>3, <2>4, <2>5
<1> QED
  BY <1>9, <1>10, <1>11, <1>12, <1>13, <1>14, <1>15 DEF CallbacksInv

\* The walk ends.
LEMMA EndKeepsInv ==
  ASSUME CallbacksAssumption, CallbacksInv, NEW kind, NEW end, InWalk(kind, end),
         index' = npos, running' = 0, called' = <<>>,
         pass' = (IF count <= Len(callbacks) THEN end ELSE "overrun"),
         packaged' = (IF end = "none" THEN {} ELSE packaged),
         uncounted' = (IF end = "none" THEN 0 ELSE uncounted), UNCHANGED callbacks
  PROVE  CallbacksInv'
<1>1. /\ end \in {"between", "none"} /\ pass' \in {"between", "none", "overrun"}
      /\ pass \notin {"none", "overrun"} /\ (pass' = "between" => end = "between")
      /\ UNCHANGED <<count, have, next_token, packagings>>
  BY DEF InWalk
<1>2. ~Walking' /\ npos' = npos /\ Passed' = 0 /\ npos \in Nat
  BY <1>1, VectorTyped DEF Walking, npos, Passed, CallbacksInv
<1>3. /\ TypeOK /\ Len(callbacks) \in Nat /\ packaged' \subseteq packaged
      /\ next_token \in Nat \ {0} /\ MaxTokens \in Nat
      /\ uncounted \in 0 .. MaxTokens /\ uncounted' \in 0 .. MaxTokens /\ uncounted' <= uncounted
  BY VectorTyped DEF CallbacksInv, TypeOK, CallbacksAssumption
<1>4. TypeOK'
  <2>1. \A S : <<>> \in Seq(S)
    OBVIOUS
  <2>2. npos \in 0 .. npos
    BY <1>2
  <2> QED BY <1>1, <1>2, <1>3, <2>1, <2>2 DEF TypeOK
<1>5. Ascending' /\ PackagedBefore' /\ HaveIsRight'
  BY <1>1, <1>3 DEF CallbacksInv, Ascending, PackagedBefore, HaveIsRight
<1>6. PlaceKept' /\ CalledInTurn'
  BY <1>1, <1>2, <1>3 DEF PlaceKept, CalledInTurn
<1>7. Counted'
  <2> SUFFICES ASSUME pass' = "between" PROVE Counted'
    BY <1>1 DEF Counted
  <2>1. UNCHANGED <<packaged, uncounted, count, callbacks>>
    BY <1>1
  <2>2. Packed' = Packed /\ Wrapped' = Wrapped
    BY <2>1 DEF Packed, Wrapped
  <2>3. DOMAIN called' = {}
    OBVIOUS
  <2> QED BY <1>1, <2>1, <2>2, <2>3 DEF CallbacksInv, Counted
<1> QED BY <1>4, <1>5, <1>6, <1>7 DEF CallbacksInv

\* A step of a walk calls the next callback or ends the walk.
LEMMA WalkKeepsInv ==
  ASSUME CallbacksAssumption, CallbacksInv, NEW kind, NEW end, InWalk(kind, end)
  PROVE  CallbacksInv'
BY CallKeepsInv, EndKeepsInv DEF InWalk, Walk

\* The three actions of for_each_callback are steps of a walk.
LEMMA WalksAreWalks ==
  ASSUME CallbacksAssumption, CallbacksInv, before_advance \/ after_advance \/ Resume
  PROVE  InWalk("before", "between") \/ InWalk("after", "none")
<1>1. (index + 1) % SizeT = Passed
  BY CountersUnwrapped DEF CallbacksInv
<1>2. Walking <=> running # 0
  BY DEF CallbacksInv, PlaceKept
<1>3. CASE before_advance
  BY <1>1, <1>3 DEF before_advance, InWalk, Walking
<1>4. CASE after_advance
  BY <1>1, <1>4 DEF after_advance, InWalk, Walking
<1>5. CASE Resume
  <2>1. CASE pass = "before"
    BY <1>1, <1>5, <2>1 DEF Resume, InWalk
  <2>2. CASE pass = "after"
    BY <1>1, <1>5, <2>2 DEF Resume, InWalk
  <2> QED BY <1>2, <1>5, <2>1, <2>2 DEF Resume, Walking
<1> QED BY <1>3, <1>4, <1>5

-----------------------------------------------------------------------------
(* The theorems                                                            *)

\* Every step keeps the invariant.
LEMMA CallbacksInvStep ==
  ASSUME CallbacksAssumption, CallbacksInv, [Next]_vars
  PROVE  CallbacksInv'
<1>1. CASE Next
  <2>1. CASE before_advance \/ after_advance \/ Resume
    BY <2>1, WalksAreWalks, WalkKeepsInv
  <2> QED BY <1>1, <2>1, AddKeepsInv, RemoveKeepsInv, PackageKeepsInv DEF Next
<1>2. CASE UNCHANGED vars
  BY <1>2 DEF vars, CallbacksInv, TypeOK, Ascending, PlaceKept, PackagedBefore, CalledInTurn,
     Counted, Packed, Wrapped, HaveIsRight, Passed, Walking
<1> QED BY <1>1, <1>2

\* The inductive invariant holds throughout.
THEOREM CallbacksInvariant == CallbacksAssumption /\ Spec => []CallbacksInv
<1> SUFFICES ASSUME CallbacksAssumption PROVE Spec => []CallbacksInv
  OBVIOUS
<1> QED BY InitCallbacksInv, CallbacksInvStep, PTL DEF Spec

\* m_have_callbacks is right, whatever is added and removed when, newcomers included.
THEOREM HaveIsAlwaysRight == CallbacksAssumption /\ Spec => []HaveIsRight
<1>1. CallbacksInv => HaveIsRight
  BY DEF CallbacksInv
<1> QED BY <1>1, CallbacksInvariant, PTL

\* Whatever is removed in the pass, newcomers included: m_callback_count is the number
\* of packaged callbacks that are left, less the newcomers that were removed;
\* for_each_callback calls nobody twice, and nobody who was not packaged before that
\* count wraps around; and m_have_callbacks is right.
THEOREM WalkStaysInOrder == CallbacksAssumption /\ Spec => []WalkInOrder
<1> SUFFICES ASSUME CallbacksAssumption PROVE Spec => []WalkInOrder
  OBVIOUS
<1>1. ASSUME CallbacksInv PROVE WalkInOrder
  <2>1. /\ count \in Nat /\ uncounted \in Nat /\ SizeT \in Nat
        /\ count < SizeT /\ uncounted < SizeT
    BY <1>1, VectorTyped DEF CallbacksInv
  <2>2. (count + uncounted) % SizeT = Packed
    <3>1. count \in 0 .. SizeT - 1 /\ uncounted \in 0 .. SizeT - 1
      BY <2>1
    <3> QED BY <2>1, <3>1, SumWrapped DEF Packed, Wrapped
  <2>3. CountIsPackaged
    BY <1>1, <2>2 DEF CountIsPackaged, CallbacksInv, Counted
  <2>4. DOMAIN called = 1 .. Len(called) /\ Len(called) \in Nat
        /\ \A i \in DOMAIN called : called[i] \in Nat
    BY <1>1, VectorTyped DEF CallbacksInv
  <2>5. count + uncounted < SizeT => \A i \in DOMAIN called : called[i] \in packaged
    <3>1. CASE pass \in {"none", "overrun"}
      BY <1>1, <3>1 DEF CallbacksInv, CalledInTurn, Walking
    <3>2. CASE pass \notin {"none", "overrun"}
      BY <1>1, <2>1, <3>2 DEF CallbacksInv, Counted, Wrapped
    <3> QED BY <3>1, <3>2
  <2>6. ASSUME NEW i \in DOMAIN called, NEW j \in DOMAIN called, called[i] = called[j]
        PROVE  i = j
    <3>1. ~(i < j) /\ ~(j < i)
      BY <1>1, <2>4, <2>6 DEF CallbacksInv, CalledInTurn
    <3> QED BY <2>4, <3>1
  <2>7. CalledOnce
    BY <2>5, <2>6 DEF CalledOnce, IsInjective, ToSet
  <2> QED BY <1>1, <2>3, <2>7 DEF WalkInOrder, CallbacksInv
<1> QED BY <1>1, CallbacksInvariant, PTL

\* Every callback that was packaged and stayed has been told what there was to tell it
\* when after_advance ends, but for as many at the end as newcomers were removed.
THEOREM NobodyIsLeftOut == CallbacksAssumption /\ Spec => NobodyLeftOut
<1> SUFFICES ASSUME CallbacksAssumption PROVE Spec => NobodyLeftOut
  OBVIOUS
<1>1. ASSUME CallbacksInv, Next PROVE NobodyTurnedAway
  <2> SUFFICES ASSUME pass # "none", pass' = "none", NEW i \in DOMAIN callbacks,
                      i + uncounted \in DOMAIN callbacks,
                      callbacks[i + uncounted].token \in packaged
               PROVE  callbacks[i].initial /\ ~callbacks[i].changes
    BY DEF NobodyTurnedAway
  <2>1. before_advance \/ after_advance \/ Resume
    BY <1>1 DEF Next, add_callback, remove_callback, package_for_delivery
  <2>2. /\ InWalk("after", "none") /\ Pending("after", Passed) = {}
        /\ pass \notin {"none", "overrun"}
    <3>1. InWalk("before", "between") \/ InWalk("after", "none")
      BY <1>1, <2>1, WalksAreWalks
    <3> QED BY <3>1 DEF InWalk, Walk
  <2>3. i \in Nat /\ i >= 1 /\ i <= count /\ ~Wrapped
    <3>1. i + uncounted <= Packed
      BY <1>1, <2>2 DEF CallbacksInv, Counted
    <3>2. /\ i \in Nat /\ i >= 1 /\ count \in Nat /\ uncounted \in Nat
          /\ SizeT \in Nat /\ count < SizeT
      BY <1>1, VectorTyped DEF CallbacksInv
    <3> QED BY <3>1, <3>2 DEF Packed, Wrapped
  <2> QED BY <1>1, <2>2, <2>3, PassedOver DEF InWalk
<1>2. CallbacksInv /\ [Next]_vars => [NobodyTurnedAway]_vars
  BY <1>1
<1> QED BY <1>2, CallbacksInvariant, PTL DEF Spec, NobodyLeftOut
=============================================================================
