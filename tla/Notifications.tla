--------------------------- MODULE Notifications ---------------------------
(***************************************************************************)
(* Change notifications of one Realm: the target thread, which reads,      *)
(* writes and observes; the worker thread, which recomputes the observed   *)
(* collections after each commit; other writers.  A set of changes is      *)
(* modelled by the set of the versions whose changes it holds, so that     *)
(* what a callback is told can be compared with the version the Realm is   *)
(* at.  Every commit changes every observed collection.                    *)
(***************************************************************************)
EXTENDS Naturals, FiniteSets

CONSTANTS
  Uses,         \* the ways in which the Realm is used
  MaxAdds       \* bound: callbacks added

\* What a program may do besides observing, reading and writing: add a callback
\* to a notifier that has run without any; write, and add callbacks, in a
\* callback; ask a commit not to notify some callbacks; let the event loop run
\* while a write transaction is open.
Ways == {"reobserve", "nest", "suppress", "span"}

ASSUME NotificationsAssumption ==
  /\ \A u \in Uses : /\ IsFiniteSet(DOMAIN u.of)
                     /\ u.ways \subseteq Ways /\ u.versions \in Nat \ {0}
  /\ MaxAdds \in Nat

VARIABLES
  use,     \* the notifier each callback is for, the ways, and a bound: versions
  latest,  \* version of the latest snapshot
  realm,   \* version the target thread's Realm reads
  nt,      \* the notifiers
  cb,      \* the callbacks
  skip,    \* m_notifier_skip_version
  w,       \* the worker thread, in run_async_notifiers
  t,       \* the target thread
  wake,    \* the worker has been signalled
  posted,  \* notify() is scheduled on the target thread
  adds     \* callbacks added so far

vars == <<use, latest, realm, nt, cb, skip, w, t, wake, posted, adds>>

MaxVersion == use.versions
Versions == 1..MaxVersion
Of == use.of
Callbacks == DOMAIN Of                    \* callbacks that can be added
Notifiers == {Of[c] : c \in Callbacks}    \* one for each observed Results
May(way) == way \in use.ways
NoCall == "none"

\* a notifier that has not been created
NoNotifier ==
  [place |-> "none", alive |-> FALSE, version |-> 0, ran |-> FALSE, rows |-> 0,
   change |-> {}, run |-> FALSE, handover |-> FALSE, delivered |-> FALSE, used |-> TRUE]

\* told: the version the user has been told of; hush: versions asked not to be told
NoCallback ==
  [on |-> FALSE, acc |-> {}, give |-> {}, init |-> FALSE, skip |-> FALSE,
   told |-> 0, hush |-> {}]

Idle == [pc |-> "idle", version |-> 0, skip |-> 0, new |-> {}, old |-> {}, todo |-> {}]
Free == [pc |-> "idle", pkg |-> {}, target |-> 0, todo |-> {}, call |-> NoCall, ask |-> {}]

Init ==
  /\ use \in Uses
  /\ latest = 1 /\ realm = 1
  /\ nt = [n \in Notifiers |-> NoNotifier]
  /\ cb = [c \in Callbacks |-> NoCallback]
  /\ skip = 0
  /\ w = Idle /\ t = Free
  /\ wake = FALSE /\ posted = FALSE /\ adds = 0

have_callbacks(n) == \E c \in Callbacks : Of[c] = n /\ cb[c].on
On(ns) == {c \in Callbacks : cb[c].on /\ Of[c] \in ns}
notifiers_for_realm == {n \in Notifiers : nt[n].place \in {"new", "main"} /\ nt[n].alive}
Calling(n) == \E c \in Callbacks : t.call = c /\ Of[c] = n /\ cb[c].on
Main == {n \in Notifiers : nt[n].place = "main"}

-----------------------------------------------------------------------------
(* The worker                                                              *)

\* mutant: the version to skip goes although notifiers are left
SkipForgotten(left) == IF Main # {} THEN 0 ELSE skip

\* clean_up_dead_notifiers: with the last notifier goes the version to skip
CleanSkipVersion(left) == IF left = {} /\ Main # {} THEN 0 ELSE skip

Clean(f) == [n \in Notifiers |->
  IF f[n].place \in {"new", "main"} /\ ~f[n].alive
  THEN [f[n] EXCEPT !.place = "gone"] ELSE f[n]]

\* the first locked section
Collect ==
  LET clean == Clean(nt)
      new == {n \in Notifiers : clean[n].place = "new"}
      old == {n \in Notifiers : clean[n].place = "main"}
      skipped == CleanSkipVersion(old)
  IN
  /\ w.pc = "idle" /\ wake
  /\ wake' = FALSE
  /\ \/ /\ new \cup old = {}
        /\ nt' = clean /\ skip' = skipped
        /\ posted' = TRUE
        /\ w' = w
     \/ /\ new \cup old # {}
        /\ nt' = [n \in Notifiers |-> IF n \in new THEN [clean[n] EXCEPT !.place = "main"]
                                                   ELSE clean[n]]
        /\ w' = [pc |-> IF skipped # 0 THEN "skip" ELSE "run",
                 version |-> latest, skip |-> skipped, new |-> new, old |-> old,
                 todo |-> IF skipped # 0 THEN old ELSE new \cup old]
        /\ skip' = 0
        /\ UNCHANGED posted
  /\ UNCHANGED <<latest, realm, cb, t, adds>>

\* the version the notifiers are being advanced to
Towards == IF w.pc = "skip" THEN w.skip ELSE w.version

need_to_run(n) ==
  /\ nt[n].alive /\ (have_callbacks(n) \/ nt[n].used)
  /\ ~(nt[n].ran /\ nt[n].rows = Towards)

calculate_changes(n) ==
  IF nt[n].ran /\ have_callbacks(n) THEN (nt[n].rows + 1)..Towards ELSE {}

run(n) ==
  /\ w.pc \in {"skip", "run"} /\ n \in w.todo
  /\ nt' = IF need_to_run(n)
           THEN [nt EXCEPT ![n].change = calculate_changes(n), ![n].rows = Towards,
                           ![n].run = TRUE]
           ELSE nt
  /\ w' = [w EXCEPT !.todo = @ \ {n}]
  /\ UNCHANGED <<latest, realm, cb, skip, t, wake, posted, adds>>

\* mutant: the changes replace those not yet delivered
ReplaceChanges(ns) ==
  [c \in Callbacks |->
     IF ~cb[c].on \/ Of[c] \notin ns THEN cb[c]
     ELSE IF cb[c].skip THEN [cb[c] EXCEPT !.skip = FALSE]
     ELSE [cb[c] EXCEPT !.acc = nt[Of[c]].change]]

add_changes(ns) ==
  [c \in Callbacks |->
     IF ~cb[c].on \/ Of[c] \notin ns THEN cb[c]
     ELSE IF cb[c].skip THEN [cb[c] EXCEPT !.skip = FALSE]
     ELSE [cb[c] EXCEPT !.acc = @ \cup nt[Of[c]].change]]

prepare_handover(ns) ==
  [n \in Notifiers |->
     IF n \in ns THEN [nt[n] EXCEPT !.version = Towards, !.change = {}, !.ran = TRUE,
                                    !.handover = nt[n].run, !.run = FALSE]
     ELSE nt[n]]

SkipHandover ==
  /\ w.pc = "skip" /\ w.todo = {}
  /\ cb' = add_changes(w.old)
  /\ nt' = prepare_handover(w.old)
  /\ w' = [w EXCEPT !.pc = "run", !.todo = w.new \cup w.old]
  /\ UNCHANGED <<latest, realm, skip, t, wake, posted, adds>>

\* the last locked section; on_change then notifies the Realms
Handover ==
  /\ w.pc = "run" /\ w.todo = {}
  /\ cb' = add_changes(w.new \cup w.old)
  /\ nt' = Clean(prepare_handover(w.new \cup w.old))
  /\ skip' = CleanSkipVersion({n \in Main : nt[n].alive})
  /\ w' = Idle
  /\ posted' = TRUE
  /\ UNCHANGED <<latest, realm, t, wake, adds>>

Worker == Collect \/ (\E n \in Notifiers : run(n)) \/ SkipHandover \/ Handover

-----------------------------------------------------------------------------
(* The target thread: packages and delivery                                *)

\* prepare_to_deliver: a new collection replaces the one delivered before
Delivered(n) ==
  IF nt[n].handover
  THEN [nt[n] EXCEPT !.used = ~nt[n].delivered, !.delivered = TRUE, !.handover = FALSE]
  ELSE nt[n]

\* package_for_delivery, for the notifiers of ns
Package(ns) ==
  /\ nt' = [n \in Notifiers |-> IF n \in ns THEN Delivered(n) ELSE nt[n]]
  /\ cb' = [c \in Callbacks |->
       IF c \in On(ns) THEN [cb[c] EXCEPT !.give = cb[c].acc, !.acc = {}] ELSE cb[c]]

Packaged(pkg) == {n \in pkg : nt[n].ran /\ nt[n].alive}

\* mutant: waits for a version newer than the target
ReadyBeyond(pkg, target) ==
  \A n \in pkg : ~have_callbacks(n) \/ (nt[n].ran /\ nt[n].version > target)

\* wait_for_notifiers
Ready(pkg, target) ==
  \A n \in pkg : ~have_callbacks(n) \/ (nt[n].ran /\ nt[n].version >= target)

\* the version of a package, none if it has nothing for the target version
PackageVersions(ns, target) ==
  {nt[n].version : n \in {m \in ns : nt[m].version >= target}}

Deliver(pc, ns) == t' = [Free EXCEPT !.pc = pc, !.todo = On(ns)]

\* promote_to_write takes the write lock, then waits for the notifiers
begin_transaction ==
  /\ t.pc = "idle"
  /\ t' = [Free EXCEPT !.pc = "promote", !.pkg = notifiers_for_realm, !.target = latest]
  /\ UNCHANGED <<latest, realm, nt, cb, skip, w, wake, posted, adds>>

PromoteToWrite ==
  LET ns == Packaged(t.pkg) IN
  /\ t.pc = "promote" /\ Ready(t.pkg, t.target)
  /\ Package(ns)
  /\ realm' = latest
  /\ Deliver("begun", IF PackageVersions(ns, t.target) = {} THEN {} ELSE ns)
  /\ UNCHANGED <<latest, skip, w, wake, posted, adds>>

refresh ==
  /\ t.pc = "idle"
  /\ t' = [Free EXCEPT !.pc = "refresh", !.pkg = notifiers_for_realm, !.target = latest]
  /\ UNCHANGED <<latest, realm, nt, cb, skip, w, wake, posted, adds>>

advance_to_latest ==
  LET ns == Packaged(t.pkg)
      vs == PackageVersions(ns, t.target)
  IN
  /\ t.pc = "refresh" /\ Ready(t.pkg, t.target)
  /\ Package(ns)
  /\ realm' \in IF vs = {} THEN {latest} ELSE vs
  /\ Deliver("sending", IF vs = {} THEN {} ELSE ns)
  /\ UNCHANGED <<latest, skip, w, wake, posted, adds>>

\* notify(): nothing newer than what the Realm reads
process_available_async ==
  LET ns == {n \in Packaged(notifiers_for_realm) : nt[n].version = realm} IN
  /\ t.pc = "idle" /\ posted /\ realm = latest
  /\ posted' = FALSE
  /\ Package(ns)
  /\ Deliver("sending", ns)
  /\ UNCHANGED <<latest, realm, skip, w, wake, adds>>

\* notify(): advance to what the notifiers are ready for; a package for an older
\* version is discarded
advance_to_ready ==
  LET ns == Packaged(notifiers_for_realm) IN
  /\ t.pc = "idle" /\ posted /\ realm # latest
  /\ posted' = FALSE
  /\ Package(ns)
  /\ \/ /\ ns = {}
        /\ realm' = latest
        /\ UNCHANGED t
     \/ \E n \in ns :
          /\ nt[n].version < realm
          /\ UNCHANGED <<realm, t>>
     \/ \E n \in ns :
          /\ nt[n].version >= realm
          /\ realm' = nt[n].version
          /\ Deliver("sending", ns)
  /\ UNCHANGED <<latest, skip, w, wake, adds>>

\* after_advance, for one callback: skipped, or called
PassOver(c) ==
  /\ t.pc \in {"sending", "begun"} /\ t.call = NoCall /\ c \in t.todo
  /\ ~cb[c].on \/ (cb[c].init /\ cb[c].give = {})
  /\ t' = [t EXCEPT !.todo = @ \ {c}]
  /\ UNCHANGED <<latest, realm, nt, cb, skip, w, wake, posted, adds>>

Call(c) ==
  /\ t.pc \in {"sending", "begun"} /\ t.call = NoCall /\ c \in t.todo
  /\ cb[c].on /\ ~(cb[c].init /\ cb[c].give = {})
  /\ cb' = [cb EXCEPT ![c].init = TRUE, ![c].give = {}, ![c].told = realm]
  /\ t' = [t EXCEPT !.todo = @ \ {c}, !.call = c]
  /\ UNCHANGED <<latest, realm, nt, skip, w, wake, posted, adds>>

Return ==
  /\ t.call # NoCall
  /\ t' = [t EXCEPT !.call = NoCall]
  /\ UNCHANGED <<latest, realm, nt, cb, skip, w, wake, posted, adds>>

Sent ==
  /\ t.pc \in {"sending", "begun"} /\ t.call = NoCall /\ t.todo = {}
  /\ t' = [Free EXCEPT !.pc = IF t.pc = "begun" THEN "write" ELSE "idle"]
  /\ UNCHANGED <<latest, realm, nt, cb, skip, w, wake, posted, adds>>

\* notify() does nothing in a write transaction
NotifyInWrite ==
  /\ May("span")
  /\ t.pc = "write" /\ posted
  /\ posted' = FALSE
  /\ UNCHANGED <<latest, realm, nt, cb, skip, w, t, wake, adds>>

-----------------------------------------------------------------------------
(* The target thread: writes                                               *)

HaveNotifiers == \E n \in Main : nt[n].alive

\* commitWriteTransactionWithoutNotifying: suppress_next_notification, then commit
suppress_next_notification(c) ==
  /\ May("suppress")
  /\ t.pc = "write" /\ cb[c].on /\ c \notin t.ask
  /\ cb' = [cb EXCEPT ![c].skip = TRUE]
  /\ t' = [t EXCEPT !.ask = @ \cup {c}]
  /\ UNCHANGED <<latest, realm, nt, skip, w, wake, posted, adds>>

\* mutant: the worker is not signalled
CommitSilently ==
  /\ t.pc = "write" /\ latest < MaxVersion
  /\ latest' = latest + 1 /\ realm' = latest + 1
  /\ skip' = IF HaveNotifiers THEN latest + 1 ELSE skip
  /\ cb' = [c \in Callbacks |->
       IF c \in t.ask THEN [cb[c] EXCEPT !.hush = @ \cup {latest + 1}] ELSE cb[c]]
  /\ t' = Free
  /\ UNCHANGED <<nt, w, wake, posted, adds>>

commit_write ==
  /\ t.pc = "write" /\ latest < MaxVersion
  /\ latest' = latest + 1 /\ realm' = latest + 1
  /\ skip' = IF HaveNotifiers THEN latest + 1 ELSE skip
  /\ cb' = [c \in Callbacks |->
       IF c \in t.ask THEN [cb[c] EXCEPT !.hush = @ \cup {latest + 1}] ELSE cb[c]]
  /\ wake' = TRUE
  /\ t' = Free
  /\ UNCHANGED <<nt, w, posted, adds>>

cancel_transaction ==
  /\ t.pc = "write" /\ t.ask = {}
  /\ t' = Free
  /\ UNCHANGED <<latest, realm, nt, cb, skip, w, wake, posted, adds>>

\* begin_transaction in a callback notifies nobody
NestedWrite ==
  /\ May("nest")
  /\ t.pc = "sending" /\ t.call # NoCall /\ latest < MaxVersion
  /\ latest' = latest + 1 /\ realm' = latest + 1
  /\ skip' = IF HaveNotifiers THEN latest + 1 ELSE skip
  /\ wake' = TRUE
  /\ UNCHANGED <<nt, cb, w, t, posted, adds>>

\* external: another thread or process commits; the write lock is free
ForeignCommit ==
  /\ t.pc \notin {"promote", "begun", "write"} /\ latest < MaxVersion
  /\ latest' = latest + 1
  /\ wake' = TRUE
  /\ UNCHANGED <<realm, nt, cb, skip, w, t, posted, adds>>

-----------------------------------------------------------------------------
(* Observing                                                               *)

CanRegister == t.pc \in {"idle", "sending"}
AtUser == t.pc \in {"idle", "write"} \/ t.call # NoCall

New == [NoNotifier EXCEPT !.place = "new", !.alive = TRUE, !.version = realm]

\* a Results that is evaluated gets a notifier, without any callback
prepare_async(n) ==
  /\ May("reobserve")
  /\ AtUser /\ CanRegister
  /\ nt[n].place = "none"
  /\ nt' = [nt EXCEPT ![n] = New]
  /\ UNCHANGED <<latest, realm, cb, skip, w, t, wake, posted, adds>>

\* the worker is not signalled while m_callback_index is in use: while a callback
\* of this notifier is being called, unless the first one has removed itself
Signals(n) ==
  IF Calling(n) THEN {wake}
  ELSE IF \E c \in Callbacks : t.call = c /\ Of[c] = n /\ ~cb[c].on /\ have_callbacks(n)
  THEN {wake, TRUE}
  ELSE {TRUE}

add_notification_callback(c) ==
  LET n == Of[c] IN
  /\ AtUser /\ ~cb[c].on /\ adds < MaxAdds
  /\ May("nest") \/ t.call = NoCall
  /\ \/ nt[n].place = "none" /\ CanRegister /\ nt' = [nt EXCEPT ![n] = New]
     \/ nt[n].place # "none" /\ nt[n].alive /\ UNCHANGED nt
        /\ (May("reobserve") \/ have_callbacks(n))
  /\ cb' = [cb EXCEPT ![c] = [NoCallback EXCEPT !.on = TRUE]]
  /\ wake' \in Signals(n)
  /\ adds' = adds + 1
  /\ UNCHANGED <<latest, realm, skip, w, t, posted>>

\* from any thread
remove_callback(c) ==
  /\ cb[c].on
  /\ cb' = [cb EXCEPT ![c] = NoCallback]
  /\ t' = [t EXCEPT !.ask = @ \ {c}, !.todo = @ \ {c}]
  /\ UNCHANGED <<latest, realm, nt, skip, w, wake, posted, adds>>

\* the Results goes away, after the tokens of its callbacks
unregister(n) ==
  /\ AtUser
  /\ nt[n].place \in {"new", "main"} /\ nt[n].alive /\ ~have_callbacks(n)
  /\ nt' = [nt EXCEPT ![n].alive = FALSE]
  /\ UNCHANGED <<latest, realm, cb, skip, w, t, wake, posted, adds>>

\* the collection that was delivered is read
get_tableview(n) ==
  /\ AtUser /\ nt[n].delivered
  /\ nt' = [nt EXCEPT ![n].delivered = FALSE]
  /\ UNCHANGED <<latest, realm, cb, skip, w, t, wake, posted, adds>>

-----------------------------------------------------------------------------
Sending ==
  \/ PromoteToWrite \/ advance_to_latest \/ process_available_async \/ advance_to_ready
  \/ (\E c \in Callbacks : PassOver(c) \/ Call(c)) \/ Return \/ Sent \/ NotifyInWrite

User ==
  \/ begin_transaction \/ refresh \/ commit_write \/ cancel_transaction \/ NestedWrite
  \/ \E c \in Callbacks :
       suppress_next_notification(c) \/ add_notification_callback(c) \/ remove_callback(c)
  \/ \E n \in Notifiers : prepare_async(n) \/ unregister(n) \/ get_tableview(n)

Next == (Worker \/ Sending \/ User \/ ForeignCommit) /\ UNCHANGED use

Spec == Init /\ [][Next]_vars

\* the worker's thread and the target's event loop go on, and a write
\* transaction that was begun is ended
FairSpec ==
  /\ Spec
  /\ WF_vars(Worker /\ UNCHANGED use) /\ WF_vars(Sending /\ UNCHANGED use)
  /\ WF_vars((commit_write \/ cancel_transaction) /\ UNCHANGED use)

-----------------------------------------------------------------------------
(* Properties                                                              *)

NotifierType ==
  [place : {"none", "new", "main", "gone"}, alive : BOOLEAN, version : 0..MaxVersion,
   ran : BOOLEAN, rows : 0..MaxVersion, change : SUBSET Versions, run : BOOLEAN,
   handover : BOOLEAN, delivered : BOOLEAN, used : BOOLEAN]

CallbackType ==
  [on : BOOLEAN, acc : SUBSET Versions, give : SUBSET Versions, init : BOOLEAN,
   skip : BOOLEAN, told : 0..MaxVersion, hush : SUBSET Versions]

WorkerType ==
  [pc : {"idle", "skip", "run"}, version : 0..MaxVersion, skip : 0..MaxVersion,
   new : SUBSET Notifiers, old : SUBSET Notifiers, todo : SUBSET Notifiers]

TargetType ==
  [pc : {"idle", "promote", "begun", "write", "refresh", "sending"},
   pkg : SUBSET Notifiers, target : 0..MaxVersion, todo : SUBSET Callbacks,
   call : Callbacks \cup {NoCall}, ask : SUBSET Callbacks]

\* Every variable keeps its type.
TypeOK ==
  /\ latest \in Versions /\ realm \in Versions /\ skip \in 0..MaxVersion
  /\ nt \in [Notifiers -> NotifierType] /\ cb \in [Callbacks -> CallbackType]
  /\ w \in WorkerType /\ t \in TargetType
  /\ wake \in BOOLEAN /\ posted \in BOOLEAN /\ adds \in 0..MaxAdds

\* A program whose callbacks do not write and which adds none to a notifier that
\* has run without any; it may ask for commits not to be notified.
Orderly == use.ways \cap {"nest", "reobserve"} = {}

\* The changes are those that lead from one version to another, but for some of the
\* hushed ones.
Lead(changes, hushed, from, to) ==
  /\ changes \subseteq (from + 1)..to
  /\ (from + 1)..to \subseteq changes \cup hushed

\* What a callback is told is exactly what lies between the version it was told
\* last and the version the Realm is at, but for commits it asked not to hear of:
\* no other change is missing, none is repeated, and none belongs to a version the
\* Realm does not read yet.  A commit of another thread right after a suppressed
\* one is told too.
DeliveryExact ==
  [][Orderly => \A c \in Callbacks :
       Call(c) /\ cb[c].init => Lead(cb[c].give, cb[c].hush, cb[c].told, realm)]_vars

\* A version skipped on request is never delivered.
SuppressHonoured ==
  [][\A c \in Callbacks : Call(c) /\ cb[c].init => cb[c].give \cap cb[c].hush = {}]_vars

\* The Realm never goes back to an older version.
NeverBack == [][realm' >= realm]_vars

\* The worker is asked to stop at a version only while it has notifiers to stop,
\* and only on the way to the version it is heading for.
SkipOnTheWay == w.skip # 0 => w.old # {} /\ w.skip <= w.version

\* When the worker passes a callback over, it drops the very commit that asked for
\* it: no commit of another thread goes with it, and nothing gathered before.
DropsOnlyHushed ==
  Orderly /\ w.pc # "idle" /\ w.todo = {} =>
    \A c \in On(w.new \cup w.old) :
      cb[c].skip => cb[c].acc = {} /\ nt[Of[c]].change \subseteq cb[c].hush

\* The hand-over between the target thread and the worker is in order: typed, with
\* the worker asked to stop only on its way, and only suppressed commits dropped.
HandOverInOrder == TypeOK /\ SkipOnTheWay /\ DropsOnlyHushed

\* A package that notify() finds is never for a version older than the one the
\* Realm is at.
NeverOutOfDate ==
  [][advance_to_ready => \A n \in Packaged(notifiers_for_realm) : nt[n].version >= realm]_vars

\* Once commits stop, every callback has been told everything there is to tell, but
\* for commits it asked not to hear of, if the program does nothing else out of the
\* ordinary.
EveryoneTold ==
  use.ways \subseteq {"suppress"} => <>[](\A c \in Callbacks : cb[c].on /\ t.pc = "idle" =>
         cb[c].init /\ ((cb[c].told + 1)..latest) \subseteq cb[c].hush)

\* A thread that begins a write transaction, or refreshes, is not left waiting.
WaitEnds == t.pc \in {"promote", "refresh"} ~> t.pc \notin {"promote", "refresh"}
=============================================================================
