------------------------ MODULE NotificationsProofs ------------------------
(***************************************************************************)
(* HandOverInOrder and DeliveryExact of Notifications, for any callbacks,  *)
(* notifiers and numbers of versions.                                      *)
(***************************************************************************)
EXTENDS Notifications, TLAPS

Ran(n) == nt[n].place = "main" /\ nt[n].ran

-----------------------------------------------------------------------------
(* The worker and the notifiers, however the Realm is used                 *)

\* A notifier is called in once; what has gone was dead, and what has run is known
\* to the worker.
PlacesKept ==
  \A n \in Notifiers :
    /\ nt[n].place \in {"none", "new"} => ~nt[n].ran /\ nt[n].change = {}
    /\ nt[n].place = "gone" => ~nt[n].alive

\* The worker advances all the notifiers it knows: those it knew and that have run,
\* and those that are new to it.
WorkerHasAll ==
  /\ w.pc = "idle" => \A n \in Notifiers : nt[n].place = "main" => nt[n].ran
  /\ w.pc # "idle" =>
       /\ w.todo \subseteq w.new \cup w.old
       /\ \A n \in Notifiers :
            /\ nt[n].place = "main" <=> n \in w.new \cup w.old
            /\ n \in w.old => nt[n].ran
            /\ n \in w.new => ~nt[n].ran
  /\ w.pc = "skip" => w.todo \subseteq w.old /\ w.skip # 0

\* Those that have run are all at one version.
SameVersion ==
  \A n, m \in Notifiers : Ran(n) /\ Ran(m) => nt[n].version = nt[m].version

\* Versions go up: from the notifiers' over the one the worker stops at to the one
\* it is heading for and the latest; a stop that is asked for lies ahead.
VersionsInOrder ==
  /\ realm <= latest /\ skip <= latest /\ t.target <= latest
  /\ \A n \in Notifiers :
       nt[n].version <= latest /\ (nt[n].place # "none" => nt[n].version > 0)
  /\ \A n \in Notifiers : Ran(n) =>
       /\ skip # 0 => nt[n].version <= skip
       /\ w.pc # "idle" => nt[n].version <= w.version
       /\ w.pc = "skip" => nt[n].version <= w.skip
  /\ w.pc # "idle" =>
       w.version > 0 /\ w.version <= latest /\ (skip # 0 => w.version <= skip)

\* The worker is asked to stop only while there is a notifier to stop.
SkipHasNotifiers == skip # 0 => Main # {}

-----------------------------------------------------------------------------
(* Callbacks that neither write nor are added again                        *)

\* A callback's notifier is alive.
CallbacksWatched ==
  \A c \in Callbacks : cb[c].on =>
    nt[Of[c]].alive /\ nt[Of[c]].place \in {"new", "main"}

\* A notifier with callbacks holds the rows of its version, and once the worker has
\* run it those of the version it is heading for, with the change between them.
RowsFollow ==
  Orderly => \A c \in Callbacks : cb[c].on /\ nt[Of[c]].place = "main" =>
    LET n == Of[c]
    IN IF w.pc = "idle" \/ n \in w.todo \/ (w.pc = "skip" /\ n \notin w.old)
       THEN nt[n].change = {} /\ (nt[n].ran => nt[n].rows = nt[n].version)
       ELSE /\ nt[n].rows = Towards
            /\ nt[n].change = IF nt[n].ran THEN (nt[n].version + 1)..Towards ELSE {}

\* The target thread waits for all notifiers that have callbacks.
WaitsForAll ==
  /\ t.pc = "promote" => t.target = latest
  /\ Orderly /\ t.pc \in {"promote", "refresh"} =>
       \A c \in Callbacks : cb[c].on => Of[c] \in t.pkg

\* In a write transaction nothing is waiting to be delivered, and nothing comes.
WriteIsCurrent ==
  /\ Orderly /\ t.pc \in {"begun", "write"} =>
       /\ realm = latest
       /\ \A c \in Callbacks : cb[c].on =>
            Ran(Of[c]) /\ nt[Of[c]].version = latest /\ cb[c].acc = {}

\* Nothing is waiting for a callback that asked to be skipped.
SkipsAlone == Orderly => \A c \in Callbacks : cb[c].on /\ cb[c].skip => cb[c].acc = {}

\* A callback is to be skipped while the commit that asks for it is being written,
\* and then until the worker, which is to stop at that commit, has done so: its
\* notifier is at the version before.
Awaits(c, n) ==
  \/ t.pc = "write" /\ c \in t.ask
  \/ \E h \in cb[c].hush :
       /\ nt[n].version + 1 = h
       /\ \/ skip = h /\ (w.pc # "idle" => w.version < h)
          \/ w.pc = "skip" /\ w.skip = h

SkipsDue ==
  Orderly => \A c \in Callbacks : cb[c].on /\ cb[c].skip =>
    Ran(Of[c]) /\ Awaits(c, Of[c])

\* The callback c of n is to be told what lies between the version it was told last
\* and that of the Realm; what is newer gathers for it.
Due(c, n) ==
  /\ Ran(n) /\ nt[n].version >= realm
  /\ Lead(cb[c].acc, cb[c].hush, realm, nt[n].version)
  /\ cb[c].init => cb[c].told <= realm
                  /\ Lead(cb[c].give, cb[c].hush, cb[c].told, realm)

\* Otherwise all that it has not been told gathers for it.
Settled(c, n) ==
  /\ cb[c].told <= nt[n].version
  /\ Lead(cb[c].acc, cb[c].hush, cb[c].told, nt[n].version)
  /\ nt[n].version < realm => cb[c].acc = {}

\* The worker does not stop at a version between that of the notifier and that of
\* the Realm, whose own commit is the stop it has asked for.
NoStop(n) ==
  /\ w.pc # "idle" => w.version <= nt[n].version \/ w.version >= realm
  /\ w.pc = "skip" => w.skip <= nt[n].version \/ w.skip >= realm
  /\ skip # 0 => skip >= realm

\* Only during a delivery is somebody to be told, and he has got his package.
ToBeTold ==
  Orderly =>
    /\ t.pc \notin {"sending", "begun"} => t.todo = {}
    /\ \A c \in t.todo : cb[c].on => Due(c, Of[c])

\* What has been told and what waits to be told are, together, everything.
Accounted ==
  Orderly => \A c \in Callbacks : cb[c].on /\ cb[c].init =>
    Ran(Of[c]) /\ (c \notin t.todo => Settled(c, Of[c]))

NoStopBetween ==
  Orderly => \A c \in Callbacks : cb[c].on /\ cb[c].init => NoStop(Of[c])

\* The inductive invariant.
NotifyInv ==
  /\ use \in Uses /\ TypeOK
  /\ PlacesKept /\ WorkerHasAll /\ SameVersion /\ VersionsInOrder
  /\ SkipOnTheWay /\ SkipHasNotifiers
  /\ CallbacksWatched /\ RowsFollow /\ WaitsForAll /\ WriteIsCurrent /\ SkipsAlone
  /\ SkipsDue /\ ToBeTold /\ Accounted /\ NoStopBetween

-----------------------------------------------------------------------------
(* What the steps do to the fields the invariant is about                  *)

\* A notifier, and a callback, are as they were but for the collections delivered
\* and versions that come to be hushed.
Kept(n) ==
  /\ nt'[n].place = nt[n].place /\ nt'[n].alive = nt[n].alive
  /\ nt'[n].version = nt[n].version /\ nt'[n].ran = nt[n].ran
  /\ nt'[n].rows = nt[n].rows /\ nt'[n].change = nt[n].change

CallKept(c) ==
  /\ cb'[c].on = cb[c].on /\ cb'[c].acc = cb[c].acc /\ cb'[c].give = cb[c].give
  /\ cb'[c].init = cb[c].init /\ cb'[c].skip = cb[c].skip /\ cb'[c].told = cb[c].told
  /\ cb[c].hush \subseteq cb'[c].hush

ToldKept(c) ==
  /\ cb'[c].on = cb[c].on /\ cb'[c].acc = cb[c].acc /\ cb'[c].give = cb[c].give
  /\ cb'[c].init = cb[c].init /\ cb'[c].told = cb[c].told
  /\ cb[c].hush \subseteq cb'[c].hush

\* The callbacks of the notifiers ns are given what has gathered for them.
Given(ns) ==
  \A c \in Callbacks :
    /\ cb'[c].on = cb[c].on /\ cb'[c].init = cb[c].init
    /\ cb'[c].skip = cb[c].skip /\ cb'[c].told = cb[c].told /\ cb'[c].hush = cb[c].hush
    /\ IF cb[c].on /\ Of[c] \in ns
       THEN cb'[c].give = cb[c].acc /\ cb'[c].acc = {}
       ELSE cb'[c].give = cb[c].give /\ cb'[c].acc = cb[c].acc

\* The changes of the notifiers ns gather for their callbacks.
Gathered(ns) ==
  \A c \in Callbacks :
    /\ cb'[c].on = cb[c].on /\ cb'[c].init = cb[c].init
    /\ cb'[c].give = cb[c].give /\ cb'[c].told = cb[c].told /\ cb'[c].hush = cb[c].hush
    /\ IF cb[c].on /\ Of[c] \in ns
       THEN ~cb'[c].skip /\ cb'[c].acc = IF cb[c].skip THEN cb[c].acc
                                         ELSE cb[c].acc \cup nt[Of[c]].change
       ELSE cb'[c].skip = cb[c].skip /\ cb'[c].acc = cb[c].acc

\* The use of the Realm, and what follows from it, stay the same.
LEMMA UseKept ==
  ASSUME use \in Uses, use' = use
  PROVE  /\ Callbacks' = Callbacks /\ Notifiers' = Notifiers /\ Of' = Of
         /\ MaxVersion' = MaxVersion /\ Versions' = Versions
         /\ Orderly' = Orderly
         /\ NotifierType' = NotifierType /\ CallbackType' = CallbackType
         /\ WorkerType' = WorkerType /\ TargetType' = TargetType
BY DEF Callbacks, Notifiers, Of, MaxVersion, Versions, Orderly, NotifierType,
       CallbackType, WorkerType, TargetType

LEMMA UseTyped ==
  ASSUME use \in Uses
  PROVE  /\ MaxVersion \in Nat /\ MaxVersion > 0
         /\ \A c \in Callbacks : Of[c] \in Notifiers
         /\ Orderly => ~May("nest") /\ ~May("reobserve")
BY NotificationsAssumption
   DEF Callbacks, Notifiers, Of, MaxVersion, Orderly, May

LEMMA PackageGives ==
  ASSUME use \in Uses, TypeOK, NEW ns, Package(ns)
  PROVE  /\ nt' \in [Notifiers -> NotifierType] /\ cb' \in [Callbacks -> CallbackType]
         /\ \A n \in Notifiers : Kept(n)
         /\ Given(ns)
<1>1. nt' \in [Notifiers -> NotifierType] /\ \A n \in Notifiers : Kept(n)
  <2>1. ASSUME NEW n \in Notifiers
        PROVE  /\ Delivered(n) \in NotifierType
               /\ Delivered(n).place = nt[n].place /\ Delivered(n).alive = nt[n].alive
               /\ Delivered(n).version = nt[n].version /\ Delivered(n).ran = nt[n].ran
               /\ Delivered(n).rows = nt[n].rows /\ Delivered(n).change = nt[n].change
    <3>1. nt[n] \in NotifierType
      BY DEF TypeOK
    <3>2. (~nt[n].delivered) \in BOOLEAN
      OBVIOUS
    <3> QED BY <3>1, <3>2 DEF NotifierType, Delivered
  <2>2. nt' = [n \in Notifiers |-> IF n \in ns THEN Delivered(n) ELSE nt[n]]
    BY DEF Package
  <2> QED BY <2>1, <2>2 DEF TypeOK, Kept
<1>2. cb' \in [Callbacks -> CallbackType] /\ Given(ns)
  <2>1. \A c \in Callbacks :
          LET d == [cb[c] EXCEPT !.give = cb[c].acc, !.acc = {}]
          IN /\ d \in CallbackType /\ d.give = cb[c].acc /\ d.acc = {}
             /\ d.on = cb[c].on /\ d.init = cb[c].init /\ d.skip = cb[c].skip
             /\ d.told = cb[c].told /\ d.hush = cb[c].hush
    BY DEF TypeOK, CallbackType
  <2>2. cb' = [c \in Callbacks |->
           IF cb[c].on /\ Of[c] \in ns THEN [cb[c] EXCEPT !.give = cb[c].acc, !.acc = {}]
           ELSE cb[c]]
    BY DEF Package, On
  <2> QED BY <2>1, <2>2 DEF TypeOK, Given
<1> QED BY <1>1, <1>2

LEMMA AddChangesGathers ==
  ASSUME use \in Uses, TypeOK, NEW ns, cb' = add_changes(ns)
  PROVE  cb' \in [Callbacks -> CallbackType] /\ Gathered(ns)
<1>1. \A c \in Callbacks : nt[Of[c]].change \in SUBSET Versions
  BY UseTyped DEF TypeOK, NotifierType
<1>2. \A c \in Callbacks :
        LET d == [cb[c] EXCEPT !.skip = FALSE]
            e == [cb[c] EXCEPT !.acc = cb[c].acc \cup nt[Of[c]].change]
        IN /\ d \in CallbackType /\ d.acc = cb[c].acc /\ d.skip = FALSE
           /\ d.on = cb[c].on /\ d.init = cb[c].init /\ d.give = cb[c].give
           /\ d.told = cb[c].told /\ d.hush = cb[c].hush
           /\ e \in CallbackType /\ e.skip = cb[c].skip
           /\ e.acc = cb[c].acc \cup nt[Of[c]].change
           /\ e.on = cb[c].on /\ e.init = cb[c].init /\ e.give = cb[c].give
           /\ e.told = cb[c].told /\ e.hush = cb[c].hush
  BY <1>1 DEF TypeOK, CallbackType
<1>3. \A c \in Callbacks : cb[c] \in CallbackType /\ cb[c].skip \in BOOLEAN
  BY DEF TypeOK, CallbackType
<1>4. \A c \in Callbacks :
        cb'[c] = IF ~cb[c].on \/ Of[c] \notin ns THEN cb[c]
                 ELSE IF cb[c].skip THEN [cb[c] EXCEPT !.skip = FALSE]
                 ELSE [cb[c] EXCEPT !.acc = cb[c].acc \cup nt[Of[c]].change]
  BY DEF add_changes
<1>5. ASSUME NEW c \in Callbacks PROVE cb'[c] \in CallbackType
  <2> DEFINE d == [cb[c] EXCEPT !.skip = FALSE]
             e == [cb[c] EXCEPT !.acc = cb[c].acc \cup nt[Of[c]].change]
  <2>1. cb'[c] \in {cb[c], d, e}
    BY <1>4
  <2>2. d \in CallbackType /\ e \in CallbackType
    BY <1>2
  <2> HIDE DEF d, e
  <2> QED BY <1>3, <2>1, <2>2
<1>6. cb' \in [Callbacks -> CallbackType]
  BY <1>5 DEF add_changes
<1>7. Gathered(ns)
  <2> SUFFICES ASSUME NEW c \in Callbacks
               PROVE  /\ cb'[c].on = cb[c].on /\ cb'[c].init = cb[c].init
                      /\ cb'[c].give = cb[c].give /\ cb'[c].told = cb[c].told
                      /\ cb'[c].hush = cb[c].hush
                      /\ IF cb[c].on /\ Of[c] \in ns
                         THEN ~cb'[c].skip /\ cb'[c].acc = IF cb[c].skip THEN cb[c].acc
                                              ELSE cb[c].acc \cup nt[Of[c]].change
                         ELSE cb'[c].skip = cb[c].skip /\ cb'[c].acc = cb[c].acc
    BY DEF Gathered
  <2>1. CASE ~cb[c].on \/ Of[c] \notin ns
    BY <1>4, <2>1
  <2>2. CASE cb[c].on /\ Of[c] \in ns /\ cb[c].skip
    <3> DEFINE d == [cb[c] EXCEPT !.skip = FALSE]
    <3>1. cb'[c] = d
      BY <1>4, <2>2
    <3>2. /\ ~d.skip /\ d.acc = cb[c].acc
          /\ d.on = cb[c].on /\ d.init = cb[c].init /\ d.give = cb[c].give
          /\ d.told = cb[c].told /\ d.hush = cb[c].hush
      BY <1>2
    <3> HIDE DEF d
    <3> QED BY <2>2, <3>1, <3>2
  <2>3. CASE cb[c].on /\ Of[c] \in ns /\ ~cb[c].skip
    <3> DEFINE e == [cb[c] EXCEPT !.acc = cb[c].acc \cup nt[Of[c]].change]
    <3>1. cb'[c] = e
      BY <1>4, <2>3
    <3>2. /\ e.skip = cb[c].skip /\ e.acc = cb[c].acc \cup nt[Of[c]].change
          /\ e.on = cb[c].on /\ e.init = cb[c].init /\ e.give = cb[c].give
          /\ e.told = cb[c].told /\ e.hush = cb[c].hush
      BY <1>2
    <3> HIDE DEF e
    <3> QED BY <2>3, <3>1, <3>2
  <2> QED BY <2>1, <2>2, <2>3
<1> QED BY <1>6, <1>7

\* The notifiers the worker finds, those that are new to it and those it knows.
Fresh == {n \in Notifiers : nt[n].place = "new" /\ nt[n].alive}
Living == {n \in Main : nt[n].alive}

LEMMA CollectDoes ==
  ASSUME use \in Uses, TypeOK, Collect
  PROVE  /\ nt' \in [Notifiers -> NotifierType] /\ w' \in WorkerType
         /\ skip' \in 0 .. MaxVersion /\ wake' \in BOOLEAN /\ posted' \in BOOLEAN
         /\ w.pc = "idle" /\ UNCHANGED <<latest, realm, cb, t, adds>>
         /\ \A n \in Notifiers :
              /\ nt'[n].place = IF nt[n].place \in {"new", "main"} /\ ~nt[n].alive
                                THEN "gone"
                                ELSE IF nt[n].place = "new" THEN "main" ELSE nt[n].place
              /\ nt'[n].alive = nt[n].alive /\ nt'[n].version = nt[n].version
              /\ nt'[n].ran = nt[n].ran /\ nt'[n].rows = nt[n].rows
              /\ nt'[n].change = nt[n].change
         /\ \/ Fresh \cup Living = {} /\ w' = w /\ skip' = IF Main # {} THEN 0 ELSE skip
            \/ /\ skip' = 0
               /\ w'.new = Fresh /\ w'.old = Living /\ w'.version = latest
               /\ w'.skip = IF Living = {} /\ Main # {} THEN 0 ELSE skip
               /\ IF w'.skip # 0 THEN w'.pc = "skip" /\ w'.todo = Living
                                 ELSE w'.pc = "run" /\ w'.todo = Fresh \cup Living
<1> DEFINE clean == Clean(nt)
           new == {n \in Notifiers : clean[n].place = "new"}
           old == {n \in Notifiers : clean[n].place = "main"}
<1>1. /\ clean \in [Notifiers -> NotifierType]
      /\ \A n \in Notifiers :
           /\ clean[n].place = IF nt[n].place \in {"new", "main"} /\ ~nt[n].alive
                               THEN "gone" ELSE nt[n].place
           /\ clean[n].alive = nt[n].alive /\ clean[n].version = nt[n].version
           /\ clean[n].ran = nt[n].ran /\ clean[n].rows = nt[n].rows
           /\ clean[n].change = nt[n].change
  BY DEF TypeOK, NotifierType, Clean
<1>2. new = Fresh /\ old = Living
  BY <1>1 DEF Fresh, Living, Main
<1>3. /\ CleanSkipVersion(old) = IF Living = {} /\ Main # {} THEN 0 ELSE skip
      /\ CleanSkipVersion(old) \in 0 .. MaxVersion
  BY <1>2, UseTyped DEF CleanSkipVersion, TypeOK
<1>4. /\ w.pc = "idle" /\ UNCHANGED <<latest, realm, cb, t, adds>> /\ wake' = FALSE
      /\ \/ /\ new \cup old = {} /\ nt' = clean /\ skip' = CleanSkipVersion(old)
            /\ posted' = TRUE /\ w' = w
         \/ /\ new \cup old # {}
            /\ nt' = [n \in Notifiers |-> IF n \in new THEN [clean[n] EXCEPT !.place = "main"]
                                                       ELSE clean[n]]
            /\ w' = [pc |-> IF CleanSkipVersion(old) # 0 THEN "skip" ELSE "run",
                     version |-> latest, skip |-> CleanSkipVersion(old),
                     new |-> new, old |-> old,
                     todo |-> IF CleanSkipVersion(old) # 0 THEN old ELSE new \cup old]
            /\ skip' = 0 /\ UNCHANGED posted
  BY DEF Collect
<1> HIDE DEF clean, new, old
<1>5. CASE /\ new \cup old = {} /\ nt' = clean /\ skip' = CleanSkipVersion(old)
           /\ posted' = TRUE /\ w' = w
  <2>1. \A n \in Notifiers : nt[n].place = "new" => ~nt[n].alive
    BY <1>2, <1>5 DEF Fresh
  <2>2. \A n \in Notifiers :
          nt'[n].place = IF nt[n].place \in {"new", "main"} /\ ~nt[n].alive
                         THEN "gone"
                         ELSE IF nt[n].place = "new" THEN "main" ELSE nt[n].place
    BY <1>1, <1>5, <2>1
  <2>3. Living = {}
    BY <1>2, <1>5
  <2>4. wake' \in BOOLEAN /\ posted' \in BOOLEAN
    BY <1>4, <1>5
  <2> QED BY <1>1, <1>2, <1>3, <1>4, <1>5, <2>2, <2>3, <2>4 DEF TypeOK
<1>6. CASE /\ nt' = [n \in Notifiers |-> IF n \in new THEN [clean[n] EXCEPT !.place = "main"]
                                                      ELSE clean[n]]
           /\ w' = [pc |-> IF CleanSkipVersion(old) # 0 THEN "skip" ELSE "run",
                    version |-> latest, skip |-> CleanSkipVersion(old),
                    new |-> new, old |-> old,
                    todo |-> IF CleanSkipVersion(old) # 0 THEN old ELSE new \cup old]
           /\ skip' = 0 /\ UNCHANGED posted
  <2>1. /\ nt' \in [Notifiers -> NotifierType]
        /\ \A n \in Notifiers :
              /\ nt'[n].place = IF n \in new THEN "main" ELSE clean[n].place
              /\ nt'[n].alive = clean[n].alive /\ nt'[n].version = clean[n].version
              /\ nt'[n].ran = clean[n].ran /\ nt'[n].rows = clean[n].rows
              /\ nt'[n].change = clean[n].change
    BY <1>1, <1>6 DEF NotifierType
  <2>2. \A n \in Notifiers :
          nt'[n].place = IF nt[n].place \in {"new", "main"} /\ ~nt[n].alive
                         THEN "gone"
                         ELSE IF nt[n].place = "new" THEN "main" ELSE nt[n].place
    BY <1>1, <1>2, <2>1 DEF Fresh
  <2>3. Fresh \in SUBSET Notifiers /\ Living \in SUBSET Notifiers
    BY DEF Fresh, Living, Main
  <2>4. w' \in WorkerType
    BY <1>2, <1>3, <1>6, <2>3, UseTyped DEF WorkerType, TypeOK, Versions
  <2>5. wake' \in BOOLEAN /\ posted' \in BOOLEAN
    BY <1>4, <1>6 DEF TypeOK
  <2>6. /\ w'.new = Fresh /\ w'.old = Living /\ w'.version = latest
        /\ w'.skip = IF Living = {} /\ Main # {} THEN 0 ELSE skip
        /\ IF w'.skip # 0 THEN w'.pc = "skip" /\ w'.todo = Living
                          ELSE w'.pc = "run" /\ w'.todo = Fresh \cup Living
    BY <1>2, <1>3, <1>6
  <2> QED BY <1>1, <1>4, <1>6, <2>1, <2>2, <2>4, <2>5, <2>6, UseTyped
<1> QED BY <1>4, <1>5, <1>6

LEMMA TowardsTyped ==
  ASSUME use \in Uses, TypeOK
  PROVE  Towards \in 0 .. MaxVersion
BY UseTyped DEF Towards, TypeOK, WorkerType

\* A notifier with callbacks is alive, so that the worker runs it unless it has the
\* rows of the version it is heading for.
LEMMA RunDoes ==
  ASSUME use \in Uses, TypeOK, CallbacksWatched, NEW m \in Notifiers, run(m)
  PROVE  /\ nt' \in [Notifiers -> NotifierType] /\ w' \in WorkerType
         /\ w.pc \in {"skip", "run"} /\ m \in w.todo
         /\ w'.pc = w.pc /\ w'.version = w.version /\ w'.skip = w.skip
         /\ w'.new = w.new /\ w'.old = w.old /\ w'.todo = w.todo \ {m}
         /\ UNCHANGED <<latest, realm, cb, skip, t, wake, posted, adds>>
         /\ \A n \in Notifiers :
              /\ nt'[n].place = nt[n].place /\ nt'[n].alive = nt[n].alive
              /\ nt'[n].version = nt[n].version /\ nt'[n].ran = nt[n].ran
              /\ n # m => nt'[n].rows = nt[n].rows /\ nt'[n].change = nt[n].change
         /\ have_callbacks(m) =>
              \/ /\ nt[m].ran /\ nt[m].rows = Towards
                 /\ nt'[m].rows = nt[m].rows /\ nt'[m].change = nt[m].change
              \/ /\ nt'[m].rows = Towards
                 /\ nt'[m].change = IF nt[m].ran THEN (nt[m].rows + 1) .. Towards ELSE {}
<1>1. /\ nt[m] \in NotifierType /\ nt[m].rows \in 0 .. MaxVersion
      /\ Towards \in 0 .. MaxVersion
  BY TowardsTyped DEF TypeOK, NotifierType
<1>2. calculate_changes(m) \in SUBSET Versions
  BY <1>1, UseTyped DEF calculate_changes, Versions
<1>3. have_callbacks(m) => nt[m].alive
  BY DEF have_callbacks, CallbacksWatched
<1>4. /\ w.pc \in {"skip", "run"} /\ m \in w.todo
      /\ nt' = IF need_to_run(m)
               THEN [nt EXCEPT ![m].change = calculate_changes(m), ![m].rows = Towards,
                               ![m].run = TRUE]
               ELSE nt
      /\ w' = [w EXCEPT !.todo = @ \ {m}]
      /\ UNCHANGED <<latest, realm, cb, skip, t, wake, posted, adds>>
  BY DEF run
<1>5. /\ w' \in WorkerType
      /\ w'.pc = w.pc /\ w'.version = w.version /\ w'.skip = w.skip
      /\ w'.new = w.new /\ w'.old = w.old /\ w'.todo = w.todo \ {m}
  BY <1>4 DEF TypeOK, WorkerType
<1>6. CASE need_to_run(m)
  <2>1. /\ nt' \in [Notifiers -> NotifierType]
        /\ \A n \in Notifiers :
             /\ nt'[n].place = nt[n].place /\ nt'[n].alive = nt[n].alive
             /\ nt'[n].version = nt[n].version /\ nt'[n].ran = nt[n].ran
             /\ n # m => nt'[n].rows = nt[n].rows /\ nt'[n].change = nt[n].change
        /\ nt'[m].rows = Towards /\ nt'[m].change = calculate_changes(m)
    BY <1>1, <1>2, <1>4, <1>6 DEF TypeOK, NotifierType
  <2> QED BY <1>4, <1>5, <2>1 DEF calculate_changes
<1>7. CASE ~need_to_run(m)
  <2>1. nt' = nt
    BY <1>4, <1>7
  <2>2. have_callbacks(m) => nt[m].ran /\ nt[m].rows = Towards
    BY <1>3, <1>7 DEF need_to_run
  <2> QED BY <1>4, <1>5, <2>1, <2>2 DEF TypeOK
<1> QED BY <1>6, <1>7

\* A notifier after a hand-over.
Handed(n) == [nt[n] EXCEPT !.version = Towards, !.change = {}, !.ran = TRUE,
                           !.handover = nt[n].run, !.run = FALSE]

LEMMA HandedTyped ==
  ASSUME use \in Uses, TypeOK, NEW n \in Notifiers
  PROVE  /\ Handed(n) \in NotifierType
         /\ Handed(n).place = nt[n].place /\ Handed(n).alive = nt[n].alive
         /\ Handed(n).rows = nt[n].rows
         /\ Handed(n).version = Towards /\ Handed(n).change = {} /\ Handed(n).ran = TRUE
BY TowardsTyped DEF TypeOK, NotifierType, Handed

LEMMA HandedOver ==
  ASSUME NEW ns
  PROVE  prepare_handover(ns) = [n \in Notifiers |-> IF n \in ns THEN Handed(n) ELSE nt[n]]
BY DEF prepare_handover, Handed

LEMMA SkipHandoverDoes ==
  ASSUME use \in Uses, TypeOK, SkipHandover
  PROVE  /\ nt' \in [Notifiers -> NotifierType] /\ cb' \in [Callbacks -> CallbackType]
         /\ w' \in WorkerType
         /\ w.pc = "skip" /\ w.todo = {} /\ w'.pc = "run" /\ w'.todo = w.new \cup w.old
         /\ w'.version = w.version /\ w'.skip = w.skip /\ w'.new = w.new /\ w'.old = w.old
         /\ UNCHANGED <<latest, realm, skip, t, wake, posted, adds>>
         /\ Gathered(w.old)
         /\ \A n \in Notifiers :
              /\ nt'[n].place = nt[n].place /\ nt'[n].alive = nt[n].alive
              /\ nt'[n].rows = nt[n].rows
              /\ nt'[n].version = IF n \in w.old THEN w.skip ELSE nt[n].version
              /\ nt'[n].change = IF n \in w.old THEN {} ELSE nt[n].change
              /\ n \in w.old => nt'[n].ran = TRUE
              /\ n \notin w.old => nt'[n].ran = nt[n].ran
<1>1. /\ w.pc = "skip" /\ w.todo = {} /\ cb' = add_changes(w.old)
      /\ nt' = prepare_handover(w.old)
      /\ w' = [w EXCEPT !.pc = "run", !.todo = w.new \cup w.old]
      /\ UNCHANGED <<latest, realm, skip, t, wake, posted, adds>>
  BY DEF SkipHandover
<1>2. cb' \in [Callbacks -> CallbackType] /\ Gathered(w.old)
  BY <1>1, AddChangesGathers
<1>3. /\ w' \in WorkerType /\ w'.pc = "run" /\ w'.todo = w.new \cup w.old
      /\ w'.version = w.version /\ w'.skip = w.skip /\ w'.new = w.new /\ w'.old = w.old
  BY <1>1 DEF TypeOK, WorkerType
<1>4. Towards = w.skip
  BY <1>1 DEF Towards
<1>5. /\ nt' \in [Notifiers -> NotifierType]
      /\ \A n \in Notifiers :
              /\ nt'[n].place = nt[n].place /\ nt'[n].alive = nt[n].alive
              /\ nt'[n].rows = nt[n].rows
              /\ nt'[n].version = IF n \in w.old THEN w.skip ELSE nt[n].version
              /\ nt'[n].change = IF n \in w.old THEN {} ELSE nt[n].change
              /\ n \in w.old => nt'[n].ran = TRUE
              /\ n \notin w.old => nt'[n].ran = nt[n].ran
  <2>1. nt' = [n \in Notifiers |-> IF n \in w.old THEN Handed(n) ELSE nt[n]]
    BY <1>1, HandedOver
  <2> QED BY <1>4, <2>1, HandedTyped DEF TypeOK
<1> QED BY <1>1, <1>2, <1>3, <1>5

LEMMA HandoverDoes ==
  ASSUME use \in Uses, TypeOK, Handover
  PROVE  /\ nt' \in [Notifiers -> NotifierType] /\ cb' \in [Callbacks -> CallbackType]
         /\ skip' \in 0 .. MaxVersion
         /\ w.pc = "run" /\ w.todo = {} /\ w' = Idle /\ posted' = TRUE
         /\ UNCHANGED <<latest, realm, t, wake, adds>>
         /\ skip' = IF Living = {} /\ Main # {} THEN 0 ELSE skip
         /\ Gathered(w.new \cup w.old)
         /\ \A n \in Notifiers :
              /\ nt'[n].place = IF nt[n].place \in {"new", "main"} /\ ~nt[n].alive
                                THEN "gone" ELSE nt[n].place
              /\ nt'[n].alive = nt[n].alive /\ nt'[n].rows = nt[n].rows
              /\ nt'[n].version = IF n \in w.new \cup w.old THEN w.version ELSE nt[n].version
              /\ nt'[n].change = IF n \in w.new \cup w.old THEN {} ELSE nt[n].change
              /\ n \in w.new \cup w.old => nt'[n].ran = TRUE
              /\ n \notin w.new \cup w.old => nt'[n].ran = nt[n].ran
<1> DEFINE p == prepare_handover(w.new \cup w.old)
<1>1. /\ w.pc = "run" /\ w.todo = {} /\ cb' = add_changes(w.new \cup w.old)
      /\ nt' = Clean(p) /\ w' = Idle /\ posted' = TRUE
      /\ skip' = CleanSkipVersion(Living)
      /\ UNCHANGED <<latest, realm, t, wake, adds>>
  BY DEF Handover, Living
<1>2. cb' \in [Callbacks -> CallbackType] /\ Gathered(w.new \cup w.old)
  BY <1>1, AddChangesGathers
<1>3. Towards = w.version /\ p = prepare_handover(w.new \cup w.old)
  BY <1>1 DEF Towards
<1> HIDE DEF p
<1>4. /\ p \in [Notifiers -> NotifierType]
      /\ \A n \in Notifiers :
              /\ p[n].place = nt[n].place /\ p[n].alive = nt[n].alive
              /\ p[n].rows = nt[n].rows
              /\ p[n].version = IF n \in w.new \cup w.old THEN w.version ELSE nt[n].version
              /\ p[n].change = IF n \in w.new \cup w.old THEN {} ELSE nt[n].change
              /\ n \in w.new \cup w.old => p[n].ran = TRUE
              /\ n \notin w.new \cup w.old => p[n].ran = nt[n].ran
  <2>1. p = [n \in Notifiers |-> IF n \in w.new \cup w.old THEN Handed(n) ELSE nt[n]]
    BY <1>3, HandedOver
  <2> QED BY <1>3, <2>1, HandedTyped DEF TypeOK
<1>5. /\ skip' = IF Living = {} /\ Main # {} THEN 0 ELSE skip
      /\ skip' \in 0 .. MaxVersion
  BY <1>1, UseTyped DEF CleanSkipVersion, TypeOK
<1>6. /\ nt' \in [Notifiers -> NotifierType]
      /\ \A n \in Notifiers :
              /\ nt'[n].place = IF p[n].place \in {"new", "main"} /\ ~p[n].alive
                                THEN "gone" ELSE p[n].place
              /\ nt'[n].alive = p[n].alive /\ nt'[n].rows = p[n].rows
              /\ nt'[n].version = p[n].version /\ nt'[n].change = p[n].change
              /\ nt'[n].ran = p[n].ran
  BY <1>1, <1>4 DEF Clean, NotifierType
<1>7. \A n \in Notifiers :
              /\ nt'[n].place = IF nt[n].place \in {"new", "main"} /\ ~nt[n].alive
                                THEN "gone" ELSE nt[n].place
              /\ nt'[n].alive = nt[n].alive /\ nt'[n].rows = nt[n].rows
              /\ nt'[n].version = IF n \in w.new \cup w.old THEN w.version ELSE nt[n].version
              /\ nt'[n].change = IF n \in w.new \cup w.old THEN {} ELSE nt[n].change
              /\ n \in w.new \cup w.old => nt'[n].ran = TRUE
              /\ n \notin w.new \cup w.old => nt'[n].ran = nt[n].ran
  BY <1>4, <1>6
<1> QED BY <1>1, <1>2, <1>5, <1>6, <1>7

LEMMA DeliverDoes ==
  ASSUME use \in Uses, TypeOK, NEW ns, NEW pc \in {"sending", "begun"}, Deliver(pc, ns)
  PROVE  /\ t' \in TargetType /\ t'.pc = pc /\ t'.todo = On(ns) /\ t'.target = 0
         /\ t'.call = NoCall /\ t'.ask = {}
<1>1. t' = [pc |-> pc, pkg |-> {}, target |-> 0, todo |-> On(ns), call |-> NoCall, ask |-> {}]
  BY DEF Deliver, Free
<1>2. On(ns) \in SUBSET Callbacks
  BY DEF On
<1> QED BY <1>1, <1>2, UseTyped DEF TargetType

\* A transaction, or a refresh, begins to wait.
LEMMA BeginDoes ==
  ASSUME use \in Uses, TypeOK, begin_transaction \/ refresh
  PROVE  /\ t.pc = "idle" /\ t' \in TargetType /\ t'.pc \in {"promote", "refresh"}
         /\ t'.pkg = notifiers_for_realm /\ t'.target = latest /\ t'.todo = {}
         /\ t'.ask = {}
         /\ UNCHANGED <<latest, realm, nt, cb, skip, w, wake, posted, adds>>
<1>1. notifiers_for_realm \in SUBSET Notifiers /\ latest \in 0 .. MaxVersion
  BY UseTyped DEF notifiers_for_realm, TypeOK, Versions
<1>2. \E pc \in {"promote", "refresh"} :
        t' = [pc |-> pc, pkg |-> notifiers_for_realm, target |-> latest, todo |-> {},
              call |-> NoCall, ask |-> {}]
  BY DEF begin_transaction, refresh, Free
<1>3. /\ t.pc = "idle"
      /\ UNCHANGED <<latest, realm, nt, cb, skip, w, wake, posted, adds>>
  BY DEF begin_transaction, refresh
<1>4. /\ t' \in TargetType /\ t'.pc \in {"promote", "refresh"}
      /\ t'.pkg = notifiers_for_realm /\ t'.target = latest /\ t'.todo = {}
      /\ t'.ask = {}
  BY <1>1, <1>2 DEF TargetType
<1> QED BY <1>3, <1>4

\* What is said of a step that leaves alone all but the target thread.
TargetStep == UNCHANGED <<latest, realm, nt, cb, skip, w, wake, adds>>

LEMMA PassOverDoes ==
  ASSUME use \in Uses, TypeOK, NEW c \in Callbacks, PassOver(c)
  PROVE  /\ t.pc \in {"sending", "begun"} /\ c \in t.todo
         /\ ~cb[c].on \/ (cb[c].init /\ cb[c].give = {})
         /\ t' \in TargetType /\ t'.pc = t.pc /\ t'.pkg = t.pkg /\ t'.target = t.target
         /\ t'.todo = t.todo \ {c}
         /\ TargetStep /\ posted' = posted
<1>1. t' = [t EXCEPT !.todo = @ \ {c}]
  BY DEF PassOver
<1>2. /\ t' \in TargetType /\ t'.pc = t.pc /\ t'.pkg = t.pkg /\ t'.target = t.target
      /\ t'.todo = t.todo \ {c}
  BY <1>1 DEF TypeOK, TargetType
<1> QED BY <1>2 DEF PassOver, TargetStep

LEMMA ReturnDoes ==
  ASSUME use \in Uses, TypeOK, Return
  PROVE  /\ t' \in TargetType /\ t'.pc = t.pc /\ t'.pkg = t.pkg /\ t'.target = t.target
         /\ t'.todo = t.todo
         /\ TargetStep /\ posted' = posted
<1>1. t' = [t EXCEPT !.call = NoCall]
  BY DEF Return
<1>2. /\ t' \in TargetType /\ t'.pc = t.pc /\ t'.pkg = t.pkg /\ t'.target = t.target
      /\ t'.todo = t.todo
  BY <1>1 DEF TypeOK, TargetType
<1> QED BY <1>2 DEF Return, TargetStep

\* The end of a delivery, or of a write transaction that is cancelled.
LEMMA EndDoes ==
  ASSUME use \in Uses, TypeOK, Sent \/ cancel_transaction
  PROVE  /\ t.pc \in {"sending", "begun", "write"}
         /\ t.pc \in {"sending", "begun"} => t.todo = {}
         /\ t' \in TargetType /\ t'.pc \in {"idle", "write"}
         /\ t'.pc = "write" => t.pc = "begun"
         /\ t'.todo = {} /\ t'.target = 0
         /\ TargetStep /\ posted' = posted
<1>1. CASE Sent
  <2>1. t' = [pc |-> IF t.pc = "begun" THEN "write" ELSE "idle", pkg |-> {}, target |-> 0,
              todo |-> {}, call |-> NoCall, ask |-> {}]
    BY <1>1 DEF Sent, Free
  <2>2. /\ t' \in TargetType /\ t'.pc \in {"idle", "write"} /\ t'.todo = {} /\ t'.target = 0
        /\ t'.pc = "write" => t.pc = "begun"
    BY <2>1, UseTyped DEF TargetType
  <2> QED BY <1>1, <2>2 DEF Sent, TargetStep
<1>2. CASE cancel_transaction
  <2>1. t' = [pc |-> "idle", pkg |-> {}, target |-> 0, todo |-> {}, call |-> NoCall, ask |-> {}]
    BY <1>2 DEF cancel_transaction, Free
  <2>2. t' \in TargetType /\ t'.pc = "idle" /\ t'.todo = {} /\ t'.target = 0
    BY <2>1, UseTyped DEF TargetType
  <2> QED BY <1>2, <2>2 DEF cancel_transaction, TargetStep
<1> QED BY <1>1, <1>2

LEMMA CallDoes ==
  ASSUME use \in Uses, TypeOK, NEW c \in Callbacks, Call(c)
  PROVE  /\ t.pc \in {"sending", "begun"} /\ c \in t.todo /\ cb[c].on
         /\ t' \in TargetType /\ t'.pc = t.pc /\ t'.pkg = t.pkg /\ t'.target = t.target
         /\ t'.todo = t.todo \ {c}
         /\ cb' \in [Callbacks -> CallbackType]
         /\ \A d \in Callbacks :
              /\ cb'[d].on = cb[d].on /\ cb'[d].acc = cb[d].acc /\ cb'[d].skip = cb[d].skip
              /\ cb'[d].hush = cb[d].hush
              /\ d # c => CallKept(d)
         /\ cb'[c].init = TRUE /\ cb'[c].told = realm
         /\ UNCHANGED <<latest, realm, nt, skip, w, wake, posted, adds>>
<1>1. t' = [t EXCEPT !.todo = @ \ {c}, !.call = c]
  BY DEF Call
<1>2. /\ t' \in TargetType /\ t'.pc = t.pc /\ t'.pkg = t.pkg /\ t'.target = t.target
      /\ t'.todo = t.todo \ {c}
  BY <1>1 DEF TypeOK, TargetType
<1>3. cb' = [cb EXCEPT ![c].init = TRUE, ![c].give = {}, ![c].told = realm]
  BY DEF Call
<1>4. realm \in 0 .. MaxVersion
  BY UseTyped DEF TypeOK, Versions
<1>5. /\ cb' \in [Callbacks -> CallbackType]
      /\ \A d \in Callbacks :
              /\ cb'[d].on = cb[d].on /\ cb'[d].acc = cb[d].acc /\ cb'[d].skip = cb[d].skip
              /\ cb'[d].hush = cb[d].hush
              /\ d # c => CallKept(d)
      /\ cb'[c].init = TRUE /\ cb'[c].told = realm
  BY <1>3, <1>4, ZenonT(40) DEF TypeOK, CallbackType, CallKept
<1> QED BY <1>2, <1>5 DEF Call

\* A delivery: a package for the notifiers ns, and the callbacks of ms to be called.
Delivery(pc, ns, ms) ==
  /\ nt' \in [Notifiers -> NotifierType] /\ cb' \in [Callbacks -> CallbackType]
  /\ \A n \in Notifiers : Kept(n)
  /\ Given(ns)
  /\ t' \in TargetType /\ t'.pc = pc /\ t'.todo = On(ms) /\ t'.target = 0
  /\ UNCHANGED <<latest, skip, w, wake, adds>>

LEMMA PromoteDoes ==
  ASSUME use \in Uses, TypeOK, PromoteToWrite
  PROVE  /\ t.pc = "promote" /\ Ready(t.pkg, t.target)
         /\ Delivery("begun", Packaged(t.pkg),
                     IF PackageVersions(Packaged(t.pkg), t.target) = {} THEN {}
                     ELSE Packaged(t.pkg))
         /\ realm' = latest /\ posted' = posted
<1> DEFINE ns == Packaged(t.pkg)
           ms == IF PackageVersions(ns, t.target) = {} THEN {} ELSE ns
<1>1. /\ t.pc = "promote" /\ Ready(t.pkg, t.target) /\ Package(ns) /\ realm' = latest
      /\ Deliver("begun", ms) /\ UNCHANGED <<latest, skip, w, wake, posted, adds>>
  BY DEF PromoteToWrite
<1> HIDE DEF ns, ms
<1>2. Delivery("begun", ns, ms)
  BY <1>1, PackageGives, DeliverDoes DEF Delivery
<1> QED BY <1>1, <1>2 DEF ns, ms

LEMMA AdvanceDoes ==
  ASSUME use \in Uses, TypeOK, advance_to_latest
  PROVE  /\ t.pc = "refresh" /\ Ready(t.pkg, t.target)
         /\ Delivery("sending", Packaged(t.pkg),
                     IF PackageVersions(Packaged(t.pkg), t.target) = {} THEN {}
                     ELSE Packaged(t.pkg))
         /\ realm' \in IF PackageVersions(Packaged(t.pkg), t.target) = {} THEN {latest}
                       ELSE PackageVersions(Packaged(t.pkg), t.target)
         /\ posted' = posted
<1> DEFINE ns == Packaged(t.pkg)
           vs == PackageVersions(ns, t.target)
           ms == IF vs = {} THEN {} ELSE ns
<1>1. /\ t.pc = "refresh" /\ Ready(t.pkg, t.target) /\ Package(ns)
      /\ realm' \in IF vs = {} THEN {latest} ELSE vs
      /\ Deliver("sending", ms) /\ UNCHANGED <<latest, skip, w, wake, posted, adds>>
  BY DEF advance_to_latest
<1> HIDE DEF ns, vs, ms
<1>2. Delivery("sending", ns, ms)
  BY <1>1, PackageGives, DeliverDoes DEF Delivery
<1>3. posted' = posted
  BY <1>1
<1> QED BY <1>1, <1>2, <1>3 DEF ns, vs, ms

\* The notifiers that are at the version the Realm reads.
AtRealm == {n \in Packaged(notifiers_for_realm) : nt[n].version = realm}

LEMMA ProcessDoes ==
  ASSUME use \in Uses, TypeOK, process_available_async
  PROVE  /\ t.pc = "idle" /\ realm = latest
         /\ Delivery("sending", AtRealm, AtRealm)
         /\ realm' = realm /\ posted' = FALSE
<1>1. /\ t.pc = "idle" /\ realm = latest /\ posted' = FALSE /\ Package(AtRealm)
      /\ Deliver("sending", AtRealm) /\ UNCHANGED <<latest, realm, skip, w, wake, adds>>
  BY DEF process_available_async, AtRealm
<1>2. Delivery("sending", AtRealm, AtRealm)
  BY <1>1, PackageGives, DeliverDoes DEF Delivery
<1> QED BY <1>1, <1>2

LEMMA ReadyDoes ==
  ASSUME use \in Uses, TypeOK, advance_to_ready
  PROVE  LET ns == Packaged(notifiers_for_realm) IN
         /\ t.pc = "idle" /\ posted' = FALSE
         /\ nt' \in [Notifiers -> NotifierType] /\ cb' \in [Callbacks -> CallbackType]
         /\ \A n \in Notifiers : Kept(n)
         /\ Given(ns)
         /\ UNCHANGED <<latest, skip, w, wake, adds>>
         /\ \/ ns = {} /\ realm' = latest /\ t' = t
            \/ realm' = realm /\ t' = t /\ \E n \in ns : nt[n].version < realm
            \/ /\ \E n \in ns : nt[n].version >= realm /\ realm' = nt[n].version
               /\ Delivery("sending", ns, ns)
<1> DEFINE ns == Packaged(notifiers_for_realm)
<1>1. /\ t.pc = "idle" /\ posted' = FALSE /\ Package(ns)
      /\ UNCHANGED <<latest, skip, w, wake, adds>>
      /\ \/ ns = {} /\ realm' = latest /\ t' = t
         \/ \E n \in ns : nt[n].version < realm /\ realm' = realm /\ t' = t
         \/ \E n \in ns : nt[n].version >= realm /\ realm' = nt[n].version
                          /\ Deliver("sending", ns)
  BY DEF advance_to_ready
<1> HIDE DEF ns
<1>2. /\ nt' \in [Notifiers -> NotifierType] /\ cb' \in [Callbacks -> CallbackType]
      /\ \A n \in Notifiers : Kept(n)
      /\ Given(ns)
  BY <1>1, PackageGives
<1>3. CASE ns = {} /\ realm' = latest /\ t' = t
  BY <1>1, <1>2, <1>3 DEF ns
<1>4. CASE \E n \in ns : nt[n].version < realm /\ realm' = realm /\ t' = t
  BY <1>1, <1>2, <1>4 DEF ns
<1>5. CASE \E n \in ns : nt[n].version >= realm /\ realm' = nt[n].version
                         /\ Deliver("sending", ns)
  <2>1. Delivery("sending", ns, ns)
    BY <1>1, <1>2, <1>5, DeliverDoes DEF Delivery
  <2> QED BY <1>1, <1>2, <1>5, <2>1 DEF ns
<1> QED BY <1>1, <1>3, <1>4, <1>5

LEMMA SuppressDoes ==
  ASSUME use \in Uses, TypeOK, NEW c \in Callbacks, suppress_next_notification(c)
  PROVE  /\ May("suppress") /\ t.pc = "write" /\ cb[c].on
         /\ t' \in TargetType /\ t'.pc = t.pc /\ t'.pkg = t.pkg /\ t'.target = t.target
         /\ t'.todo = t.todo /\ t'.ask = t.ask \cup {c}
         /\ cb' \in [Callbacks -> CallbackType]
         /\ \A d \in Callbacks :
              /\ cb'[d].on = cb[d].on /\ cb'[d].acc = cb[d].acc
              /\ ToldKept(d)
              /\ d # c => CallKept(d)
         /\ UNCHANGED <<latest, realm, nt, skip, w, wake, posted, adds>>
<1>1. t' = [t EXCEPT !.ask = @ \cup {c}]
  BY DEF suppress_next_notification
<1>2. /\ t' \in TargetType /\ t'.pc = t.pc /\ t'.pkg = t.pkg /\ t'.target = t.target
      /\ t'.todo = t.todo /\ t'.ask = t.ask \cup {c}
  BY <1>1 DEF TypeOK, TargetType
<1>3. cb' = [cb EXCEPT ![c].skip = TRUE]
  BY DEF suppress_next_notification
<1>4. /\ cb' \in [Callbacks -> CallbackType]
      /\ \A d \in Callbacks :
              /\ cb'[d].on = cb[d].on /\ cb'[d].acc = cb[d].acc
              /\ ToldKept(d)
              /\ d # c => CallKept(d)
  BY <1>3 DEF TypeOK, CallbackType, CallKept, ToldKept
<1> QED BY <1>2, <1>4 DEF suppress_next_notification

LEMMA CommitDoes ==
  ASSUME use \in Uses, TypeOK, commit_write
  PROVE  /\ t.pc = "write" /\ latest' = latest + 1 /\ realm' = latest + 1
         /\ latest' \in Versions
         /\ skip' = IF HaveNotifiers THEN latest + 1 ELSE skip
         /\ t' \in TargetType /\ t'.pc = "idle" /\ t'.todo = {} /\ t'.target = 0
         /\ cb' \in [Callbacks -> CallbackType] /\ \A c \in Callbacks : CallKept(c)
         /\ \A c \in t.ask : c \in Callbacks => latest + 1 \in cb'[c].hush
         /\ wake' = TRUE
         /\ UNCHANGED <<nt, w, posted, adds>>
<1>1. t' = [pc |-> "idle", pkg |-> {}, target |-> 0, todo |-> {}, call |-> NoCall, ask |-> {}]
  BY DEF commit_write, Free
<1>2. t' \in TargetType /\ t'.pc = "idle" /\ t'.todo = {} /\ t'.target = 0
  BY <1>1, UseTyped DEF TargetType
<1>3. latest + 1 \in Versions
  BY UseTyped DEF commit_write, TypeOK, Versions
<1>4. cb' = [c \in Callbacks |->
        IF c \in t.ask THEN [cb[c] EXCEPT !.hush = @ \cup {latest + 1}] ELSE cb[c]]
  BY DEF commit_write
<1>5. cb' \in [Callbacks -> CallbackType] /\ \A c \in Callbacks : CallKept(c)
  BY <1>3, <1>4 DEF TypeOK, CallbackType, CallKept
<1>6. \A c \in t.ask : c \in Callbacks => latest + 1 \in cb'[c].hush
  BY <1>4 DEF TypeOK, CallbackType
<1> QED BY <1>2, <1>3, <1>5, <1>6 DEF commit_write

\* A commit by a callback, or by another thread or process.
LEMMA OtherCommitDoes ==
  ASSUME use \in Uses, TypeOK, NestedWrite \/ ForeignCommit
  PROVE  /\ t.pc \notin {"promote", "begun", "write"}
         /\ latest' = latest + 1 /\ latest' \in Versions
         /\ \/ /\ May("nest") /\ realm' = latest + 1
               /\ skip' = IF HaveNotifiers THEN latest + 1 ELSE skip
            \/ realm' = realm /\ skip' = skip
         /\ wake' = TRUE
         /\ UNCHANGED <<nt, cb, w, t, posted, adds>>
<1>1. latest < MaxVersion => latest + 1 \in Versions
  BY UseTyped DEF TypeOK, Versions
<1>2. CASE NestedWrite
  BY <1>1, <1>2 DEF NestedWrite
<1>3. CASE ForeignCommit
  BY <1>1, <1>3 DEF ForeignCommit
<1> QED BY <1>2, <1>3

LEMMA NewTyped ==
  ASSUME use \in Uses, TypeOK
  PROVE  /\ New \in NotifierType
         /\ New.place = "new" /\ New.alive = TRUE /\ New.version = realm
         /\ New.ran = FALSE /\ New.change = {}
<1>1. realm \in 0 .. MaxVersion /\ 0 \in 0 .. MaxVersion
  BY UseTyped DEF TypeOK, Versions
<1>2. NoNotifier \in NotifierType /\ NoNotifier.ran = FALSE /\ NoNotifier.change = {}
  BY <1>1 DEF NoNotifier, NotifierType
<1> QED BY <1>1, <1>2 DEF New, NotifierType

\* A notifier is created.
Created(m) ==
  /\ nt[m].place = "none"
  /\ nt' \in [Notifiers -> NotifierType]
  /\ \A n \in Notifiers : n # m => Kept(n)
  /\ nt'[m].place = "new" /\ nt'[m].alive = TRUE /\ nt'[m].version = realm
  /\ nt'[m].ran = FALSE /\ nt'[m].change = {}

LEMMA CreatedByNew ==
  ASSUME use \in Uses, TypeOK, NEW m \in Notifiers, nt[m].place = "none",
         nt' = [nt EXCEPT ![m] = New]
  PROVE  Created(m)
BY NewTyped DEF Created, Kept, TypeOK

\* A callback has just been added, or removed.
Reset(c, on) ==
  /\ cb' \in [Callbacks -> CallbackType]
  /\ cb'[c].on = on /\ cb'[c].init = FALSE /\ cb'[c].skip = FALSE /\ cb'[c].acc = {}
  /\ \A d \in Callbacks : d # c => CallKept(d)

LEMMA ResetTyped ==
  ASSUME use \in Uses, TypeOK, NEW c \in Callbacks, NEW on \in BOOLEAN,
         cb' = [cb EXCEPT ![c] = [NoCallback EXCEPT !.on = on]]
  PROVE  Reset(c, on)
<1>1. 0 \in 0 .. MaxVersion
  BY UseTyped
<1>2. /\ NoCallback \in CallbackType /\ NoCallback.init = FALSE
      /\ NoCallback.skip = FALSE /\ NoCallback.acc = {}
  BY <1>1 DEF NoCallback, CallbackType
<1>3. /\ [NoCallback EXCEPT !.on = on] \in CallbackType
      /\ [NoCallback EXCEPT !.on = on].on = on
      /\ [NoCallback EXCEPT !.on = on].init = FALSE
      /\ [NoCallback EXCEPT !.on = on].skip = FALSE
      /\ [NoCallback EXCEPT !.on = on].acc = {}
  BY <1>2 DEF CallbackType
<1> QED BY <1>3 DEF Reset, CallKept, TypeOK

LEMMA AddDoes ==
  ASSUME use \in Uses, TypeOK, NEW c \in Callbacks, add_notification_callback(c)
  PROVE  /\ ~cb[c].on /\ Reset(c, TRUE)
         /\ Orderly => t.pc \in {"idle", "write"}
         /\ \/ Created(Of[c]) /\ t.pc \in {"idle", "sending"}
            \/ /\ nt[Of[c]].place # "none" /\ nt[Of[c]].alive /\ nt' = nt
               /\ Orderly => have_callbacks(Of[c])
         /\ wake' \in BOOLEAN /\ adds' \in 0 .. MaxAdds
         /\ UNCHANGED <<latest, realm, skip, w, t, posted>>
<1>1. Reset(c, TRUE)
  BY ResetTyped DEF add_notification_callback
<1>2. Orderly => t.pc \in {"idle", "write"}
  BY UseTyped DEF add_notification_callback, AtUser
<1>3. \/ Created(Of[c]) /\ t.pc \in {"idle", "sending"}
      \/ /\ nt[Of[c]].place # "none" /\ nt[Of[c]].alive /\ nt' = nt
         /\ Orderly => have_callbacks(Of[c])
  <2>1. Of[c] \in Notifiers
    BY UseTyped
  <2>2. \/ nt[Of[c]].place = "none" /\ CanRegister /\ nt' = [nt EXCEPT ![Of[c]] = New]
        \/ nt[Of[c]].place # "none" /\ nt[Of[c]].alive /\ nt' = nt
           /\ (May("reobserve") \/ have_callbacks(Of[c]))
    BY DEF add_notification_callback
  <2>3. CASE nt[Of[c]].place = "none" /\ CanRegister /\ nt' = [nt EXCEPT ![Of[c]] = New]
    BY <2>1, <2>3, CreatedByNew DEF CanRegister
  <2>4. CASE nt[Of[c]].place # "none" /\ nt[Of[c]].alive /\ nt' = nt
             /\ (May("reobserve") \/ have_callbacks(Of[c]))
    BY <2>4, UseTyped
  <2> QED BY <2>2, <2>3, <2>4
<1>4. wake' \in {wake, TRUE}
  BY DEF add_notification_callback, Signals
<1>5. wake' \in BOOLEAN
  BY <1>4 DEF TypeOK
<1>6. adds' \in 0 .. MaxAdds
  BY NotificationsAssumption DEF add_notification_callback, TypeOK
<1> QED BY <1>1, <1>2, <1>3, <1>5, <1>6 DEF add_notification_callback

LEMMA RemoveDoes ==
  ASSUME use \in Uses, TypeOK, NEW c \in Callbacks, remove_callback(c)
  PROVE  /\ Reset(c, FALSE)
         /\ t' \in TargetType /\ t'.pc = t.pc /\ t'.pkg = t.pkg /\ t'.target = t.target
         /\ t'.todo = t.todo \ {c} /\ t'.ask = t.ask \ {c}
         /\ UNCHANGED <<latest, realm, nt, skip, w, wake, posted, adds>>
<1>1. t' = [t EXCEPT !.ask = @ \ {c}, !.todo = @ \ {c}]
  BY DEF remove_callback
<1>2. /\ t' \in TargetType /\ t'.pc = t.pc /\ t'.pkg = t.pkg /\ t'.target = t.target
      /\ t'.todo = t.todo \ {c} /\ t'.ask = t.ask \ {c}
  BY <1>1 DEF TypeOK, TargetType
<1>3. /\ NoCallback \in CallbackType /\ NoCallback.on = FALSE /\ NoCallback.init = FALSE
      /\ NoCallback.skip = FALSE /\ NoCallback.acc = {}
  BY UseTyped DEF NoCallback, CallbackType
<1>4. cb' = [cb EXCEPT ![c] = NoCallback]
  BY DEF remove_callback
<1>5. Reset(c, FALSE)
  BY <1>3, <1>4 DEF Reset, CallKept, TypeOK
<1> QED BY <1>2, <1>5 DEF remove_callback

\* A notifier loses its collection.
Buried(m) ==
  /\ nt' \in [Notifiers -> NotifierType]
  /\ \A n \in Notifiers :
       /\ nt'[n].place = nt[n].place /\ nt'[n].version = nt[n].version
       /\ nt'[n].ran = nt[n].ran /\ nt'[n].rows = nt[n].rows
       /\ nt'[n].change = nt[n].change
       /\ n # m => nt'[n].alive = nt[n].alive
  /\ nt'[m].alive = FALSE

LEMMA UnregisterDoes ==
  ASSUME use \in Uses, TypeOK, NEW m \in Notifiers, unregister(m)
  PROVE  /\ ~have_callbacks(m) /\ Buried(m)
         /\ UNCHANGED <<latest, realm, cb, skip, w, t, wake, posted, adds>>
<1>1. nt' = [nt EXCEPT ![m].alive = FALSE]
  BY DEF unregister
<1>2. Buried(m)
  BY <1>1, ZenonT(40) DEF TypeOK, NotifierType, Buried
<1> QED BY <1>2 DEF unregister

LEMMA ReadDoes ==
  ASSUME use \in Uses, TypeOK, NEW m \in Notifiers, get_tableview(m)
  PROVE  /\ nt' \in [Notifiers -> NotifierType] /\ \A n \in Notifiers : Kept(n)
         /\ UNCHANGED <<latest, realm, cb, skip, w, t, wake, posted, adds>>
<1>1. nt' = [nt EXCEPT ![m].delivered = FALSE]
  BY DEF get_tableview
<1>2. nt' \in [Notifiers -> NotifierType] /\ \A n \in Notifiers : Kept(n)
  BY <1>1, ZenonT(40) DEF TypeOK, NotifierType, Kept
<1> QED BY <1>2 DEF get_tableview

-----------------------------------------------------------------------------
(* Every step keeps the types                                              *)

LEMMA TypesKept ==
  ASSUME NotifyInv, Next
  PROVE  TypeOK'
<1>1. use \in Uses /\ use' = use /\ TypeOK /\ CallbacksWatched
  BY DEF NotifyInv, Next
<1>2. SUFFICES
        /\ latest' \in Versions /\ realm' \in Versions /\ skip' \in 0 .. MaxVersion
        /\ nt' \in [Notifiers -> NotifierType] /\ cb' \in [Callbacks -> CallbackType]
        /\ w' \in WorkerType /\ t' \in TargetType
        /\ wake' \in BOOLEAN /\ posted' \in BOOLEAN /\ adds' \in 0 .. MaxAdds
  BY <1>1, UseKept DEF TypeOK
<1>3. CASE Collect
  BY <1>1, <1>3, CollectDoes DEF TypeOK
<1>4. CASE \E m \in Notifiers : run(m)
  BY <1>1, <1>4, RunDoes DEF TypeOK
<1>5. CASE SkipHandover
  BY <1>1, <1>5, SkipHandoverDoes DEF TypeOK
<1>6. CASE Handover
  <2>1. Idle \in WorkerType
    BY <1>1, UseTyped DEF Idle, WorkerType
  <2>2. posted' \in BOOLEAN
    BY <1>1, <1>6, HandoverDoes
  <2> QED BY <1>1, <1>6, <2>1, <2>2, HandoverDoes DEF TypeOK
<1>7. CASE begin_transaction \/ refresh
  BY <1>1, <1>7, BeginDoes DEF TypeOK
<1>8. CASE PromoteToWrite
  BY <1>1, <1>8, PromoteDoes DEF TypeOK, Delivery
<1>9. CASE advance_to_latest
  <2>1. realm' \in Versions
    <3>1. \A n \in Packaged(t.pkg) : n \in Notifiers /\ nt[n].ran
      BY <1>1 DEF Packaged, TypeOK, TargetType
    <3>2. realm' = latest \/ \E n \in Packaged(t.pkg) : realm' = nt[n].version
      BY <1>1, <1>9, AdvanceDoes DEF PackageVersions
    <3>3. \A n \in Packaged(t.pkg) : nt[n].version \in Versions
      <4>1. \A n \in Packaged(t.pkg) : nt[n].version \in 0 .. MaxVersion /\ nt[n].version > 0
        BY <1>1, <3>1 DEF NotifyInv, VersionsInOrder, PlacesKept, TypeOK, NotifierType
      <4> QED BY <1>1, <4>1, UseTyped DEF Versions
    <3> QED BY <1>1, <3>2, <3>3 DEF TypeOK
  <2> QED BY <1>1, <1>9, <2>1, AdvanceDoes DEF TypeOK, Delivery
<1>10. CASE process_available_async
  BY <1>1, <1>10, ProcessDoes DEF TypeOK, Delivery
<1>11. CASE advance_to_ready
  <2>1. realm' \in Versions
    <3>1. \A n \in Packaged(notifiers_for_realm) :
            nt[n].version \in 0 .. MaxVersion /\ nt[n].version > 0
      BY <1>1 DEF Packaged, notifiers_for_realm, NotifyInv, VersionsInOrder, TypeOK,
                  NotifierType
    <3>2. \A n \in Packaged(notifiers_for_realm) : nt[n].version \in Versions
      BY <1>1, <3>1, UseTyped DEF Versions
    <3> QED BY <1>1, <1>11, <3>2, ReadyDoes DEF TypeOK
  <2> QED BY <1>1, <1>11, <2>1, ReadyDoes DEF TypeOK, Delivery
<1>12. CASE \E c \in Callbacks : PassOver(c)
  BY <1>1, <1>12, PassOverDoes DEF TypeOK, TargetStep
<1>13. CASE \E c \in Callbacks : Call(c)
  BY <1>1, <1>13, CallDoes DEF TypeOK
<1>14. CASE Return
  BY <1>1, <1>14, ReturnDoes DEF TypeOK, TargetStep
<1>15. CASE Sent \/ cancel_transaction
  BY <1>1, <1>15, EndDoes DEF TypeOK, TargetStep
<1>16. CASE NotifyInWrite
  BY <1>1, <1>16 DEF TypeOK, NotifyInWrite
<1>17. CASE \E c \in Callbacks : suppress_next_notification(c)
  BY <1>1, <1>17, SuppressDoes DEF TypeOK
<1>18. CASE commit_write
  <2>1. skip' \in 0 .. MaxVersion
    <3>1. skip' = latest' \/ skip' = skip
      BY <1>1, <1>18, CommitDoes
    <3>2. latest' \in Versions
      BY <1>1, <1>18, CommitDoes
    <3> QED BY <1>1, <3>1, <3>2, UseTyped DEF TypeOK, Versions
  <2> QED BY <1>1, <1>18, <2>1, CommitDoes DEF TypeOK
<1>19. CASE NestedWrite \/ ForeignCommit
  <2>1. skip' \in 0 .. MaxVersion
    <3>1. skip' = latest' \/ skip' = skip
      BY <1>1, <1>19, OtherCommitDoes
    <3>2. latest' \in Versions
      BY <1>1, <1>19, OtherCommitDoes
    <3> QED BY <1>1, <3>1, <3>2, UseTyped DEF TypeOK, Versions
  <2> QED BY <1>1, <1>19, <2>1, OtherCommitDoes DEF TypeOK
<1>20. CASE \E n \in Notifiers : prepare_async(n)
  BY <1>1, <1>20, CreatedByNew DEF TypeOK, prepare_async, Created
<1>21. CASE \E c \in Callbacks : add_notification_callback(c)
  BY <1>1, <1>21, AddDoes DEF TypeOK, Created, Reset
<1>22. CASE \E c \in Callbacks : remove_callback(c)
  BY <1>1, <1>22, RemoveDoes DEF TypeOK, Reset
<1>23. CASE \E n \in Notifiers : unregister(n)
  BY <1>1, <1>23, UnregisterDoes DEF TypeOK, Buried
<1>24. CASE \E n \in Notifiers : get_tableview(n)
  BY <1>1, <1>24, ReadDoes DEF TypeOK
<1> QED
  BY <1>3, <1>4, <1>5, <1>6, <1>7, <1>8, <1>9, <1>10, <1>11, <1>12, <1>13, <1>14, <1>15,
     <1>16, <1>17, <1>18, <1>19, <1>20, <1>21, <1>22, <1>23, <1>24
     DEF Next, Worker, Sending, User

-----------------------------------------------------------------------------
(* The worker and the notifiers                                            *)

\* What a step that is not the worker's does to the notifiers: nothing, or one is
\* created, or one without callbacks loses its collection.
NotifierStep ==
  /\ w' = w
  /\ \/ \A n \in Notifiers : Kept(n)
     \/ \E m \in Notifiers : Created(m)
     \/ \E m \in Notifiers : ~have_callbacks(m) /\ Buried(m)

LEMMA WorkerOrNotifierStep ==
  ASSUME NotifyInv, Next
  PROVE  Worker \/ NotifierStep
<1>1. use \in Uses /\ use' = use /\ TypeOK
  BY DEF NotifyInv, Next
<1>2. \A c \in Callbacks : Of[c] \in Notifiers
  BY <1>1, UseTyped
<1>3. CASE begin_transaction \/ refresh
  BY <1>1, <1>3, BeginDoes DEF NotifierStep, Kept
<1>4. CASE PromoteToWrite
  BY <1>1, <1>4, PromoteDoes DEF NotifierStep, Delivery
<1>5. CASE advance_to_latest
  BY <1>1, <1>5, AdvanceDoes DEF NotifierStep, Delivery
<1>6. CASE process_available_async
  BY <1>1, <1>6, ProcessDoes DEF NotifierStep, Delivery
<1>7. CASE advance_to_ready
  BY <1>1, <1>7, ReadyDoes DEF NotifierStep
<1>8. CASE \E c \in Callbacks : PassOver(c)
  BY <1>1, <1>8, PassOverDoes DEF NotifierStep, Kept, TargetStep
<1>9. CASE \E c \in Callbacks : Call(c)
  BY <1>1, <1>9, CallDoes DEF NotifierStep, Kept
<1>10. CASE Return
  BY <1>1, <1>10, ReturnDoes DEF NotifierStep, Kept, TargetStep
<1>11. CASE Sent \/ cancel_transaction
  BY <1>1, <1>11, EndDoes DEF NotifierStep, Kept, TargetStep
<1>12. CASE NotifyInWrite
  BY <1>12 DEF NotifyInWrite, NotifierStep, Kept
<1>13. CASE \E c \in Callbacks : suppress_next_notification(c)
  BY <1>1, <1>13, SuppressDoes DEF NotifierStep, Kept
<1>14. CASE commit_write
  BY <1>1, <1>14, CommitDoes DEF NotifierStep, Kept
<1>15. CASE NestedWrite \/ ForeignCommit
  BY <1>1, <1>15, OtherCommitDoes DEF NotifierStep, Kept
<1>16. CASE \E n \in Notifiers : prepare_async(n)
  BY <1>1, <1>16, CreatedByNew DEF prepare_async, NotifierStep
<1>17. CASE \E c \in Callbacks : add_notification_callback(c)
  BY <1>1, <1>2, <1>17, AddDoes DEF NotifierStep, Kept
<1>18. CASE \E c \in Callbacks : remove_callback(c)
  BY <1>1, <1>18, RemoveDoes DEF NotifierStep, Kept
<1>19. CASE \E n \in Notifiers : unregister(n)
  BY <1>1, <1>19, UnregisterDoes DEF NotifierStep
<1>20. CASE \E n \in Notifiers : get_tableview(n)
  BY <1>1, <1>20, ReadDoes DEF NotifierStep
<1> QED
  BY <1>3, <1>4, <1>5, <1>6, <1>7, <1>8, <1>9, <1>10, <1>11, <1>12, <1>13, <1>14, <1>15,
     <1>16, <1>17, <1>18, <1>19, <1>20
     DEF Next, Sending, User

\* The worker knows all the notifiers that were called in, and those that have run
\* are at one version.
LEMMA WorkerKept ==
  ASSUME NotifyInv, Next
  PROVE  PlacesKept' /\ WorkerHasAll' /\ SameVersion' /\ SkipOnTheWay'
<1>1. /\ use \in Uses /\ use' = use /\ TypeOK /\ CallbacksWatched
      /\ PlacesKept /\ WorkerHasAll /\ SameVersion /\ VersionsInOrder
      /\ SkipOnTheWay /\ SkipHasNotifiers
  BY DEF NotifyInv, Next
<1>2. Notifiers' = Notifiers
  BY <1>1, UseKept
<1>3. CASE Collect
  <2>1. Fresh \cup Living \subseteq Notifiers
    BY DEF Fresh, Living, Main
  <2>2. PlacesKept'
    BY <1>1, <1>2, <1>3, CollectDoes DEF PlacesKept
  <2>3. \A n \in Main : nt[n].ran
    BY <1>1, <1>3, CollectDoes DEF WorkerHasAll, Main
  <2>4. Main' = Fresh \cup Living
    BY <1>1, <1>2, <1>3, CollectDoes DEF Main, Fresh, Living
  <2>5. WorkerHasAll'
    <3>1. \A n \in Notifiers : nt'[n].place = "main" <=> n \in Fresh \cup Living
      BY <1>2, <2>4 DEF Main
    <3>2. \A n \in Notifiers : nt'[n].ran = nt[n].ran
      BY <1>1, <1>3, CollectDoes
    <3>3. /\ \A n \in Living : nt[n].ran
          /\ \A n \in Fresh : ~nt[n].ran
      BY <1>1, <2>3 DEF Living, Fresh, PlacesKept
    <3>4. CASE w' = w /\ Fresh \cup Living = {}
      BY <1>1, <1>2, <1>3, <3>1, <3>4, CollectDoes DEF WorkerHasAll
    <3>5. CASE /\ w'.new = Fresh /\ w'.old = Living
               /\ IF w'.skip # 0 THEN w'.pc = "skip" /\ w'.todo = Living
                                 ELSE w'.pc = "run" /\ w'.todo = Fresh \cup Living
      BY <1>2, <3>1, <3>2, <3>3, <3>5 DEF WorkerHasAll
    <3> QED BY <1>1, <1>3, <3>4, <3>5, CollectDoes
  <2>6. SameVersion'
    BY <1>1, <1>2, <1>3, CollectDoes DEF SameVersion, Ran, PlacesKept
  <2>7. SkipOnTheWay'
    BY <1>1, <1>3, CollectDoes DEF SkipOnTheWay, SkipHasNotifiers, VersionsInOrder
  <2> QED BY <2>2, <2>5, <2>6, <2>7
<1>4. ASSUME NEW m \in Notifiers, run(m)
      PROVE  PlacesKept' /\ WorkerHasAll' /\ SameVersion' /\ SkipOnTheWay'
  <2>1. PlacesKept'
    BY <1>1, <1>2, <1>4, RunDoes DEF PlacesKept, WorkerHasAll
  <2>2. WorkerHasAll'
    BY <1>1, <1>2, <1>4, RunDoes DEF WorkerHasAll, Main
  <2>3. SameVersion'
    BY <1>1, <1>2, <1>4, RunDoes DEF SameVersion, Ran
  <2>4. SkipOnTheWay'
    BY <1>1, <1>4, RunDoes DEF SkipOnTheWay
  <2> QED BY <2>1, <2>2, <2>3, <2>4
<1>5. CASE SkipHandover
  <2>1. /\ \A n \in Notifiers :
             /\ nt[n].place = "main" <=> n \in w.new \cup w.old
             /\ n \in w.old => nt[n].ran
             /\ n \in w.new => ~nt[n].ran
        /\ w'.pc = "run" /\ w'.todo = w.new \cup w.old /\ w'.new = w.new /\ w'.old = w.old
    BY <1>1, <1>5, SkipHandoverDoes DEF WorkerHasAll
  <2>2. \A n \in Notifiers :
          /\ nt'[n].place = nt[n].place /\ nt'[n].alive = nt[n].alive
          /\ nt'[n].version = IF n \in w.old THEN w.skip ELSE nt[n].version
          /\ nt'[n].change = IF n \in w.old THEN {} ELSE nt[n].change
          /\ n \in w.old => nt'[n].ran = TRUE
          /\ n \notin w.old => nt'[n].ran = nt[n].ran
    BY <1>1, <1>5, SkipHandoverDoes
  <2>3. PlacesKept'
    BY <1>1, <1>2, <2>1, <2>2 DEF PlacesKept
  <2>5. WorkerHasAll'
    BY <1>2, <2>1, <2>2 DEF WorkerHasAll
  <2>6. SameVersion'
    BY <1>2, <2>1, <2>2 DEF SameVersion, Ran
  <2>4. SkipOnTheWay'
    BY <1>1, <1>5, SkipHandoverDoes DEF SkipOnTheWay, Idle
  <2> QED BY <2>3, <2>4, <2>5, <2>6
<1>6. CASE Handover
  <2>1. /\ \A n \in Notifiers : nt[n].place = "main" <=> n \in w.new \cup w.old
        /\ w'.pc = "idle"
    BY <1>1, <1>6, HandoverDoes DEF WorkerHasAll, Idle
  <2>2. \A n \in Notifiers :
          /\ nt'[n].place = IF nt[n].place \in {"new", "main"} /\ ~nt[n].alive
                            THEN "gone" ELSE nt[n].place
          /\ nt'[n].alive = nt[n].alive
          /\ nt'[n].version = IF n \in w.new \cup w.old THEN w.version ELSE nt[n].version
          /\ nt'[n].change = IF n \in w.new \cup w.old THEN {} ELSE nt[n].change
          /\ n \in w.new \cup w.old => nt'[n].ran = TRUE
          /\ n \notin w.new \cup w.old => nt'[n].ran = nt[n].ran
    BY <1>1, <1>6, HandoverDoes
  <2>3. PlacesKept'
    BY <1>1, <1>2, <2>1, <2>2 DEF PlacesKept
  <2>5. WorkerHasAll'
    BY <1>2, <2>1, <2>2 DEF WorkerHasAll
  <2>6. SameVersion'
    BY <1>2, <2>1, <2>2 DEF SameVersion, Ran
  <2>4. SkipOnTheWay'
    BY <1>1, <1>6, HandoverDoes DEF SkipOnTheWay, Idle
  <2> QED BY <2>3, <2>4, <2>5, <2>6
<1>7. CASE NotifierStep
  <2>1. w' = w
    BY <1>7 DEF NotifierStep
  <2>2. SkipOnTheWay'
    BY <1>1, <2>1 DEF SkipOnTheWay
  <2>3. CASE \A n \in Notifiers : Kept(n)
    <3>1. PlacesKept'
      BY <1>1, <1>2, <2>3 DEF PlacesKept, Kept
    <3>2. WorkerHasAll'
      BY <1>1, <1>2, <2>1, <2>3 DEF WorkerHasAll, Main, Kept
    <3>3. SameVersion'
      BY <1>1, <1>2, <2>3 DEF SameVersion, Ran, Kept
    <3> QED BY <2>2, <3>1, <3>2, <3>3
  <2>4. ASSUME NEW m \in Notifiers, Created(m)
        PROVE  PlacesKept' /\ WorkerHasAll' /\ SameVersion'
    <3>1. PlacesKept'
      BY <1>1, <1>2, <2>4 DEF PlacesKept, Kept, Created
    <3>2. WorkerHasAll'
      BY <1>1, <1>2, <2>1, <2>4 DEF WorkerHasAll, Main, Kept, Created
    <3>3. SameVersion'
      BY <1>1, <1>2, <2>4 DEF SameVersion, Ran, Kept, Created
    <3> QED BY <2>2, <3>1, <3>2, <3>3
  <2>5. ASSUME NEW m \in Notifiers, Buried(m)
        PROVE  PlacesKept' /\ WorkerHasAll' /\ SameVersion'
    <3>1. PlacesKept'
      BY <1>1, <1>2, <2>5 DEF PlacesKept, Buried
    <3>2. WorkerHasAll'
      BY <1>1, <1>2, <2>1, <2>5 DEF WorkerHasAll, Main, Buried
    <3>3. SameVersion'
      BY <1>1, <1>2, <2>5 DEF SameVersion, Ran, Buried
    <3> QED BY <2>2, <3>1, <3>2, <3>3
  <2> QED BY <1>7, <2>2, <2>3, <2>4, <2>5 DEF NotifierStep
<1> QED BY <1>3, <1>4, <1>5, <1>6, <1>7, WorkerOrNotifierStep DEF Worker

LEMMA Numbers ==
  ASSUME use \in Uses, TypeOK
  PROVE  /\ latest \in Nat /\ realm \in Nat /\ skip \in Nat
         /\ w.version \in Nat /\ w.skip \in Nat /\ t.target \in Nat
         /\ \A n \in Notifiers : nt[n].version \in Nat /\ nt[n].rows \in Nat
         /\ \A c \in Callbacks : cb[c].told \in Nat
<1>1. \A v : v \in 0 .. MaxVersion \/ v \in Versions => v \in Nat
  BY UseTyped DEF Versions
<1> QED BY <1>1 DEF TypeOK, NotifierType, WorkerType, TargetType, CallbackType

\* What a step that is not the worker's does to the numbers.
NumberStep ==
  /\ latest' \in Nat /\ latest' >= latest /\ realm' <= latest' /\ t'.target <= latest'
  /\ skip' = skip \/ (skip' = latest' /\ latest' > latest /\ HaveNotifiers)

LEMMA WorkerOrNumberStep ==
  ASSUME NotifyInv, Next
  PROVE  Worker \/ NumberStep
<1>1. use \in Uses /\ use' = use /\ TypeOK /\ VersionsInOrder
  BY DEF NotifyInv, Next
<1>2. /\ latest \in Nat /\ realm \in Nat /\ t.target \in Nat
      /\ \A n \in Notifiers : nt[n].version \in Nat
      /\ latest + 1 > latest /\ latest >= latest /\ latest + 1 >= latest
      /\ latest <= latest /\ 0 <= latest /\ realm <= latest /\ t.target <= latest
  BY <1>1, Numbers DEF VersionsInOrder
<1>3. CASE begin_transaction \/ refresh
  BY <1>1, <1>2, <1>3, BeginDoes DEF NumberStep
<1>4. CASE PromoteToWrite
  BY <1>1, <1>2, <1>4, PromoteDoes DEF NumberStep, Delivery
<1>5. CASE advance_to_latest
  <2>1. Packaged(t.pkg) \subseteq Notifiers
    BY <1>1 DEF Packaged, TypeOK, TargetType
  <2>2. realm' = latest \/ \E n \in Packaged(t.pkg) : realm' = nt[n].version
    BY <1>1, <1>5, AdvanceDoes DEF PackageVersions
  <2>3. realm' <= latest
    BY <1>1, <1>2, <2>1, <2>2 DEF VersionsInOrder
  <2> QED BY <1>1, <1>2, <1>5, <2>3, AdvanceDoes DEF NumberStep, Delivery
<1>6. CASE process_available_async
  BY <1>1, <1>2, <1>6, ProcessDoes DEF NumberStep, Delivery
<1>7. CASE advance_to_ready
  <2>1. Packaged(notifiers_for_realm) \subseteq Notifiers
    BY DEF Packaged, notifiers_for_realm
  <2>2. /\ \/ realm' = latest \/ realm' = realm
           \/ \E n \in Packaged(notifiers_for_realm) : realm' = nt[n].version
        /\ t'.target = t.target \/ t'.target = 0
        /\ latest' = latest /\ skip' = skip
    BY <1>1, <1>7, ReadyDoes DEF Delivery
  <2>3. realm' <= latest
    BY <1>1, <1>2, <2>1, <2>2 DEF VersionsInOrder
  <2> QED BY <1>2, <2>2, <2>3 DEF NumberStep
<1>8. CASE \E c \in Callbacks : PassOver(c)
  BY <1>1, <1>2, <1>8, PassOverDoes DEF NumberStep, TargetStep
<1>9. CASE \E c \in Callbacks : Call(c)
  BY <1>1, <1>2, <1>9, CallDoes DEF NumberStep
<1>10. CASE Return
  BY <1>1, <1>2, <1>10, ReturnDoes DEF NumberStep, TargetStep
<1>11. CASE Sent \/ cancel_transaction
  BY <1>1, <1>2, <1>11, EndDoes DEF NumberStep, TargetStep
<1>12. CASE NotifyInWrite
  BY <1>2, <1>12 DEF NotifyInWrite, NumberStep
<1>13. CASE \E c \in Callbacks : suppress_next_notification(c)
  BY <1>1, <1>2, <1>13, SuppressDoes DEF NumberStep
<1>14. CASE commit_write
  BY <1>1, <1>2, <1>14, CommitDoes DEF NumberStep
<1>15. CASE NestedWrite \/ ForeignCommit
  <2>1. realm <= latest + 1 /\ t.target <= latest + 1 /\ latest + 1 <= latest + 1
    BY <1>2
  <2>2. /\ latest' = latest + 1 /\ t' = t
        /\ realm' = latest + 1 \/ realm' = realm
        /\ skip' = skip \/ (skip' = latest' /\ HaveNotifiers)
    BY <1>1, <1>15, OtherCommitDoes
  <2> QED BY <1>2, <2>1, <2>2 DEF NumberStep
<1>16. CASE \E n \in Notifiers : prepare_async(n)
  BY <1>2, <1>16 DEF prepare_async, NumberStep
<1>17. CASE \E c \in Callbacks : add_notification_callback(c)
  BY <1>1, <1>2, <1>17, AddDoes DEF NumberStep
<1>18. CASE \E c \in Callbacks : remove_callback(c)
  BY <1>1, <1>2, <1>18, RemoveDoes DEF NumberStep
<1>19. CASE \E n \in Notifiers : unregister(n)
  BY <1>1, <1>2, <1>19, UnregisterDoes DEF NumberStep
<1>20. CASE \E n \in Notifiers : get_tableview(n)
  BY <1>1, <1>2, <1>20, ReadDoes DEF NumberStep
<1> QED
  BY <1>3, <1>4, <1>5, <1>6, <1>7, <1>8, <1>9, <1>10, <1>11, <1>12, <1>13, <1>14, <1>15,
     <1>16, <1>17, <1>18, <1>19, <1>20
     DEF Next, Sending, User

\* Versions go up, and the worker is asked to stop only where there is somebody.
LEMMA VersionsKept ==
  ASSUME NotifyInv, Next
  PROVE  VersionsInOrder' /\ SkipHasNotifiers'
<1>1. /\ use \in Uses /\ use' = use /\ TypeOK /\ CallbacksWatched
      /\ PlacesKept /\ WorkerHasAll /\ SameVersion /\ VersionsInOrder
      /\ SkipOnTheWay /\ SkipHasNotifiers
  BY DEF NotifyInv, Next
<1>2. Notifiers' = Notifiers
  BY <1>1, UseKept
<1>3. /\ latest \in Nat /\ realm \in Nat /\ skip \in Nat
      /\ w.version \in Nat /\ w.skip \in Nat /\ t.target \in Nat
      /\ \A n \in Notifiers : nt[n].version \in Nat
  BY <1>1, Numbers
<1>4. CASE Collect
  <2>1. /\ w.pc = "idle" /\ UNCHANGED <<latest, realm, t>>
        /\ \A n \in Notifiers :
              /\ nt'[n].place = IF nt[n].place \in {"new", "main"} /\ ~nt[n].alive
                                THEN "gone"
                                ELSE IF nt[n].place = "new" THEN "main" ELSE nt[n].place
              /\ nt'[n].version = nt[n].version /\ nt'[n].ran = nt[n].ran
    BY <1>1, <1>4, CollectDoes
  <2>2. \A n \in Notifiers : Ran(n)' => Ran(n)
    BY <1>1, <2>1 DEF Ran, PlacesKept
  <2>3. CASE Fresh \cup Living = {} /\ w' = w /\ skip' = IF Main # {} THEN 0 ELSE skip
    <3>1. skip' = 0
      BY <1>1, <2>3 DEF SkipHasNotifiers
    <3> QED BY <1>1, <1>2, <1>3, <2>1, <2>2, <2>3, <3>1 DEF VersionsInOrder, SkipHasNotifiers
  <2>4. CASE /\ skip' = 0
             /\ w'.new = Fresh /\ w'.old = Living /\ w'.version = latest
             /\ w'.skip = IF Living = {} /\ Main # {} THEN 0 ELSE skip
             /\ IF w'.skip # 0 THEN w'.pc = "skip" /\ w'.todo = Living
                               ELSE w'.pc = "run" /\ w'.todo = Fresh \cup Living
    <3>1. latest > 0
      BY <1>1 DEF TypeOK, Versions
    <3>2. w'.pc = "skip" => w'.skip = skip /\ skip # 0
      BY <2>4
    <3> QED
      BY <1>1, <1>2, <1>3, <2>1, <2>2, <2>4, <3>1, <3>2
         DEF VersionsInOrder, SkipHasNotifiers
  <2> QED BY <1>1, <1>4, <2>3, <2>4, CollectDoes
<1>5. ASSUME NEW m \in Notifiers, run(m)
      PROVE  VersionsInOrder' /\ SkipHasNotifiers'
  <2>1. /\ w'.pc = w.pc /\ w'.version = w.version /\ w'.skip = w.skip
        /\ UNCHANGED <<latest, realm, skip, t>>
        /\ \A n \in Notifiers :
              /\ nt'[n].place = nt[n].place /\ nt'[n].version = nt[n].version
              /\ nt'[n].ran = nt[n].ran
    BY <1>1, <1>5, RunDoes
  <2> QED BY <1>1, <1>2, <2>1 DEF VersionsInOrder, SkipHasNotifiers, Ran, Main
<1>6. CASE SkipHandover
  <2>1. /\ w.pc = "skip" /\ w'.pc = "run" /\ w'.version = w.version /\ w'.skip = w.skip
        /\ UNCHANGED <<latest, realm, skip, t>>
        /\ \A n \in Notifiers :
              /\ nt'[n].place = nt[n].place
              /\ nt'[n].version = IF n \in w.old THEN w.skip ELSE nt[n].version
              /\ n \notin w.old => nt'[n].ran = nt[n].ran
    BY <1>1, <1>6, SkipHandoverDoes
  <2>2. \A n \in Notifiers : Ran(n)' => n \in w.old
    BY <1>1, <2>1 DEF Ran, WorkerHasAll
  <2>3. w.skip > 0 /\ w.skip <= w.version
    BY <1>1, <1>3, <2>1 DEF WorkerHasAll, SkipOnTheWay
  <2> QED BY <1>1, <1>2, <1>3, <2>1, <2>2, <2>3 DEF VersionsInOrder, SkipHasNotifiers, Main
<1>7. CASE Handover
  <2>1. /\ w.pc = "run" /\ w'.pc = "idle"
        /\ UNCHANGED <<latest, realm, t>>
        /\ skip' = IF Living = {} /\ Main # {} THEN 0 ELSE skip
        /\ \A n \in Notifiers :
              /\ nt'[n].place = IF nt[n].place \in {"new", "main"} /\ ~nt[n].alive
                                THEN "gone" ELSE nt[n].place
              /\ nt'[n].version = IF n \in w.new \cup w.old THEN w.version ELSE nt[n].version
    <3>1. w'.pc = "idle"
      BY <1>1, <1>7, HandoverDoes DEF Idle
    <3> QED BY <1>1, <1>7, <3>1, HandoverDoes
  <2>2. \A n \in Notifiers : nt[n].place = "main" <=> n \in w.new \cup w.old
    BY <1>1, <2>1 DEF WorkerHasAll
  <2>3. \A n \in Notifiers : Ran(n)' => n \in w.new \cup w.old
    BY <2>1, <2>2 DEF Ran
  <2>4. VersionsInOrder'
    BY <1>1, <1>2, <1>3, <2>1, <2>3 DEF VersionsInOrder
  <2>5. SkipHasNotifiers'
    BY <1>1, <1>2, <2>1 DEF SkipHasNotifiers, Living, Main
  <2> QED BY <2>4, <2>5
<1>8. CASE NotifierStep /\ NumberStep
  <2>1. /\ w' = w /\ latest' \in Nat /\ latest' >= latest
        /\ realm' <= latest' /\ t'.target <= latest'
        /\ skip' = skip \/ (skip' = latest' /\ latest' > latest /\ HaveNotifiers)
    BY <1>8 DEF NotifierStep, NumberStep
  <2>2. \A n \in Notifiers :
          \/ /\ nt'[n].place = nt[n].place /\ nt'[n].version = nt[n].version
             /\ nt'[n].ran = nt[n].ran
          \/ /\ nt[n].place = "none" /\ nt'[n].place = "new" /\ nt'[n].version = realm
             /\ nt'[n].ran = FALSE
    BY <1>8 DEF NotifierStep, Kept, Created, Buried
  <2>3. realm > 0
    BY <1>1 DEF TypeOK, Versions
  <2>4. \A n \in Notifiers : Ran(n)' => Ran(n) /\ nt'[n].version = nt[n].version
    BY <2>2 DEF Ran
  <2>5. VersionsInOrder'
    <3>1. realm' <= latest' /\ skip' <= latest' /\ t'.target <= latest'
      BY <1>1, <1>3, <2>1 DEF VersionsInOrder
    <3>2. \A n \in Notifiers :
            nt'[n].version <= latest' /\ (nt'[n].place # "none" => nt'[n].version > 0)
      BY <1>1, <1>3, <2>1, <2>2, <2>3 DEF VersionsInOrder
    <3>3. \A n \in Notifiers : Ran(n)' =>
            /\ skip' # 0 => nt'[n].version <= skip'
            /\ w'.pc # "idle" => nt'[n].version <= w'.version
            /\ w'.pc = "skip" => nt'[n].version <= w'.skip
      BY <1>1, <1>3, <2>1, <2>4 DEF VersionsInOrder
    <3>4. w'.pc # "idle" =>
            w'.version > 0 /\ w'.version <= latest' /\ (skip' # 0 => w'.version <= skip')
      BY <1>1, <1>3, <2>1 DEF VersionsInOrder
    <3> QED BY <1>2, <3>1, <3>2, <3>3, <3>4 DEF VersionsInOrder
  <2>6. SkipHasNotifiers'
    BY <1>1, <1>2, <2>1, <2>2 DEF SkipHasNotifiers, HaveNotifiers, Main
  <2> QED BY <2>5, <2>6
<1> QED
  BY <1>4, <1>5, <1>6, <1>7, <1>8, WorkerOrNotifierStep, WorkerOrNumberStep DEF Worker

-----------------------------------------------------------------------------
(* The callbacks and their notifiers                                       *)

Delivering ==
  PromoteToWrite \/ advance_to_latest \/ process_available_async \/ advance_to_ready

\* The steps that change what the invariant says of a callback.
LEMMA CallbackSteps ==
  ASSUME NotifyInv, Next
  PROVE  \/ \A c \in Callbacks : CallKept(c)
         \/ SkipHandover \/ Handover \/ Delivering
         \/ \E c \in Callbacks :
              \/ Call(c) \/ suppress_next_notification(c)
              \/ add_notification_callback(c) \/ remove_callback(c)
<1>1. use \in Uses /\ use' = use /\ TypeOK /\ CallbacksWatched
  BY DEF NotifyInv, Next
<1>2. cb' = cb => \A c \in Callbacks : CallKept(c)
  BY DEF CallKept
<1>3. CASE Collect
  BY <1>1, <1>2, <1>3, CollectDoes
<1>4. CASE \E m \in Notifiers : run(m)
  BY <1>1, <1>2, <1>4, RunDoes
<1>5. CASE begin_transaction \/ refresh
  BY <1>1, <1>2, <1>5, BeginDoes
<1>6. CASE \E c \in Callbacks : PassOver(c)
  BY <1>1, <1>2, <1>6, PassOverDoes DEF TargetStep
<1>7. CASE Return
  BY <1>1, <1>2, <1>7, ReturnDoes DEF TargetStep
<1>8. CASE Sent \/ cancel_transaction
  BY <1>1, <1>2, <1>8, EndDoes DEF TargetStep
<1>9. CASE NotifyInWrite
  BY <1>2, <1>9 DEF NotifyInWrite
<1>10. CASE commit_write
  BY <1>1, <1>10, CommitDoes
<1>11. CASE NestedWrite \/ ForeignCommit
  BY <1>1, <1>2, <1>11, OtherCommitDoes
<1>12. CASE \E n \in Notifiers : prepare_async(n)
  BY <1>2, <1>12 DEF prepare_async
<1>13. CASE \E n \in Notifiers : unregister(n) \/ get_tableview(n)
  BY <1>2, <1>13 DEF unregister, get_tableview
<1> QED
  BY <1>3, <1>4, <1>5, <1>6, <1>7, <1>8, <1>9, <1>10, <1>11, <1>12, <1>13
     DEF Next, Worker, Sending, User, Delivering

\* A delivery gives some notifiers' callbacks what has gathered.
LEMMA DeliveringGives ==
  ASSUME NotifyInv, Delivering
  PROVE  \E ns : Given(ns)
<1>1. use \in Uses /\ TypeOK
  BY DEF NotifyInv
<1> QED
  BY <1>1, PromoteDoes, AdvanceDoes, ProcessDoes, ReadyDoes DEF Delivering, Delivery

\* Only a callback that is added comes to be watched.
LEMMA OnlyAddWatches ==
  ASSUME NotifyInv, Next
  PROVE  \/ \E c \in Callbacks : add_notification_callback(c)
         \/ \A c \in Callbacks : cb'[c].on => cb[c].on
<1>1. use \in Uses /\ TypeOK
  BY DEF NotifyInv
<1>2. CASE \A c \in Callbacks : CallKept(c)
  BY <1>2 DEF CallKept
<1>3. CASE SkipHandover \/ Handover
  BY <1>1, <1>3, SkipHandoverDoes, HandoverDoes DEF Gathered
<1>4. CASE Delivering
  BY <1>4, DeliveringGives DEF Given
<1>5. CASE \E c \in Callbacks : Call(c) \/ suppress_next_notification(c)
  BY <1>1, <1>5, CallDoes, SuppressDoes
<1>6. CASE \E c \in Callbacks : remove_callback(c)
  BY <1>1, <1>6, RemoveDoes DEF Reset, CallKept
<1> QED BY <1>2, <1>3, <1>4, <1>5, <1>6, CallbackSteps

\* The notifier of a callback stays where the worker finds it.
LEMMA WatchedStay ==
  ASSUME NotifyInv, Next, NEW c \in Callbacks, cb[c].on
  PROVE  /\ nt'[Of[c]].alive /\ nt'[Of[c]].place \in {"new", "main"}
         /\ Ran(Of[c]) => nt'[Of[c]].place = "main" /\ nt'[Of[c]].ran
<1>1. /\ use \in Uses /\ use' = use /\ TypeOK /\ CallbacksWatched
      /\ PlacesKept /\ WorkerHasAll
  BY DEF NotifyInv, Next
<1>2. Of[c] \in Notifiers /\ nt[Of[c]].alive /\ nt[Of[c]].place \in {"new", "main"}
  BY <1>1, UseTyped DEF CallbacksWatched
<1>3. CASE Collect
  BY <1>1, <1>2, <1>3, CollectDoes DEF Ran
<1>4. CASE \E m \in Notifiers : run(m)
  BY <1>1, <1>2, <1>4, RunDoes DEF Ran
<1>5. CASE SkipHandover
  BY <1>1, <1>2, <1>5, SkipHandoverDoes DEF Ran
<1>6. CASE Handover
  BY <1>1, <1>2, <1>6, HandoverDoes DEF Ran
<1>7. CASE NotifierStep
  <2>1. \A m \in Notifiers : Created(m) => m # Of[c]
    BY <1>2 DEF Created
  <2>2. \A m \in Notifiers : ~have_callbacks(m) => m # Of[c]
    BY <1>2 DEF have_callbacks
  <2> QED BY <1>2, <1>7, <2>1, <2>2 DEF NotifierStep, Kept, Created, Buried, Ran
<1> QED BY <1>3, <1>4, <1>5, <1>6, <1>7, WorkerOrNotifierStep DEF Worker

LEMMA WatchedKept ==
  ASSUME NotifyInv, Next
  PROVE  CallbacksWatched'
<1>1. /\ use \in Uses /\ use' = use /\ TypeOK /\ CallbacksWatched /\ PlacesKept
  BY DEF NotifyInv, Next
<1>2. Callbacks' = Callbacks /\ Of' = Of
  BY <1>1, UseKept
<1>3. ASSUME NEW c \in Callbacks, cb'[c].on
      PROVE  nt'[Of[c]].alive /\ nt'[Of[c]].place \in {"new", "main"}
  <2>1. CASE cb[c].on
    BY <1>3, <2>1, WatchedStay
  <2>2. CASE ~cb[c].on
    <3>1. PICK d \in Callbacks : add_notification_callback(d)
      BY <1>3, <2>2, OnlyAddWatches
    <3>2. d = c
      BY <1>1, <1>3, <2>2, <3>1, AddDoes DEF Reset, CallKept
    <3>3. CASE Created(Of[c])
      BY <3>3 DEF Created
    <3>4. CASE nt[Of[c]].place # "none" /\ nt[Of[c]].alive /\ nt' = nt
      <4>1. Of[c] \in Notifiers
        BY <1>1, UseTyped
      <4>2. nt[Of[c]].place \in {"none", "new", "main", "gone"}
        BY <1>1, <4>1 DEF TypeOK, NotifierType
      <4> QED BY <1>1, <3>4, <4>1, <4>2 DEF PlacesKept
    <3> QED BY <1>1, <3>1, <3>2, <3>3, <3>4, AddDoes
  <2> QED BY <2>1, <2>2
<1> QED BY <1>2, <1>3 DEF CallbacksWatched

-----------------------------------------------------------------------------
(* Callbacks that neither write nor are added again                        *)

\* The target thread has waited for the notifier of every callback.
LEMMA Waited ==
  ASSUME NotifyInv, Orderly, t.pc \in {"promote", "refresh"}, Ready(t.pkg, t.target),
         NEW c \in Callbacks, cb[c].on
  PROVE  /\ Ran(Of[c]) /\ nt[Of[c]].version >= t.target
         /\ Of[c] \in Packaged(t.pkg)
         /\ PackageVersions(Packaged(t.pkg), t.target) # {}
<1>1. /\ use \in Uses /\ CallbacksWatched /\ WaitsForAll /\ PlacesKept
  BY DEF NotifyInv
<1>2. Of[c] \in Notifiers /\ Of[c] \in t.pkg /\ have_callbacks(Of[c])
  BY <1>1, UseTyped DEF WaitsForAll, have_callbacks
<1>3. nt[Of[c]].alive /\ nt[Of[c]].place \in {"new", "main"}
  BY <1>1 DEF CallbacksWatched
<1>4. nt[Of[c]].ran /\ nt[Of[c]].version >= t.target
  BY <1>2 DEF Ready
<1>5. Ran(Of[c]) /\ Of[c] \in Packaged(t.pkg)
  BY <1>1, <1>2, <1>3, <1>4 DEF Ran, PlacesKept, Packaged
<1> QED BY <1>4, <1>5 DEF PackageVersions

LEMMA SkipsKept ==
  ASSUME NotifyInv, Next
  PROVE  SkipsAlone'
<1>1. /\ use \in Uses /\ use' = use /\ TypeOK
      /\ SkipsAlone /\ WriteIsCurrent
  BY DEF NotifyInv, Next
<1>2. Callbacks' = Callbacks /\ Orderly' = Orderly
  BY <1>1, UseKept
<1>3. CASE \A c \in Callbacks : CallKept(c)
  BY <1>1, <1>2, <1>3 DEF SkipsAlone, CallKept
<1>4. CASE SkipHandover \/ Handover
  <2>1. \E ns : Gathered(ns)
    BY <1>1, <1>4, SkipHandoverDoes, HandoverDoes
  <2> QED BY <1>1, <1>2, <2>1 DEF SkipsAlone, Gathered
<1>5. CASE Delivering
  <2>1. \E ns : Given(ns)
    BY <1>5, DeliveringGives
  <2> QED BY <1>1, <1>2, <2>1 DEF SkipsAlone, Given
<1>6. ASSUME NEW c \in Callbacks, Call(c)
      PROVE  SkipsAlone'
  BY <1>1, <1>2, <1>6, CallDoes DEF SkipsAlone
<1>7. ASSUME NEW c \in Callbacks, suppress_next_notification(c)
      PROVE  SkipsAlone'
  <2>1. /\ May("suppress") /\ t.pc = "write" /\ cb[c].on
        /\ \A d \in Callbacks :
              /\ cb'[d].on = cb[d].on /\ cb'[d].acc = cb[d].acc
              /\ d # c => CallKept(d)
    BY <1>1, <1>7, SuppressDoes
  <2>2. Orderly => cb[c].acc = {}
    BY <1>1, <2>1 DEF WriteIsCurrent
  <2> QED BY <1>1, <1>2, <2>1, <2>2, UseTyped DEF SkipsAlone, CallKept
<1>8. ASSUME NEW c \in Callbacks, NEW on \in BOOLEAN, Reset(c, on)
      PROVE  SkipsAlone'
  BY <1>1, <1>2, <1>8 DEF SkipsAlone, Reset, CallKept
<1> QED
  BY <1>1, <1>3, <1>4, <1>5, <1>6, <1>7, <1>8, CallbackSteps, AddDoes, RemoveDoes

\* The thread goes on waiting for the same notifiers, or no longer waits, unless it
\* begins to.
LEMMA TargetSteps ==
  ASSUME NotifyInv, Next
  PROVE  \/ begin_transaction \/ refresh
         \/ t'.pc \notin {"promote", "refresh"}
         \/ /\ t'.pc = t.pc /\ t'.pkg = t.pkg /\ t'.target = t.target
            /\ latest' = latest \/ t.pc # "promote"
<1>1. use \in Uses /\ use' = use /\ TypeOK /\ CallbacksWatched
  BY DEF NotifyInv, Next
<1>2. CASE Collect
  BY <1>1, <1>2, CollectDoes
<1>3. CASE \E m \in Notifiers : run(m)
  BY <1>1, <1>3, RunDoes
<1>4. CASE SkipHandover
  BY <1>1, <1>4, SkipHandoverDoes
<1>5. CASE Handover
  BY <1>1, <1>5, HandoverDoes
<1>6. CASE Delivering
  BY <1>1, <1>6, PromoteDoes, AdvanceDoes, ProcessDoes, ReadyDoes DEF Delivering, Delivery
<1>7. CASE \E c \in Callbacks : PassOver(c) \/ Call(c)
  BY <1>1, <1>7, PassOverDoes, CallDoes
<1>8. CASE Return
  BY <1>1, <1>8, ReturnDoes DEF TargetStep
<1>9. CASE Sent \/ cancel_transaction
  BY <1>1, <1>9, EndDoes
<1>10. CASE NotifyInWrite
  BY <1>10 DEF NotifyInWrite
<1>11. CASE \E c \in Callbacks : suppress_next_notification(c)
  BY <1>1, <1>11, SuppressDoes
<1>12. CASE commit_write
  BY <1>1, <1>12, CommitDoes
<1>13. CASE NestedWrite \/ ForeignCommit
  BY <1>1, <1>13, OtherCommitDoes
<1>14. CASE \E n \in Notifiers : prepare_async(n) \/ unregister(n) \/ get_tableview(n)
  BY <1>14 DEF prepare_async, unregister, get_tableview
<1>15. CASE \E c \in Callbacks : add_notification_callback(c)
  BY <1>1, <1>15, AddDoes
<1>16. CASE \E c \in Callbacks : remove_callback(c)
  BY <1>1, <1>16, RemoveDoes
<1> QED
  BY <1>2, <1>3, <1>4, <1>5, <1>6, <1>7, <1>8, <1>9, <1>10, <1>11, <1>12, <1>13, <1>14,
     <1>15, <1>16
     DEF Next, Worker, Sending, User, Delivering

LEMMA WaitingKept ==
  ASSUME NotifyInv, Next
  PROVE  WaitsForAll'
<1>1. /\ use \in Uses /\ use' = use /\ TypeOK /\ CallbacksWatched /\ WaitsForAll
  BY DEF NotifyInv, Next
<1>2. Callbacks' = Callbacks /\ Of' = Of /\ Orderly' = Orderly
  BY <1>1, UseKept
<1>3. CASE begin_transaction \/ refresh
  <2>1. /\ t'.pkg = notifiers_for_realm /\ t'.target = latest
        /\ UNCHANGED <<latest, cb>>
    BY <1>1, <1>3, BeginDoes
  <2>2. \A c \in Callbacks : cb[c].on => Of[c] \in notifiers_for_realm
    BY <1>1, UseTyped DEF CallbacksWatched, notifiers_for_realm
  <2> QED BY <1>2, <2>1, <2>2 DEF WaitsForAll
<1>4. CASE t'.pc \notin {"promote", "refresh"}
  BY <1>4 DEF WaitsForAll
<1>5. CASE /\ t'.pc = t.pc /\ t'.pkg = t.pkg /\ t'.target = t.target
           /\ latest' = latest \/ t.pc # "promote"
  <2>1. CASE \A c \in Callbacks : cb'[c].on => cb[c].on
    BY <1>1, <1>2, <1>5, <2>1 DEF WaitsForAll
  <2>2. CASE \E c \in Callbacks : add_notification_callback(c)
    BY <1>1, <1>2, <1>5, <2>2, AddDoes DEF WaitsForAll
  <2> QED BY <2>1, <2>2, OnlyAddWatches
<1> QED BY <1>3, <1>4, <1>5, TargetSteps

\* What RowsFollow says of a notifier.
Follows(n) ==
  IF w.pc = "idle" \/ n \in w.todo \/ (w.pc = "skip" /\ n \notin w.old)
  THEN nt[n].change = {} /\ (nt[n].ran => nt[n].rows = nt[n].version)
  ELSE /\ nt[n].rows = Towards
       /\ nt[n].change = IF nt[n].ran THEN (nt[n].version + 1) .. Towards ELSE {}

LEMMA RowsKept ==
  ASSUME NotifyInv, Next
  PROVE  RowsFollow'
<1>1. /\ use \in Uses /\ use' = use /\ TypeOK /\ CallbacksWatched /\ RowsFollow
      /\ PlacesKept /\ WorkerHasAll /\ VersionsInOrder
  BY DEF NotifyInv, Next
<1>2. Callbacks' = Callbacks /\ Of' = Of /\ Orderly' = Orderly
  BY <1>1, UseKept
<1>3. SUFFICES ASSUME Orderly, NEW c \in Callbacks, NEW n, n = Of[c],
                      cb'[c].on, nt'[n].place = "main"
               PROVE  Follows(n)'
  BY <1>2 DEF RowsFollow, Follows
<1>4. n \in Notifiers
  BY <1>1, <1>3, UseTyped
<1>5. have_callbacks(n)
  <2>1. CASE cb[c].on
    BY <1>3, <2>1 DEF have_callbacks
  <2>2. CASE ~cb[c].on
    <3>1. PICK d \in Callbacks : add_notification_callback(d)
      BY <1>3, <2>2, OnlyAddWatches
    <3>2. d = c
      BY <1>1, <1>3, <2>2, <3>1, AddDoes DEF Reset, CallKept
    <3> QED BY <1>1, <1>3, <3>1, <3>2, AddDoes DEF Created
  <2> QED BY <2>1, <2>2
<1>6. nt[n].alive /\ nt[n].place \in {"new", "main"}
  BY <1>1, <1>5 DEF have_callbacks, CallbacksWatched
<1>7. nt[n].place = "main" => Follows(n)
  BY <1>1, <1>3, <1>5 DEF have_callbacks, RowsFollow, Follows
<1>8. nt[n].place = "new" => ~nt[n].ran /\ nt[n].change = {}
  BY <1>1, <1>4 DEF PlacesKept
<1>9. /\ nt[n].version \in Nat /\ nt[n].rows \in Nat /\ Towards \in Nat
  BY <1>1, <1>4, Numbers DEF Towards
<1>10. CASE Collect
  <2>1. /\ w.pc = "idle" /\ nt'[n].version = nt[n].version /\ nt'[n].ran = nt[n].ran
        /\ nt'[n].rows = nt[n].rows /\ nt'[n].change = nt[n].change
    BY <1>1, <1>4, <1>10, CollectDoes
  <2>2. nt[n].change = {} /\ (nt[n].ran => nt[n].rows = nt[n].version)
    BY <1>6, <1>7, <1>8, <2>1 DEF Follows
  <2>3. n \in Fresh \cup Living
    BY <1>4, <1>6 DEF Fresh, Living, Main
  <2>4. w' = w \/ n \in w'.todo \/ (w'.pc = "skip" /\ w'.old = Living /\ w'.todo = Living)
    BY <1>1, <1>10, <2>3, CollectDoes
  <2> QED BY <2>1, <2>2, <2>4 DEF Follows
<1>11. ASSUME NEW m \in Notifiers, run(m)
       PROVE  Follows(n)'
  <2>1. /\ w.pc \in {"skip", "run"} /\ m \in w.todo
        /\ w'.pc = w.pc /\ w'.version = w.version /\ w'.skip = w.skip
        /\ w'.old = w.old /\ w'.todo = w.todo \ {m}
        /\ nt'[n].place = nt[n].place
        /\ nt'[n].version = nt[n].version /\ nt'[n].ran = nt[n].ran
        /\ n # m => nt'[n].rows = nt[n].rows /\ nt'[n].change = nt[n].change
        /\ have_callbacks(m) =>
              \/ /\ nt[m].ran /\ nt[m].rows = Towards
                 /\ nt'[m].rows = nt[m].rows /\ nt'[m].change = nt[m].change
              \/ /\ nt'[m].rows = Towards
                 /\ nt'[m].change = IF nt[m].ran THEN (nt[m].rows + 1) .. Towards ELSE {}
    BY <1>1, <1>4, <1>11, RunDoes
  <2>2. Towards' = Towards
    BY <2>1 DEF Towards
  <2>3. Follows(n)
    BY <1>3, <1>7, <2>1
  <2>4. CASE n # m
    BY <2>1, <2>2, <2>3, <2>4 DEF Follows
  <2>5. CASE n = m
    <3>1. nt[n].change = {} /\ (nt[n].ran => nt[n].rows = nt[n].version)
      BY <2>1, <2>3, <2>5 DEF Follows
    <3>2. w'.pc = "skip" => n \in w'.old
      BY <1>1, <2>1, <2>5 DEF WorkerHasAll
    <3>3. (Towards + 1) .. Towards = {}
      BY <1>9
    <3>4. nt'[n].rows = Towards
      BY <1>5, <2>1, <2>5
    <3>5. nt'[n].change = IF nt[n].ran THEN (nt[n].version + 1) .. Towards ELSE {}
      BY <1>5, <2>1, <2>5, <3>1, <3>3
    <3> QED BY <2>1, <2>2, <2>5, <3>2, <3>4, <3>5 DEF Follows
  <2> QED BY <2>4, <2>5
<1>12. CASE SkipHandover
  <2>1. /\ w.pc = "skip" /\ w.todo = {} /\ w'.pc = "run" /\ w'.todo = w.new \cup w.old
        /\ nt'[n].place = nt[n].place /\ nt'[n].rows = nt[n].rows
        /\ nt'[n].version = IF n \in w.old THEN w.skip ELSE nt[n].version
        /\ nt'[n].change = IF n \in w.old THEN {} ELSE nt[n].change
        /\ n \notin w.old => nt'[n].ran = nt[n].ran
    BY <1>1, <1>4, <1>12, SkipHandoverDoes
  <2>2. Follows(n) /\ n \in w.new \cup w.old
    BY <1>1, <1>3, <1>4, <1>7, <2>1 DEF WorkerHasAll
  <2>3. CASE n \in w.old
    <3>1. nt[n].rows = w.skip
      BY <2>1, <2>2, <2>3 DEF Follows, Towards
    <3> QED BY <2>1, <2>2, <2>3, <3>1 DEF Follows
  <2>4. CASE n \notin w.old
    <3>1. nt[n].change = {} /\ (nt[n].ran => nt[n].rows = nt[n].version)
      BY <2>1, <2>2, <2>4 DEF Follows
    <3> QED BY <2>1, <2>2, <2>4, <3>1 DEF Follows
  <2> QED BY <2>3, <2>4
<1>13. CASE Handover
  <2>1. /\ w.pc = "run" /\ w.todo = {} /\ w'.pc = "idle"
        /\ nt'[n].rows = nt[n].rows
        /\ nt'[n].place = "main" => nt[n].place = "main"
        /\ nt'[n].version = IF n \in w.new \cup w.old THEN w.version ELSE nt[n].version
        /\ nt'[n].change = IF n \in w.new \cup w.old THEN {} ELSE nt[n].change
    <3>1. w'.pc = "idle"
      BY <1>1, <1>13, HandoverDoes DEF Idle
    <3> QED BY <1>1, <1>4, <1>13, <3>1, HandoverDoes
  <2>2. Follows(n) /\ n \in w.new \cup w.old
    BY <1>1, <1>3, <1>4, <1>7, <2>1 DEF WorkerHasAll
  <2>3. nt[n].rows = w.version
    BY <2>1, <2>2 DEF Follows, Towards
  <2> QED BY <2>1, <2>2, <2>3 DEF Follows
<1>14. CASE NotifierStep
  <2>1. w' = w
    BY <1>14 DEF NotifierStep
  <2>2. Towards' = Towards
    BY <2>1 DEF Towards
  <2>3. /\ nt'[n].place = nt[n].place /\ nt'[n].version = nt[n].version
        /\ nt'[n].ran = nt[n].ran /\ nt'[n].rows = nt[n].rows
        /\ nt'[n].change = nt[n].change
    BY <1>4, <1>6, <1>14 DEF NotifierStep, Kept, Created, Buried
  <2>4. Follows(n)
    BY <1>3, <1>7, <2>3
  <2> QED BY <2>1, <2>2, <2>3, <2>4 DEF Follows
<1> QED
  BY <1>10, <1>11, <1>12, <1>13, <1>14, WorkerOrNotifierStep DEF Worker

\* The worker takes a notifier that has run on to a later version, and what lies
\* between gathers for its callbacks, unless they asked to be skipped.
LEMMA WorkerGathers ==
  ASSUME NotifyInv, Worker, use' = use, Orderly, NEW c \in Callbacks, cb[c].on,
         NEW n, n = Of[c], Ran(n)
  PROVE  /\ UNCHANGED <<latest, realm, t>>
         /\ cb'[c].on = cb[c].on /\ cb'[c].init = cb[c].init
         /\ cb'[c].give = cb[c].give /\ cb'[c].told = cb[c].told
         /\ nt'[n].version \in Nat /\ nt[n].version <= nt'[n].version
         /\ nt'[n].version <= latest
         /\ nt'[n].version = nt[n].version \/ (w.pc # "idle" /\ nt'[n].version = Towards)
         /\ cb[c].skip => cb'[c].acc = cb[c].acc
         /\ ~cb[c].skip =>
              cb'[c].acc = cb[c].acc \cup ((nt[n].version + 1) .. nt'[n].version)
<1>1. /\ use \in Uses /\ TypeOK /\ CallbacksWatched /\ RowsFollow
      /\ WorkerHasAll /\ VersionsInOrder /\ SkipOnTheWay
  BY DEF NotifyInv
<1>2. n \in Notifiers
  BY <1>1, UseTyped
<1>3. /\ nt[n].version \in Nat /\ nt[n].version <= latest /\ latest \in Nat
      /\ w.version \in Nat /\ w.skip \in Nat
  BY <1>1, <1>2, Numbers DEF VersionsInOrder
<1>4. (nt[n].version + 1) .. nt[n].version = {}
  BY <1>3
<1>5. Follows(n) /\ nt[n].ran /\ nt[n].place = "main"
  BY <1>1 DEF RowsFollow, Follows, Ran
<1>6. CASE Collect \/ \E m \in Notifiers : run(m)
  <2>1. UNCHANGED <<latest, realm, t, cb>> /\ nt'[n].version = nt[n].version
    BY <1>1, <1>2, <1>6, CollectDoes, RunDoes
  <2>2. cb'[c].acc = cb[c].acc \cup ((nt[n].version + 1) .. nt'[n].version)
    BY <1>4, <2>1
  <2>3. nt[n].version <= nt'[n].version /\ nt'[n].version <= latest
    BY <1>3, <2>1
  <2>4. /\ cb'[c].on = cb[c].on /\ cb'[c].init = cb[c].init /\ cb'[c].acc = cb[c].acc
        /\ cb'[c].give = cb[c].give /\ cb'[c].told = cb[c].told
    BY <2>1
  <2> QED BY <1>3, <2>1, <2>2, <2>3, <2>4
<1>7. CASE SkipHandover
  <2>1. /\ w.pc = "skip" /\ w.todo = {} /\ UNCHANGED <<latest, realm, t>> /\ Gathered(w.old)
        /\ nt'[n].version = IF n \in w.old THEN w.skip ELSE nt[n].version
    BY <1>1, <1>2, <1>7, SkipHandoverDoes
  <2>2. n \in w.old
    BY <1>1, <1>2, <1>5, <2>1 DEF WorkerHasAll
  <2>3. Towards = w.skip /\ nt[n].change = (nt[n].version + 1) .. w.skip
    BY <1>5, <2>1, <2>2 DEF Follows, Towards
  <2>4. w.skip # 0 /\ w.skip <= w.version /\ w.version <= latest /\ nt[n].version <= w.skip
    BY <1>1, <1>2, <2>1 DEF WorkerHasAll, SkipOnTheWay, VersionsInOrder
  <2>5. w.skip <= latest
    BY <1>3, <2>4
  <2>6. /\ cb'[c].on = cb[c].on /\ cb'[c].init = cb[c].init
        /\ cb'[c].give = cb[c].give /\ cb'[c].told = cb[c].told
        /\ cb'[c].acc = IF cb[c].skip THEN cb[c].acc ELSE cb[c].acc \cup nt[n].change
    BY <2>1, <2>2 DEF Gathered
  <2> QED BY <1>3, <2>1, <2>2, <2>3, <2>4, <2>5, <2>6
<1>8. CASE Handover
  <2>1. /\ w.pc = "run" /\ w.todo = {} /\ UNCHANGED <<latest, realm, t>>
        /\ Gathered(w.new \cup w.old)
        /\ nt'[n].version = IF n \in w.new \cup w.old THEN w.version ELSE nt[n].version
    BY <1>1, <1>2, <1>8, HandoverDoes
  <2>2. n \in w.new \cup w.old
    BY <1>1, <1>2, <1>5, <2>1 DEF WorkerHasAll
  <2>3. Towards = w.version /\ nt[n].change = (nt[n].version + 1) .. w.version
    BY <1>5, <2>1, <2>2 DEF Follows, Towards
  <2>4. w.version <= latest /\ nt[n].version <= w.version
    BY <1>1, <1>2, <2>1 DEF VersionsInOrder
  <2>5. /\ cb'[c].on = cb[c].on /\ cb'[c].init = cb[c].init
        /\ cb'[c].give = cb[c].give /\ cb'[c].told = cb[c].told
        /\ cb'[c].acc = IF cb[c].skip THEN cb[c].acc ELSE cb[c].acc \cup nt[n].change
    BY <2>1, <2>2 DEF Gathered
  <2> QED BY <1>3, <2>1, <2>2, <2>3, <2>4, <2>5
<1> QED BY <1>6, <1>7, <1>8 DEF Worker

\* No other step moves the notifier of a callback.
LEMMA OthersLeave ==
  ASSUME NotifyInv, Next, NotifierStep, NEW c \in Callbacks, cb[c].on
  PROVE  /\ nt'[Of[c]].place = nt[Of[c]].place /\ nt'[Of[c]].ran = nt[Of[c]].ran
         /\ nt'[Of[c]].version = nt[Of[c]].version
<1>1. /\ use \in Uses /\ CallbacksWatched
  BY DEF NotifyInv
<1>2. Of[c] \in Notifiers /\ nt[Of[c]].place \in {"new", "main"}
  BY <1>1, UseTyped DEF CallbacksWatched
<1> QED BY <1>2 DEF NotifierStep, Kept, Created, Buried

LEMMA WriteKept ==
  ASSUME NotifyInv, Next
  PROVE  WriteIsCurrent'
<1>1. /\ use \in Uses /\ use' = use /\ TypeOK /\ CallbacksWatched /\ WriteIsCurrent
      /\ VersionsInOrder /\ WaitsForAll
  BY DEF NotifyInv, Next
<1>2. Callbacks' = Callbacks /\ Of' = Of /\ Orderly' = Orderly
  BY <1>1, UseKept
<1>3. SUFFICES ASSUME Orderly, t'.pc \in {"begun", "write"}
               PROVE  /\ realm' = latest'
                      /\ \A c \in Callbacks : cb'[c].on =>
                           /\ nt'[Of[c]].place = "main" /\ nt'[Of[c]].ran
                           /\ nt'[Of[c]].version = latest' /\ cb'[c].acc = {}
  BY <1>2 DEF WriteIsCurrent, Ran
<1>4. latest \in Nat /\ \A n \in Notifiers : nt[n].version \in Nat
  BY <1>1, Numbers
<1>5. ASSUME t.pc \in {"begun", "write"}
      PROVE  /\ realm = latest
             /\ \A c \in Callbacks : cb[c].on =>
                  /\ Ran(Of[c]) /\ nt[Of[c]].place = "main" /\ nt[Of[c]].ran
                  /\ nt[Of[c]].version = latest /\ cb[c].acc = {}
  BY <1>1, <1>3, <1>5 DEF WriteIsCurrent, Ran
<1> DEFINE Goal == /\ realm' = latest'
                   /\ \A c \in Callbacks : cb'[c].on =>
                        /\ nt'[Of[c]].place = "main" /\ nt'[Of[c]].ran
                        /\ nt'[Of[c]].version = latest' /\ cb'[c].acc = {}
           Quiet == /\ t.pc \in {"begun", "write"} /\ realm' = realm /\ latest' = latest
                    /\ \A c \in Callbacks : cb'[c].on => cb[c].on /\ cb'[c].acc = cb[c].acc
<1>6. ASSUME NotifierStep, Quiet
      PROVE  Goal
  BY <1>5, <1>6, OthersLeave
<1>7. CASE Worker
  <2>1. UNCHANGED <<latest, realm, t>>
    BY <1>1, <1>7, CollectDoes, RunDoes, SkipHandoverDoes, HandoverDoes DEF Worker
  <2>2. t.pc \in {"begun", "write"}
    BY <1>3, <2>1
  <2>3. ASSUME NEW c \in Callbacks, cb'[c].on
        PROVE  /\ nt'[Of[c]].place = "main" /\ nt'[Of[c]].ran
               /\ nt'[Of[c]].version = latest' /\ cb'[c].acc = {}
    <3>1. cb[c].on
      BY <1>1, <1>7, <2>3, CollectDoes, RunDoes, SkipHandoverDoes, HandoverDoes
         DEF Worker, Gathered
    <3>2. /\ nt[Of[c]].version = latest /\ cb[c].acc = {} /\ Ran(Of[c])
      BY <1>5, <2>2, <3>1
    <3>3. /\ nt'[Of[c]].version \in Nat /\ latest <= nt'[Of[c]].version
          /\ nt'[Of[c]].version <= latest
          /\ \/ cb'[c].acc = cb[c].acc
             \/ cb'[c].acc = cb[c].acc \cup ((latest + 1) .. nt'[Of[c]].version)
      BY <1>1, <1>3, <1>7, <3>1, <3>2, WorkerGathers
    <3>4. nt'[Of[c]].version = latest /\ (latest + 1) .. latest = {}
      BY <1>4, <3>3
    <3>5. nt'[Of[c]].place = "main" /\ nt'[Of[c]].ran
      BY <3>1, <3>2, WatchedStay
    <3> QED BY <2>1, <3>2, <3>3, <3>4, <3>5
  <2> QED BY <1>5, <2>1, <2>2, <2>3
<1>8. CASE PromoteToWrite
  <2>1. /\ t.pc = "promote" /\ Ready(t.pkg, t.target) /\ latest' = latest /\ realm' = latest
        /\ \A n \in Notifiers : Kept(n)
        /\ Given(Packaged(t.pkg))
    BY <1>1, <1>8, PromoteDoes DEF Delivery
  <2>2. t.target = latest
    BY <1>1, <2>1 DEF WaitsForAll
  <2>3. ASSUME NEW c \in Callbacks, cb'[c].on
        PROVE  /\ nt'[Of[c]].place = "main" /\ nt'[Of[c]].ran
               /\ nt'[Of[c]].version = latest /\ cb'[c].acc = {}
    <3>1. cb[c].on /\ Of[c] \in Notifiers
      BY <1>1, <2>1, <2>3, UseTyped DEF Given
    <3>2. Ran(Of[c]) /\ nt[Of[c]].version >= latest /\ Of[c] \in Packaged(t.pkg)
      BY <1>3, <2>1, <2>2, <3>1, Waited
    <3>3. nt[Of[c]].version = latest
      BY <1>1, <1>4, <3>1, <3>2 DEF VersionsInOrder
    <3> QED BY <2>1, <3>1, <3>2, <3>3 DEF Kept, Ran, Given
  <2> QED BY <2>1, <2>3
<1>9. CASE advance_to_latest \/ process_available_async
  BY <1>1, <1>3, <1>9, AdvanceDoes, ProcessDoes DEF Delivery
<1>10. CASE advance_to_ready
  BY <1>1, <1>3, <1>10, ReadyDoes DEF Delivery
<1>11. CASE begin_transaction \/ refresh \/ commit_write \/ NestedWrite \/ ForeignCommit
  BY <1>1, <1>3, <1>11, BeginDoes, CommitDoes, OtherCommitDoes
<1>12. CASE \E n \in Notifiers : prepare_async(n)
  BY <1>1, <1>3, <1>12, UseTyped DEF prepare_async
<1>13. ASSUME NEW c \in Callbacks, add_notification_callback(c), NotifierStep
       PROVE  Goal
  <2>1. /\ Reset(c, TRUE) /\ UNCHANGED <<latest, realm, t>>
        /\ \/ t.pc \in {"idle", "sending"}
           \/ nt' = nt /\ have_callbacks(Of[c])
    BY <1>1, <1>3, <1>13, AddDoes
  <2>2. t.pc \in {"begun", "write"} /\ nt' = nt /\ have_callbacks(Of[c])
    BY <1>3, <2>1
  <2>3. PICK e \in Callbacks : cb[e].on /\ Of[e] = Of[c]
    BY <2>2 DEF have_callbacks
  <2>4. \A d \in Callbacks : d # c => cb'[d].on = cb[d].on /\ cb'[d].acc = cb[d].acc
    BY <2>1 DEF Reset, CallKept
  <2>5. cb'[c].acc = {}
    BY <2>1 DEF Reset
  <2> QED BY <1>5, <2>1, <2>2, <2>3, <2>4, <2>5
<1>14. ASSUME NEW c \in Callbacks, PassOver(c)
       PROVE  Quiet
  BY <1>1, <1>3, <1>14, PassOverDoes DEF TargetStep
<1>15. ASSUME NEW c \in Callbacks, Call(c)
       PROVE  Quiet
  BY <1>1, <1>3, <1>15, CallDoes
<1>16. CASE Return \/ Sent \/ cancel_transaction
  <2>1. Quiet
    BY <1>1, <1>3, <1>16, ReturnDoes, EndDoes DEF TargetStep
  <2> QED BY <1>6, <1>7, <2>1, WorkerOrNotifierStep
<1>17. CASE NotifyInWrite
  <2>1. Quiet
    BY <1>3, <1>17 DEF NotifyInWrite
  <2> QED BY <1>6, <1>7, <2>1, WorkerOrNotifierStep
<1>18. ASSUME NEW c \in Callbacks, suppress_next_notification(c)
       PROVE  Quiet
  BY <1>1, <1>3, <1>18, SuppressDoes
<1>19. ASSUME NEW c \in Callbacks, remove_callback(c)
       PROVE  Quiet
  BY <1>1, <1>3, <1>19, RemoveDoes DEF Reset, CallKept
<1>20. ASSUME NEW n \in Notifiers, unregister(n) \/ get_tableview(n)
       PROVE  Quiet
  BY <1>3, <1>20 DEF unregister, get_tableview
<1>21. Goal
  BY <1>6, <1>7, <1>8, <1>9, <1>10, <1>11, <1>12, <1>13, <1>14, <1>15, <1>16, <1>17, <1>18,
     <1>19, <1>20, WorkerOrNotifierStep
     DEF Next, Sending, User
<1> QED BY <1>21 DEF Goal

\* While a program writes, what it asked for stays asked for until it commits.
LEMMA AskStays ==
  ASSUME NotifyInv, Next, NotifierStep, t.pc = "write", NEW c \in t.ask, c \in Callbacks,
         cb'[c].on
  PROVE  commit_write \/ (t'.pc = "write" /\ c \in t'.ask)
<1>1. use \in Uses /\ TypeOK
  BY DEF NotifyInv
<1>2. CASE Worker
  BY <1>2 DEF Worker, Collect, run, SkipHandover, Handover
<1>3. CASE Delivering \/ begin_transaction \/ refresh \/ cancel_transaction
  BY <1>3 DEF Delivering, PromoteToWrite, advance_to_latest, process_available_async,
              advance_to_ready, begin_transaction, refresh, cancel_transaction
<1>4. ASSUME NEW d \in Callbacks, PassOver(d) \/ Call(d)
      PROVE  t'.pc = "write" /\ c \in t'.ask
  BY <1>4 DEF PassOver, Call
<1>5. CASE Return
  <2>1. t' = [t EXCEPT !.call = NoCall]
    BY <1>5 DEF Return
  <2> QED BY <1>1, <2>1 DEF TypeOK, TargetType
<1>6. CASE Sent \/ NotifyInWrite \/ NestedWrite \/ ForeignCommit
  BY <1>6 DEF Sent, NotifyInWrite, NestedWrite, ForeignCommit
<1>7. ASSUME NEW d \in Callbacks, suppress_next_notification(d)
      PROVE  t'.pc = "write" /\ c \in t'.ask
  BY <1>1, <1>7, SuppressDoes
<1>8. ASSUME NEW d \in Callbacks, add_notification_callback(d)
      PROVE  t'.pc = "write" /\ c \in t'.ask
  BY <1>1, <1>8, AddDoes
<1>9. ASSUME NEW d \in Callbacks, remove_callback(d)
      PROVE  t'.pc = "write" /\ c \in t'.ask
  <2>1. d # c
    BY <1>1, <1>9, RemoveDoes DEF Reset
  <2> QED BY <1>1, <1>9, <2>1, RemoveDoes
<1>10. CASE \E n \in Notifiers : prepare_async(n) \/ unregister(n) \/ get_tableview(n)
  BY <1>10 DEF prepare_async, unregister, get_tableview
<1> QED
  BY <1>2, <1>3, <1>4, <1>5, <1>6, <1>7, <1>8, <1>9, <1>10
     DEF Next, Sending, User, Delivering

\* The version the worker is asked to stop at changes, but for the worker, only when
\* a commit asks for the next.
LEMMA SkipMoves ==
  ASSUME NotifyInv, Next, Orderly, ~Worker
  PROVE  skip' = skip \/ commit_write
<1>1. use \in Uses /\ TypeOK
  BY DEF NotifyInv
<1>2. ~May("nest")
  BY <1>1, UseTyped
<1>3. CASE Delivering
  BY <1>3 DEF Delivering, PromoteToWrite, advance_to_latest, process_available_async,
              advance_to_ready
<1>4. CASE begin_transaction \/ refresh \/ cancel_transaction \/ Return \/ Sent
           \/ NotifyInWrite \/ ForeignCommit
  BY <1>4 DEF begin_transaction, refresh, cancel_transaction, Return, Sent,
              NotifyInWrite, ForeignCommit
<1>5. CASE \E c \in Callbacks : \/ PassOver(c) \/ Call(c) \/ suppress_next_notification(c)
                                \/ add_notification_callback(c) \/ remove_callback(c)
  BY <1>5 DEF PassOver, Call, suppress_next_notification, add_notification_callback,
              remove_callback
<1>6. CASE \E n \in Notifiers : prepare_async(n) \/ unregister(n) \/ get_tableview(n)
  BY <1>6 DEF prepare_async, unregister, get_tableview
<1>7. CASE NestedWrite
  BY <1>2, <1>7 DEF NestedWrite
<1> QED BY <1>3, <1>4, <1>5, <1>6, <1>7 DEF Next, Sending, User, Delivering

\* A callback to be skipped after a step was to be skipped before, or has been asked to.
LEMMA SkipsBefore ==
  ASSUME NotifyInv, Next, NEW c \in Callbacks, cb'[c].on, cb'[c].skip
  PROVE  \/ suppress_next_notification(c)
         \/ cb[c].on /\ cb[c].skip /\ cb[c].hush \subseteq cb'[c].hush
<1>1. use \in Uses /\ TypeOK
  BY DEF NotifyInv
<1>2. CASE \A d \in Callbacks : CallKept(d)
  BY <1>2 DEF CallKept
<1>3. CASE SkipHandover \/ Handover
  BY <1>1, <1>3, SkipHandoverDoes, HandoverDoes DEF Gathered
<1>4. CASE Delivering
  BY <1>4, DeliveringGives DEF Given
<1>5. ASSUME NEW d \in Callbacks, Call(d)
      PROVE  cb[c].on /\ cb[c].skip /\ cb[c].hush \subseteq cb'[c].hush
  BY <1>1, <1>5, CallDoes
<1>6. ASSUME NEW d \in Callbacks, suppress_next_notification(d), d # c
      PROVE  cb[c].on /\ cb[c].skip /\ cb[c].hush \subseteq cb'[c].hush
  BY <1>1, <1>6, SuppressDoes DEF CallKept
<1>7. ASSUME NEW d \in Callbacks, NEW on \in BOOLEAN, Reset(d, on)
      PROVE  cb[c].on /\ cb[c].skip /\ cb[c].hush \subseteq cb'[c].hush
  BY <1>7 DEF Reset, CallKept
<1> QED
  BY <1>1, <1>2, <1>3, <1>4, <1>5, <1>6, <1>7, CallbackSteps, AddDoes, RemoveDoes

LEMMA DueKept ==
  ASSUME NotifyInv, Next
  PROVE  SkipsDue'
<1>1. /\ use \in Uses /\ use' = use /\ TypeOK /\ SkipsDue /\ WriteIsCurrent
      /\ WorkerHasAll /\ VersionsInOrder /\ SkipOnTheWay /\ CallbacksWatched
  BY DEF NotifyInv, Next
<1>2. Callbacks' = Callbacks /\ Of' = Of /\ Orderly' = Orderly
  BY <1>1, UseKept
<1>3. SUFFICES ASSUME Orderly, NEW c \in Callbacks, NEW n, n = Of[c],
                      cb'[c].on, cb'[c].skip
               PROVE  Ran(n)' /\ Awaits(c, n)'
  BY <1>2 DEF SkipsDue, Awaits, Ran
<1>4. n \in Notifiers
  BY <1>1, <1>3, UseTyped
<1>5. /\ latest \in Nat /\ skip \in Nat /\ w.version \in Nat /\ w.skip \in Nat
      /\ nt[n].version \in Nat /\ \A h \in cb[c].hush : h \in Nat
  <2>1. \A h \in cb[c].hush : h \in Nat
    BY <1>1, UseTyped DEF TypeOK, CallbackType, Versions
  <2> QED BY <1>1, <1>4, <2>1, Numbers
<1>6. CASE suppress_next_notification(c)
  <2>1. /\ t.pc = "write" /\ t'.pc = "write" /\ c \in t'.ask /\ nt' = nt /\ cb[c].on
    BY <1>1, <1>6, SuppressDoes
  <2>2. Ran(n)
    BY <1>1, <1>3, <2>1 DEF WriteIsCurrent
  <2> QED BY <2>1, <2>2 DEF Awaits, Ran
<1>7. SUFFICES ASSUME cb[c].on, cb[c].skip, cb[c].hush \subseteq cb'[c].hush
               PROVE  Ran(n)' /\ Awaits(c, n)'
  BY <1>3, <1>6, SkipsBefore
<1>8. Ran(n) /\ Awaits(c, n) /\ nt[n].alive
  BY <1>1, <1>3, <1>7 DEF SkipsDue, CallbacksWatched
<1>9. Ran(n)'
  BY <1>3, <1>7, <1>8, WatchedStay DEF Ran
<1>10. CASE Collect
  <2>1. /\ w.pc = "idle" /\ t' = t /\ nt'[n].version = nt[n].version
    BY <1>1, <1>4, <1>10, CollectDoes
  <2>2. n \in Living
    BY <1>4, <1>8 DEF Living, Main, Ran
  <2>3. w'.skip = skip /\ (skip # 0 => w'.pc = "skip")
    BY <1>1, <1>10, <2>2, CollectDoes
  <2> QED BY <1>5, <1>7, <1>8, <1>9, <2>1, <2>3 DEF Awaits
<1>11. CASE \E m \in Notifiers : run(m)
  <2>1. /\ w'.pc = w.pc /\ w'.version = w.version /\ w'.skip = w.skip /\ t' = t
        /\ skip' = skip /\ nt'[n].version = nt[n].version
    BY <1>1, <1>4, <1>11, RunDoes
  <2> QED BY <1>7, <1>8, <1>9, <2>1 DEF Awaits
<1>12. CASE SkipHandover
  <2>1. w.pc = "skip" /\ Gathered(w.old)
    BY <1>1, <1>12, SkipHandoverDoes
  <2>2. n \in w.old
    BY <1>1, <1>4, <1>8, <2>1 DEF WorkerHasAll, Ran
  <2> QED BY <1>3, <1>7, <2>1, <2>2 DEF Gathered
<1>13. CASE Handover
  <2>1. w.pc = "run" /\ Gathered(w.new \cup w.old)
    BY <1>1, <1>13, HandoverDoes
  <2>2. n \in w.new \cup w.old
    BY <1>1, <1>4, <1>8, <2>1 DEF WorkerHasAll, Ran
  <2> QED BY <1>3, <1>7, <2>1, <2>2 DEF Gathered
<1>14. SUFFICES ASSUME NotifierStep, ~Worker
                PROVE  Awaits(c, n)'
  BY <1>9, <1>10, <1>11, <1>12, <1>13, WorkerOrNotifierStep DEF Worker
<1>15. w' = w /\ nt'[n].version = nt[n].version
  BY <1>3, <1>7, <1>14, OthersLeave DEF NotifierStep
<1>16. CASE t.pc = "write" /\ c \in t.ask
  <2>1. CASE t'.pc = "write" /\ c \in t'.ask
    BY <2>1 DEF Awaits
  <2>2. CASE commit_write
    <3>1. nt[n].version = latest
      BY <1>1, <1>3, <1>7, <1>16 DEF WriteIsCurrent
    <3>2. HaveNotifiers
      BY <1>4, <1>8 DEF HaveNotifiers, Main, Ran
    <3>3. skip' = latest + 1 /\ latest + 1 \in cb'[c].hush
      BY <1>1, <1>16, <2>2, <3>2, CommitDoes
    <3>4. w.pc # "idle" => w.version < latest + 1
      BY <1>1, <1>5 DEF VersionsInOrder
    <3> QED BY <1>15, <3>1, <3>3, <3>4 DEF Awaits
  <2> QED BY <1>3, <1>14, <1>16, <2>1, <2>2, AskStays
<1>17. ASSUME NEW h \in cb[c].hush, nt[n].version + 1 = h,
              \/ skip = h /\ (w.pc # "idle" => w.version < h)
              \/ w.pc = "skip" /\ w.skip = h
       PROVE  Awaits(c, n)'
  <2>1. h <= latest
    BY <1>1, <1>5, <1>17 DEF VersionsInOrder, SkipOnTheWay, WorkerHasAll
  <2>2. ~commit_write
    <3>1. t.pc # "write"
      BY <1>1, <1>3, <1>5, <1>7, <1>17, <2>1 DEF WriteIsCurrent
    <3> QED BY <3>1 DEF commit_write
  <2>3. skip' = skip
    BY <1>3, <1>14, <2>2, SkipMoves
  <2> QED BY <1>7, <1>15, <1>17, <2>3 DEF Awaits
<1> QED BY <1>8, <1>16, <1>17 DEF Awaits

-----------------------------------------------------------------------------
(* What is told, and what may be left out                                  *)

\* Changes of which some are hushed, put together.
LEMMA LeadJoin ==
  ASSUME NEW A, NEW B, NEW H, NEW i \in Nat, NEW j \in Nat, NEW k \in Nat,
         i <= j, j <= k, Lead(A, H, i, j), Lead(B, H, j, k)
  PROVE  Lead(A \cup B, H, i, k)
<1>1. ASSUME NEW v \in (i + 1) .. k
      PROVE  v \in (i + 1) .. j \/ v \in (j + 1) .. k
  OBVIOUS
<1>2. (i + 1) .. j \subseteq (i + 1) .. k /\ (j + 1) .. k \subseteq (i + 1) .. k
  OBVIOUS
<1> QED BY <1>1, <1>2 DEF Lead

LEMMA LeadAll ==
  ASSUME NEW H, NEW i \in Nat, NEW j \in Nat
  PROVE  Lead((i + 1) .. j, H, i, j)
BY DEF Lead

LEMMA LeadNowhere ==
  ASSUME NEW H, NEW i \in Nat
  PROVE  (i + 1) .. i = {} /\ Lead({}, H, i, i)
<1>1. (i + 1) .. i = {}
  OBVIOUS
<1> QED BY <1>1 DEF Lead

\* What the worker drops when it passes a callback over has been hushed.
LEMMA DroppedIsHushed ==
  ASSUME NotifyInv, Orderly, w.pc # "idle", NEW c \in Callbacks, cb[c].on, cb[c].skip,
         NEW n, n = Of[c]
  PROVE  Ran(n) /\ (nt[n].version + 1) .. Towards \subseteq cb[c].hush
<1>1. /\ use \in Uses /\ TypeOK /\ SkipsDue /\ WriteIsCurrent
      /\ WorkerHasAll /\ VersionsInOrder /\ SkipOnTheWay
  BY DEF NotifyInv
<1>2. n \in Notifiers /\ Ran(n) /\ Awaits(c, n)
  BY <1>1, UseTyped DEF SkipsDue
<1>3. /\ latest \in Nat /\ skip \in Nat /\ w.version \in Nat /\ w.skip \in Nat
      /\ nt[n].version \in Nat
  BY <1>1, <1>2, Numbers
<1>4. Towards \in Nat /\ Towards <= w.version /\ w.version <= latest
  <2>1. w.pc = "skip" => w.skip <= w.version
    BY <1>1 DEF WorkerHasAll, SkipOnTheWay
  <2> QED BY <1>1, <1>3, <2>1 DEF Towards, VersionsInOrder
<1>5. ASSUME Towards <= nt[n].version
      PROVE  (nt[n].version + 1) .. Towards \subseteq cb[c].hush
  BY <1>3, <1>4, <1>5
<1>6. CASE t.pc = "write" /\ c \in t.ask
  <2>1. nt[n].version = latest
    BY <1>1, <1>6 DEF WriteIsCurrent
  <2> QED BY <1>2, <1>3, <1>4, <1>5, <2>1
<1>7. ASSUME NEW h \in cb[c].hush, nt[n].version + 1 = h,
             \/ skip = h /\ (w.pc # "idle" => w.version < h)
             \/ w.pc = "skip" /\ w.skip = h
      PROVE  (nt[n].version + 1) .. Towards \subseteq cb[c].hush
  <2>1. CASE skip = h /\ w.version < h
    BY <1>3, <1>4, <1>5, <1>7, <2>1
  <2>2. CASE w.pc = "skip" /\ w.skip = h
    <3>1. Towards = nt[n].version + 1
      BY <1>7, <2>2 DEF Towards
    <3>2. \A v \in (nt[n].version + 1) .. (nt[n].version + 1) : v = nt[n].version + 1
      BY <1>3
    <3> QED BY <1>7, <3>1, <3>2
  <2> QED BY <1>7, <2>1, <2>2
<1> QED BY <1>2, <1>6, <1>7 DEF Awaits

\* All that the invariant says of what a callback c of n has been told, and will be.
Account(c, n) ==
  /\ c \in t.todo => Due(c, n)
  /\ cb[c].init => Ran(n) /\ NoStop(n) /\ (c \notin t.todo => Settled(c, n))

LEMMA AccountHolds ==
  ASSUME NotifyInv, Orderly, NEW c \in Callbacks, cb[c].on
  PROVE  Account(c, Of[c])
BY DEF NotifyInv, ToBeTold, Accounted, NoStopBetween, Account

\* The worker.
LEMMA WorkerAccounts ==
  ASSUME NotifyInv, Next, Worker, Orderly, NEW c \in Callbacks, NEW n, n = Of[c],
         cb'[c].on
  PROVE  cb[c].on /\ Account(c, n)'
<1>1. /\ use \in Uses /\ use' = use /\ TypeOK /\ CallbacksWatched /\ VersionsInOrder
      /\ SkipHasNotifiers /\ WorkerHasAll
  BY DEF NotifyInv, Next
<1>2. n \in Notifiers
  BY <1>1, UseTyped
<1>3. /\ cb[c].on /\ cb'[c].init = cb[c].init /\ UNCHANGED <<latest, realm, t>>
      /\ cb'[c].hush = cb[c].hush
  BY <1>1, CollectDoes, RunDoes, SkipHandoverDoes, HandoverDoes DEF Worker, Gathered
<1>4. Account(c, n)
  BY <1>3, AccountHolds
<1>5. SUFFICES ASSUME Ran(n)
               PROVE  Account(c, n)'
  BY <1>3, <1>4 DEF Account, Due
<1>6. /\ cb'[c].give = cb[c].give /\ cb'[c].told = cb[c].told
      /\ nt'[n].version \in Nat /\ nt[n].version <= nt'[n].version
      /\ nt'[n].version = nt[n].version \/ (w.pc # "idle" /\ nt'[n].version = Towards)
      /\ cb[c].skip => cb'[c].acc = cb[c].acc
      /\ ~cb[c].skip =>
           cb'[c].acc = cb[c].acc \cup ((nt[n].version + 1) .. nt'[n].version)
  BY <1>1, <1>3, <1>5, WorkerGathers
<1>7. Ran(n)'
  BY <1>3, <1>5, WatchedStay DEF Ran
<1>8. /\ realm \in Nat /\ latest \in Nat /\ realm <= latest /\ nt[n].version \in Nat
      /\ cb[c].told \in Nat /\ skip \in Nat /\ w.version \in Nat /\ w.skip \in Nat
  BY <1>1, <1>2, Numbers DEF VersionsInOrder
<1> DEFINE more == IF cb[c].skip THEN {} ELSE (nt[n].version + 1) .. nt'[n].version
<1>9. /\ cb'[c].acc = cb[c].acc \cup more
      /\ Lead(more, cb[c].hush, nt[n].version, nt'[n].version)
      /\ nt'[n].version = nt[n].version => more = {}
  <2>1. CASE ~cb[c].skip
    <3>1. /\ Lead((nt[n].version + 1) .. nt'[n].version, cb[c].hush,
                  nt[n].version, nt'[n].version)
          /\ nt'[n].version = nt[n].version => (nt[n].version + 1) .. nt'[n].version = {}
      BY <1>6, <1>8, LeadAll, LeadNowhere
    <3> QED BY <1>6, <2>1, <3>1
  <2>2. CASE cb[c].skip
    <3>1. (nt[n].version + 1) .. nt'[n].version \subseteq cb[c].hush
      BY <1>1, <1>3, <1>6, <1>8, <2>2, DroppedIsHushed, LeadNowhere
    <3>2. Lead({}, cb[c].hush, nt[n].version, nt'[n].version)
      BY <3>1 DEF Lead
    <3> QED BY <1>6, <2>2, <3>2
  <2> QED BY <2>1, <2>2
<1> HIDE DEF more
<1>12. c \in t'.todo => Due(c, n)'
  <2>1. SUFFICES ASSUME Due(c, n)
                 PROVE  Due(c, n)'
    BY <1>3, <1>4 DEF Account
  <2>2. Lead(cb'[c].acc, cb[c].hush, realm, nt'[n].version)
    <3>1. realm <= nt[n].version /\ Lead(cb[c].acc, cb[c].hush, realm, nt[n].version)
      BY <1>8, <2>1 DEF Due
    <3>2. Lead(cb[c].acc \cup more, cb[c].hush, realm, nt'[n].version)
      BY <1>6, <1>8, <1>9, <3>1, LeadJoin
    <3> QED BY <1>9, <3>2
  <2>3. nt'[n].version >= realm
    BY <1>6, <1>8, <2>1 DEF Due
  <2> QED BY <1>3, <1>6, <1>7, <2>1, <2>2, <2>3 DEF Due
<1>10. ASSUME cb[c].init, NoStop(n)
       PROVE  NoStop(n)'
  <2>1. CASE Collect
    <3>1. \/ w'.pc = "idle" /\ (skip' = 0 \/ skip' = skip)
          \/ /\ skip' = 0 /\ w'.version = latest
             /\ w'.pc = "skip" => w'.skip = skip /\ skip # 0
      BY <1>1, <2>1, CollectDoes
    <3> QED BY <1>3, <1>8, <1>10, <3>1 DEF NoStop
  <2>2. CASE \E m \in Notifiers : run(m)
    BY <1>1, <1>2, <1>3, <1>10, <2>2, RunDoes DEF NoStop
  <2>3. CASE SkipHandover
    <3>1. w.pc = "skip" /\ w'.pc = "run" /\ w'.version = w.version /\ skip' = skip
      BY <1>1, <2>3, SkipHandoverDoes
    <3> QED BY <1>3, <1>6, <1>8, <1>10, <3>1 DEF NoStop
  <2>4. CASE Handover
    <3>1. w'.pc = "idle"
      BY <1>1, <2>4, HandoverDoes DEF Idle
    <3>2. skip' = 0 \/ skip' = skip
      BY <1>1, <2>4, HandoverDoes
    <3> QED BY <1>3, <1>10, <3>1, <3>2 DEF NoStop
  <2> QED BY <2>1, <2>2, <2>3, <2>4 DEF Worker
<1>11. ASSUME Settled(c, n), NoStop(n)
       PROVE  Settled(c, n)'
  <2>1. Lead(cb'[c].acc, cb[c].hush, cb[c].told, nt'[n].version)
    <3>1. /\ cb[c].told <= nt[n].version
          /\ Lead(cb[c].acc, cb[c].hush, cb[c].told, nt[n].version)
      BY <1>11 DEF Settled
    <3>2. Lead(cb[c].acc \cup more, cb[c].hush, cb[c].told, nt'[n].version)
      BY <1>6, <1>8, <1>9, <3>1, LeadJoin
    <3> QED BY <1>9, <3>2
  <2>2. cb[c].told <= nt'[n].version
    BY <1>6, <1>8, <1>11 DEF Settled
  <2>3. nt'[n].version < realm => nt'[n].version = nt[n].version
    BY <1>6, <1>8, <1>11 DEF NoStop, Towards
  <2>4. nt'[n].version < realm => cb'[c].acc = {}
    <3>1. SUFFICES ASSUME nt'[n].version < realm
                   PROVE  cb'[c].acc = {}
      OBVIOUS
    <3>2. nt'[n].version = nt[n].version /\ nt[n].version < realm
      BY <2>3, <3>1
    <3>3. more = {} /\ cb[c].acc = {}
      BY <1>9, <1>11, <3>2 DEF Settled
    <3> QED BY <1>9, <3>3
  <2> QED BY <1>3, <1>6, <2>1, <2>2, <2>4 DEF Settled
<1> QED BY <1>3, <1>4, <1>7, <1>10, <1>11, <1>12 DEF Account

\* The steps that leave the callbacks, the Realm and the worker alone.
LEMMA StillAccounts ==
  ASSUME NotifyInv, Next, NotifierStep, Orderly, NEW c \in Callbacks, NEW n, n = Of[c],
         cb[c].on, ToldKept(c), realm' = realm, skip' = skip,
         c \in t'.todo <=> c \in t.todo
  PROVE  Account(c, n)'
<1>1. w' = w
  BY DEF NotifierStep
<1>2. /\ nt'[n].place = nt[n].place /\ nt'[n].ran = nt[n].ran
      /\ nt'[n].version = nt[n].version
  BY OthersLeave
<1>3. Account(c, n)
  BY AccountHolds
<1>4. \A A, i, j : Lead(A, cb[c].hush, i, j) => Lead(A, cb'[c].hush, i, j)
  BY DEF Lead, ToldKept
<1>5. Due(c, n) => Due(c, n)'
  BY <1>2, <1>4 DEF Due, Ran, ToldKept
<1>6. Settled(c, n) => Settled(c, n)'
  BY <1>2, <1>4 DEF Settled, ToldKept
<1>7. NoStop(n) => NoStop(n)'
  BY <1>1, <1>2 DEF NoStop
<1> QED BY <1>2, <1>3, <1>5, <1>6, <1>7 DEF Account, Ran, ToldKept

\* A callback that is given what has gathered, for the version of its notifier.
LEMMA GivenIsDue ==
  ASSUME NotifyInv, Next, NotifierStep, Orderly, NEW c \in Callbacks, NEW n, n = Of[c],
         cb[c].on, t.todo = {}, Ran(n),
         NEW ns, Given(ns), n \in ns, realm' = nt[n].version, skip' = skip,
         c \in t'.todo
  PROVE  Account(c, n)'
<1>1. w' = w /\ use \in Uses /\ TypeOK /\ VersionsInOrder
  BY DEF NotifierStep, NotifyInv
<1>2. /\ nt'[n].place = nt[n].place /\ nt'[n].ran = nt[n].ran
      /\ nt'[n].version = nt[n].version
  BY OthersLeave
<1>3. Account(c, n) /\ n \in Notifiers
  BY <1>1, AccountHolds, UseTyped
<1>4. /\ cb'[c].init = cb[c].init /\ cb'[c].told = cb[c].told
      /\ cb'[c].give = cb[c].acc /\ cb'[c].acc = {} /\ cb'[c].hush = cb[c].hush
  BY DEF Given
<1>5. nt[n].version \in Nat /\ skip \in Nat /\ w.version \in Nat /\ w.skip \in Nat
  BY <1>1, <1>3, Numbers
<1>6. Due(c, n)'
  <2>1. /\ Lead({}, cb[c].hush, nt[n].version, nt[n].version)
        /\ nt[n].version >= nt[n].version
    BY <1>5, LeadNowhere
  <2>2. cb[c].init => Settled(c, n)
    BY <1>3 DEF Account
  <2> QED BY <1>2, <1>4, <2>1, <2>2 DEF Due, Settled, Ran
<1>7. NoStop(n)'
  BY <1>1, <1>2, <1>3, <1>5 DEF NoStop, VersionsInOrder
<1> QED BY <1>2, <1>6, <1>7 DEF Account, Ran

LEMMA DeliveryAccounts ==
  ASSUME NotifyInv, Next, NotifierStep, Orderly, Delivering, NEW c \in Callbacks, NEW n,
         n = Of[c], cb'[c].on
  PROVE  Account(c, n)'
<1>1. /\ use \in Uses /\ use' = use /\ TypeOK /\ CallbacksWatched /\ VersionsInOrder
      /\ PlacesKept /\ SameVersion /\ ToBeTold /\ WaitsForAll
  BY DEF NotifyInv, Next
<1>2. cb[c].on /\ n \in Notifiers
  <2>1. \E ns : Given(ns)
    BY DeliveringGives
  <2> QED BY <1>1, <2>1, UseTyped DEF Given
<1>3. Account(c, n) /\ nt[n].alive /\ nt[n].place \in {"new", "main"}
  BY <1>1, <1>2, AccountHolds DEF CallbacksWatched
<1>4. /\ latest \in Nat /\ realm \in Nat /\ \A m \in Notifiers : nt[m].version \in Nat
  BY <1>1, Numbers
<1>5. t.pc \notin {"sending", "begun"} => t.todo = {}
  BY <1>1 DEF ToBeTold
<1>6. CASE PromoteToWrite
  <2>1. /\ t.pc = "promote" /\ Ready(t.pkg, t.target) /\ realm' = latest /\ skip' = skip
        /\ Given(Packaged(t.pkg))
        /\ t'.todo = On(IF PackageVersions(Packaged(t.pkg), t.target) = {} THEN {}
                        ELSE Packaged(t.pkg))
    BY <1>1, <1>6, PromoteDoes DEF Delivery
  <2>2. /\ Ran(n) /\ nt[n].version >= t.target /\ n \in Packaged(t.pkg)
        /\ PackageVersions(Packaged(t.pkg), t.target) # {}
    BY <1>1, <1>2, <2>1, Waited
  <2>3. realm' = nt[n].version
    BY <1>1, <1>2, <1>4, <2>1, <2>2 DEF WaitsForAll, VersionsInOrder
  <2>4. c \in t'.todo
    BY <1>2, <2>1, <2>2 DEF On
  <2> QED BY <1>2, <1>5, <2>1, <2>2, <2>3, <2>4, GivenIsDue
<1>7. CASE advance_to_latest
  <2>1. /\ t.pc = "refresh" /\ Ready(t.pkg, t.target) /\ skip' = skip
        /\ Given(Packaged(t.pkg))
        /\ t'.todo = On(IF PackageVersions(Packaged(t.pkg), t.target) = {} THEN {}
                        ELSE Packaged(t.pkg))
        /\ realm' \in IF PackageVersions(Packaged(t.pkg), t.target) = {} THEN {latest}
                      ELSE PackageVersions(Packaged(t.pkg), t.target)
    BY <1>1, <1>7, AdvanceDoes DEF Delivery
  <2>2. /\ Ran(n) /\ n \in Packaged(t.pkg)
        /\ PackageVersions(Packaged(t.pkg), t.target) # {}
    BY <1>1, <1>2, <2>1, Waited
  <2>3. PICK m \in Packaged(t.pkg) : realm' = nt[m].version
    BY <2>1, <2>2 DEF PackageVersions
  <2>4. m \in Notifiers /\ nt[m].ran /\ nt[m].alive
    BY <1>1, <2>3 DEF Packaged, TypeOK, TargetType
  <2>5. Ran(m)
    <3>1. nt[m].place \in {"none", "new", "main", "gone"}
      BY <1>1, <2>4 DEF TypeOK, NotifierType
    <3> QED BY <1>1, <2>4, <3>1 DEF PlacesKept, Ran
  <2>6. realm' = nt[n].version
    BY <1>1, <1>2, <2>2, <2>3, <2>4, <2>5 DEF SameVersion
  <2>7. c \in t'.todo
    BY <1>2, <2>1, <2>2 DEF On
  <2> QED BY <1>2, <1>5, <2>1, <2>2, <2>6, <2>7, GivenIsDue
<1>8. CASE process_available_async
  <2>1. /\ t.pc = "idle" /\ Given(AtRealm) /\ t'.todo = On(AtRealm)
        /\ realm' = realm /\ skip' = skip
    BY <1>1, <1>8, ProcessDoes DEF Delivery
  <2>2. CASE n \in AtRealm
    <3>1. Ran(n) /\ realm' = nt[n].version
      BY <1>1, <1>2, <1>3, <2>1, <2>2 DEF AtRealm, Packaged, PlacesKept, Ran
    <3>2. c \in t'.todo
      BY <1>2, <2>1, <2>2 DEF On
    <3> QED BY <1>2, <1>5, <2>1, <2>2, <3>1, <3>2, GivenIsDue
  <2>3. CASE n \notin AtRealm
    <3>1. ToldKept(c)
      BY <2>1, <2>3 DEF Given, ToldKept
    <3>2. c \notin t'.todo /\ t.todo = {}
      BY <1>5, <2>1, <2>3 DEF On
    <3> QED BY <1>2, <2>1, <3>1, <3>2, StillAccounts
  <2> QED BY <2>2, <2>3
<1>9. CASE advance_to_ready
  <2> DEFINE ns == Packaged(notifiers_for_realm)
  <2>1. /\ t.pc = "idle" /\ Given(ns) /\ skip' = skip /\ w' = w
        /\ \/ ns = {} /\ realm' = latest /\ t' = t
           \/ realm' = realm /\ t' = t /\ \E m \in ns : nt[m].version < realm
           \/ /\ \E m \in ns : nt[m].version >= realm /\ realm' = nt[m].version
              /\ t'.todo = On(ns)
    BY <1>1, <1>9, ReadyDoes DEF Delivery
  <2>2. \A m \in ns : m \in Notifiers /\ Ran(m)
    BY <1>1 DEF Packaged, notifiers_for_realm, PlacesKept, Ran
  <2>3. Ran(n) => n \in ns
    BY <1>2, <1>3 DEF Ran, Packaged, notifiers_for_realm
  <2> HIDE DEF ns
  <2>4. t.todo = {}
    BY <1>5, <2>1
  <2>5. CASE n \notin ns
    <3>1. ~cb[c].init /\ cb'[c].init = cb[c].init
      BY <1>3, <2>1, <2>3, <2>5 DEF Account, Given
    <3>2. c \notin t'.todo
      BY <2>1, <2>4, <2>5 DEF On
    <3> QED BY <3>1, <3>2 DEF Account
  <2>6. CASE n \in ns /\ realm' = realm /\ t' = t /\ \E m \in ns : nt[m].version < realm
    <3>1. nt[n].version < realm
      BY <1>1, <1>2, <2>2, <2>6 DEF SameVersion
    <3>2. cb[c].init => Settled(c, n) /\ cb[c].acc = {}
      <4>1. cb[c].init => Settled(c, n)
        BY <1>3, <2>4 DEF Account
      <4> QED BY <1>2, <1>4, <3>1, <4>1 DEF Settled
    <3>3. /\ nt'[n].place = nt[n].place /\ nt'[n].ran = nt[n].ran
          /\ nt'[n].version = nt[n].version
      BY <1>2, OthersLeave
    <3>4. /\ cb'[c].init = cb[c].init /\ cb'[c].told = cb[c].told /\ cb'[c].acc = {}
          /\ cb'[c].hush = cb[c].hush
      BY <1>2, <2>1, <2>6 DEF Given
    <3>5. cb[c].init => Settled(c, n)'
      BY <2>6, <3>2, <3>3, <3>4 DEF Settled
    <3>6. cb[c].init => Ran(n)' /\ NoStop(n)'
      BY <1>3, <2>1, <2>6, <3>3 DEF Account, NoStop, Ran
    <3> QED BY <2>4, <2>6, <3>4, <3>5, <3>6 DEF Account
  <2>7. CASE /\ n \in ns /\ t'.todo = On(ns)
             /\ \E m \in ns : nt[m].version >= realm /\ realm' = nt[m].version
    <3>1. realm' = nt[n].version
      BY <1>1, <1>2, <2>2, <2>7 DEF SameVersion
    <3>2. c \in t'.todo
      BY <1>2, <2>7 DEF On
    <3> QED BY <1>2, <2>1, <2>2, <2>4, <2>7, <3>1, <3>2, GivenIsDue
  <2> QED BY <2>1, <2>5, <2>6, <2>7
<1> QED BY <1>6, <1>7, <1>8, <1>9 DEF Delivering

\* A callback is passed over, or called.
LEMMA TellingAccounts ==
  ASSUME NotifyInv, Next, NotifierStep, Orderly, NEW c \in Callbacks, NEW n, n = Of[c],
         PassOver(c) \/ Call(c), cb'[c].on
  PROVE  Account(c, n)'
<1>1. use \in Uses /\ TypeOK /\ VersionsInOrder /\ w' = w
  BY DEF NotifyInv, NotifierStep
<1>2. /\ cb[c].on /\ c \in t.todo /\ c \notin t'.todo /\ realm' = realm /\ skip' = skip
      /\ cb'[c].acc = cb[c].acc /\ cb'[c].hush = cb[c].hush
  BY <1>1, PassOverDoes, CallDoes DEF TargetStep
<1>3. Account(c, n) /\ n \in Notifiers
  BY <1>1, <1>2, AccountHolds, UseTyped
<1>4. Due(c, n)
  BY <1>2, <1>3 DEF Account
<1>5. /\ nt'[n].place = nt[n].place /\ nt'[n].ran = nt[n].ran
      /\ nt'[n].version = nt[n].version
  BY <1>2, OthersLeave
<1>6. /\ realm \in Nat /\ cb[c].told \in Nat /\ nt[n].version \in Nat
      /\ skip \in Nat /\ w.version \in Nat /\ w.skip \in Nat
  BY <1>1, <1>3, Numbers
<1>7. /\ cb'[c].told \in Nat /\ cb'[c].told <= realm
      /\ Lead({}, cb[c].hush, cb'[c].told, realm)
  <2>1. CASE PassOver(c)
    <3>1. cb' = cb /\ cb[c].init /\ cb[c].give = {}
      BY <1>1, <1>2, <2>1, PassOverDoes DEF TargetStep
    <3> QED BY <1>4, <1>6, <3>1 DEF Due
  <2>2. CASE Call(c)
    <3>1. cb'[c].told = realm
      BY <1>1, <2>2, CallDoes
    <3> QED BY <1>6, <3>1, LeadNowhere
  <2> QED BY <2>1, <2>2
<1>8. Settled(c, n)'
  <2>1. nt[n].version >= realm /\ Lead(cb[c].acc, cb[c].hush, realm, nt[n].version)
    BY <1>4 DEF Due
  <2>2. {} \cup cb[c].acc = cb[c].acc
    OBVIOUS
  <2>3. Lead(cb[c].acc, cb[c].hush, cb'[c].told, nt[n].version)
    BY <1>6, <1>7, <2>1, <2>2, LeadJoin
  <2> QED BY <1>2, <1>5, <1>6, <1>7, <2>1, <2>3 DEF Settled
<1>9. NoStop(n)'
  <2>1. /\ w.pc # "idle" => w.version >= nt[n].version
        /\ w.pc = "skip" => w.skip >= nt[n].version
        /\ skip # 0 => skip >= nt[n].version
    BY <1>1, <1>3, <1>4 DEF Due, VersionsInOrder
  <2> QED BY <1>1, <1>2, <1>4, <1>5, <1>6, <2>1 DEF Due, NoStop
<1> QED BY <1>2, <1>4, <1>5, <1>8, <1>9 DEF Account, Due, Ran

\* A commit of the target thread: nothing waits to be told, and the worker is asked
\* to stop at it.
LEMMA CommitAccounts ==
  ASSUME NotifyInv, Next, NotifierStep, Orderly, commit_write, NEW c \in Callbacks, NEW n,
         n = Of[c], cb'[c].on
  PROVE  Account(c, n)'
<1>1. /\ use \in Uses /\ TypeOK /\ VersionsInOrder /\ WriteIsCurrent /\ ToBeTold
      /\ CallbacksWatched /\ SkipOnTheWay /\ WorkerHasAll /\ w' = w
  BY DEF NotifyInv, NotifierStep
<1>2. /\ t.pc = "write" /\ latest' = latest + 1 /\ realm' = latest + 1
      /\ skip' = IF HaveNotifiers THEN latest + 1 ELSE skip
      /\ t'.todo = {} /\ CallKept(c)
  BY <1>1, CommitDoes
<1>3. cb[c].on /\ cb'[c].init = cb[c].init
  BY <1>2 DEF CallKept
<1>4. Account(c, n) /\ n \in Notifiers /\ t.todo = {}
  BY <1>1, <1>2, <1>3, AccountHolds, UseTyped DEF ToBeTold
<1>5. /\ Ran(n) /\ nt[n].version = latest /\ cb[c].acc = {} /\ nt[n].alive
  BY <1>1, <1>2, <1>3 DEF WriteIsCurrent, CallbacksWatched
<1>6. /\ nt'[n].place = nt[n].place /\ nt'[n].ran = nt[n].ran
      /\ nt'[n].version = nt[n].version
  BY <1>3, OthersLeave
<1>7. /\ latest \in Nat /\ cb[c].told \in Nat /\ w.version \in Nat /\ w.skip \in Nat
      /\ nt[n].version \in Nat
  BY <1>1, <1>4, Numbers
<1>8. SUFFICES ASSUME cb[c].init
               PROVE  Ran(n)' /\ NoStop(n)' /\ Settled(c, n)'
  BY <1>2, <1>3 DEF Account
<1>9. Settled(c, n)
  BY <1>4, <1>8 DEF Account
<1>11. Settled(c, n)'
  <2>1. Lead(cb[c].acc, cb[c].hush, cb[c].told, nt[n].version) /\ cb[c].told <= nt[n].version
    BY <1>9 DEF Settled
  <2>2. Lead(cb[c].acc, cb'[c].hush, cb[c].told, nt[n].version)
    BY <1>2, <2>1 DEF Lead, CallKept
  <2> QED BY <1>2, <1>5, <1>6, <2>1, <2>2 DEF Settled, CallKept
<1>12. HaveNotifiers
  BY <1>4, <1>5 DEF HaveNotifiers, Main, Ran
<1>13. NoStop(n)'
  <2>1. /\ w.pc # "idle" => w.version <= nt[n].version
        /\ w.pc = "skip" => w.skip <= nt[n].version
    BY <1>1, <1>5, <1>7 DEF VersionsInOrder, SkipOnTheWay, WorkerHasAll
  <2>2. skip' >= realm'
    BY <1>2, <1>7, <1>12
  <2> QED BY <1>1, <1>6, <2>1, <2>2 DEF NoStop
<1> QED BY <1>5, <1>6, <1>11, <1>13 DEF Ran

LEMMA AccountsKept ==
  ASSUME NotifyInv, Next, TypeOK'
  PROVE  ToBeTold' /\ Accounted' /\ NoStopBetween'
<1>1. /\ use \in Uses /\ use' = use /\ TypeOK /\ CallbacksWatched /\ ToBeTold
  BY DEF NotifyInv, Next
<1>2. /\ Callbacks' = Callbacks /\ Of' = Of /\ Orderly' = Orderly
      /\ \A c \in Callbacks : Of[c] \in Notifiers
  BY <1>1, UseKept, UseTyped
<1>3. t'.todo \subseteq Callbacks
  BY <1>1, UseKept DEF TypeOK, TargetType
<1>4. SUFFICES ASSUME Orderly
               PROVE  /\ t'.pc \notin {"sending", "begun"} => t'.todo = {}
                      /\ \A c \in Callbacks : \A n : n = Of[c] /\ cb'[c].on => Account(c, n)'
  <2>1. SUFFICES ASSUME Orderly
                 PROVE  /\ t'.pc \notin {"sending", "begun"} => t'.todo = {}
                        /\ \A c \in Callbacks : cb'[c].on =>
                             /\ c \in t'.todo => Due(c, Of[c])'
                             /\ cb'[c].init =>
                                  /\ Ran(Of[c])' /\ NoStop(Of[c])'
                                  /\ c \notin t'.todo => Settled(c, Of[c])'
    BY <1>2, <1>3, <2>1 DEF ToBeTold, Accounted, NoStopBetween
  <2>2. ASSUME NEW c \in Callbacks, NEW n, n = Of[c], Account(c, n)'
        PROVE  /\ c \in t'.todo => Due(c, Of[c])'
               /\ cb'[c].init =>
                    /\ Ran(Of[c])' /\ NoStop(Of[c])'
                    /\ c \notin t'.todo => Settled(c, Of[c])'
    BY <1>2, <2>2 DEF Account, Due, Settled, NoStop, Ran
  <2> QED BY <1>4, <2>1, <2>2
<1>5. t.pc \notin {"sending", "begun"} => t.todo = {}
  BY <1>1, <1>4 DEF ToBeTold
<1> DEFINE Empty == t'.pc \notin {"sending", "begun"} => t'.todo = {}
           Square(c) == \A n : n = Of[c] /\ cb'[c].on => Account(c, n)'
           Same == /\ realm' = realm /\ skip' = skip /\ cb' = cb /\ t'.todo = t.todo
<1>6. CASE Worker
  <2>1. t' = t
    BY <1>1, <1>6, CollectDoes, RunDoes, SkipHandoverDoes, HandoverDoes DEF Worker
  <2> QED BY <1>4, <1>5, <1>6, <2>1, WorkerAccounts
<1>7. SUFFICES ASSUME NotifierStep
               PROVE  Empty /\ \A c \in Callbacks : Square(c)
  BY <1>6, WorkerOrNotifierStep
<1>8. ASSUME Same
      PROVE  \A c \in Callbacks : Square(c)
  BY <1>4, <1>7, <1>8, StillAccounts DEF ToldKept
<1>9. CASE Delivering
  <2>1. Empty
    BY <1>1, <1>5, <1>9, PromoteDoes, AdvanceDoes, ProcessDoes, ReadyDoes
       DEF Delivering, Delivery
  <2> QED BY <1>4, <1>7, <1>9, <2>1, DeliveryAccounts
<1>10. CASE begin_transaction \/ refresh
  <2>1. Empty /\ Same
    BY <1>1, <1>5, <1>10, BeginDoes
  <2> QED BY <1>8, <2>1
<1>11. ASSUME NEW d \in Callbacks, PassOver(d) \/ Call(d)
       PROVE  Empty /\ \A c \in Callbacks : Square(c)
  <2>1. /\ t.pc \in {"sending", "begun"} /\ t'.pc = t.pc /\ t'.todo = t.todo \ {d}
        /\ realm' = realm /\ skip' = skip
        /\ \A c \in Callbacks : c # d => CallKept(c)
    BY <1>1, <1>11, PassOverDoes, CallDoes DEF TargetStep, CallKept
  <2>2. ASSUME NEW c \in Callbacks, c # d
        PROVE  Square(c)
    <3>1. ToldKept(c) /\ (c \in t'.todo <=> c \in t.todo)
      BY <2>1, <2>2 DEF CallKept, ToldKept
    <3>2. cb'[c].on => cb[c].on
      BY <3>1 DEF ToldKept
    <3> QED BY <1>4, <1>7, <2>1, <3>1, <3>2, StillAccounts
  <2>3. Square(d)
    BY <1>4, <1>7, <1>11, TellingAccounts
  <2> QED BY <2>1, <2>2, <2>3
<1>12. CASE Return
  <2>1. Empty /\ Same
    BY <1>1, <1>5, <1>12, ReturnDoes DEF TargetStep
  <2> QED BY <1>8, <2>1
<1>13. CASE Sent \/ cancel_transaction
  <2>1. Empty /\ Same
    BY <1>1, <1>5, <1>13, EndDoes DEF TargetStep
  <2> QED BY <1>8, <2>1
<1>14. CASE NotifyInWrite
  <2>1. Empty /\ Same
    BY <1>5, <1>14 DEF NotifyInWrite
  <2> QED BY <1>8, <2>1
<1>15. ASSUME NEW d \in Callbacks, suppress_next_notification(d)
       PROVE  Empty /\ \A c \in Callbacks : Square(c)
  <2>1. /\ t'.pc = t.pc /\ t'.todo = t.todo /\ realm' = realm /\ skip' = skip
        /\ \A c \in Callbacks : ToldKept(c)
    BY <1>1, <1>15, SuppressDoes
  <2>2. Empty
    BY <1>5, <2>1
  <2>3. ASSUME NEW c \in Callbacks
        PROVE  Square(c)
    <3>1. cb'[c].on => cb[c].on
      BY <2>1 DEF ToldKept
    <3> QED BY <1>4, <1>7, <2>1, <3>1, StillAccounts
  <2> QED BY <2>2, <2>3
<1>16. CASE commit_write
  <2>1. Empty
    BY <1>1, <1>16, CommitDoes
  <2> QED BY <1>4, <1>7, <1>16, <2>1, CommitAccounts
<1>17. CASE NestedWrite \/ ForeignCommit
  <2>1. Empty /\ Same
    BY <1>1, <1>4, <1>5, <1>17, OtherCommitDoes, UseTyped
  <2> QED BY <1>8, <2>1
<1>18. CASE \E n \in Notifiers : prepare_async(n)
  BY <1>1, <1>4, <1>18, UseTyped DEF prepare_async
<1>19. ASSUME NEW d \in Callbacks, add_notification_callback(d)
       PROVE  Empty /\ \A c \in Callbacks : Square(c)
  <2>1. /\ Reset(d, TRUE) /\ t.pc \in {"idle", "write"}
        /\ UNCHANGED <<realm, skip, t>>
    BY <1>1, <1>4, <1>19, AddDoes
  <2>2. t.todo = {} /\ t'.todo = {}
    BY <1>5, <2>1
  <2>3. ASSUME NEW c \in Callbacks, c # d
        PROVE  Square(c)
    <3>1. ToldKept(c)
      BY <2>1, <2>3 DEF Reset, CallKept, ToldKept
    <3>2. cb'[c].on => cb[c].on
      BY <3>1 DEF ToldKept
    <3> QED BY <1>4, <1>7, <2>1, <2>2, <3>1, <3>2, StillAccounts
  <2>4. Square(d)
    BY <2>1, <2>2 DEF Reset, Account
  <2> QED BY <2>2, <2>3, <2>4
<1>20. ASSUME NEW d \in Callbacks, remove_callback(d)
       PROVE  Empty /\ \A c \in Callbacks : Square(c)
  <2>1. /\ Reset(d, FALSE) /\ t'.pc = t.pc /\ t'.todo = t.todo \ {d}
        /\ realm' = realm /\ skip' = skip
    BY <1>1, <1>20, RemoveDoes
  <2>2. Empty
    BY <1>5, <2>1
  <2>3. ASSUME NEW c \in Callbacks, c # d
        PROVE  Square(c)
    <3>1. ToldKept(c) /\ (c \in t'.todo <=> c \in t.todo)
      BY <2>1, <2>3 DEF Reset, CallKept, ToldKept
    <3>2. cb'[c].on => cb[c].on
      BY <3>1 DEF ToldKept
    <3> QED BY <1>4, <1>7, <2>1, <3>1, <3>2, StillAccounts
  <2>4. Square(d)
    BY <2>1 DEF Reset
  <2> QED BY <2>2, <2>3, <2>4
<1>21. CASE \E n \in Notifiers : unregister(n) \/ get_tableview(n)
  <2>1. Empty /\ Same
    BY <1>5, <1>21 DEF unregister, get_tableview
  <2> QED BY <1>8, <2>1
<1> QED
  BY <1>6, <1>9, <1>10, <1>11, <1>12, <1>13, <1>14, <1>15, <1>16, <1>17, <1>18, <1>19,
     <1>20, <1>21
     DEF Next, Sending, User, Delivering

-----------------------------------------------------------------------------
(* Theorems                                                                *)

\* At first there is nothing but the Realm.
LEMMA NotifyStarts ==
  ASSUME Init
  PROVE  NotifyInv
<1>1. /\ use \in Uses /\ latest = 1 /\ realm = 1 /\ skip = 0
      /\ nt = [n \in Notifiers |-> NoNotifier] /\ cb = [c \in Callbacks |-> NoCallback]
      /\ w = Idle /\ t = Free /\ wake = FALSE /\ posted = FALSE /\ adds = 0
  BY DEF Init
<1>2. MaxVersion \in Nat /\ MaxVersion > 0 /\ \A c \in Callbacks : Of[c] \in Notifiers
  BY <1>1, UseTyped
<1>3. /\ NoNotifier \in NotifierType /\ NoNotifier.place = "none"
      /\ NoNotifier.ran = FALSE /\ NoNotifier.change = {} /\ NoNotifier.version = 0
  BY <1>2 DEF NoNotifier, NotifierType
<1>4. /\ NoCallback \in CallbackType /\ NoCallback.on = FALSE /\ NoCallback.skip = FALSE
  BY <1>2 DEF NoCallback, CallbackType
<1>5. w \in WorkerType /\ w.pc = "idle" /\ w.skip = 0
  BY <1>1, <1>2 DEF Idle, WorkerType
<1>6. t \in TargetType /\ t.pc = "idle" /\ t.target = 0 /\ t.todo = {}
  BY <1>1, <1>2 DEF Free, TargetType
<1>7. /\ \A n \in Notifiers : /\ nt[n].place = "none" /\ nt[n].ran = FALSE
                              /\ nt[n].change = {} /\ nt[n].version = 0
      /\ \A c \in Callbacks : cb[c].on = FALSE /\ cb[c].skip = FALSE
  BY <1>1, <1>3, <1>4
<1>8. TypeOK
  <2>1. wake \in BOOLEAN /\ posted \in BOOLEAN
    BY <1>1
  <2>2. adds \in 0 .. MaxAdds
    BY <1>1, NotificationsAssumption
  <2>3. latest \in Versions /\ realm \in Versions /\ skip \in 0 .. MaxVersion
    BY <1>1, <1>2 DEF Versions
  <2>4. nt \in [Notifiers -> NotifierType] /\ cb \in [Callbacks -> CallbackType]
    BY <1>1, <1>3, <1>4
  <2> QED BY <1>5, <1>6, <2>1, <2>2, <2>3, <2>4 DEF TypeOK
<1>9. PlacesKept /\ WorkerHasAll /\ SameVersion
  BY <1>5, <1>7 DEF PlacesKept, WorkerHasAll, SameVersion, Ran
<1>10. VersionsInOrder /\ SkipOnTheWay /\ SkipHasNotifiers
  BY <1>1, <1>5, <1>6, <1>7 DEF VersionsInOrder, SkipOnTheWay, SkipHasNotifiers, Ran
<1>11. CallbacksWatched /\ RowsFollow /\ WaitsForAll /\ WriteIsCurrent /\ SkipsAlone
  BY <1>2, <1>6, <1>7
     DEF CallbacksWatched, RowsFollow, WaitsForAll, WriteIsCurrent, SkipsAlone
<1>12. SkipsDue /\ ToBeTold /\ Accounted /\ NoStopBetween
  BY <1>6, <1>7 DEF SkipsDue, ToBeTold, Accounted, NoStopBetween
<1> QED BY <1>1, <1>8, <1>9, <1>10, <1>11, <1>12 DEF NotifyInv

LEMMA NotifyStutters ==
  ASSUME NotifyInv, UNCHANGED vars
  PROVE  NotifyInv'
<1>1. UNCHANGED <<use, latest, realm, nt, cb, skip, w, t, wake, posted, adds>>
  BY DEF vars
<1>2. /\ Callbacks' = Callbacks /\ Notifiers' = Notifiers /\ Of' = Of
      /\ Orderly' = Orderly /\ Main' = Main /\ Towards' = Towards
      /\ \A n : Ran(n)' = Ran(n)
  BY <1>1, UseKept DEF NotifyInv, Main, Towards, Ran, Orderly, Callbacks,
                       Notifiers, Of
<1>3. (use \in Uses)' /\ TypeOK'
  BY <1>1, UseKept DEF NotifyInv, TypeOK
<1>4. PlacesKept' /\ WorkerHasAll' /\ SkipOnTheWay' /\ SkipHasNotifiers'
  BY <1>1, <1>2
     DEF NotifyInv, PlacesKept, WorkerHasAll, SkipOnTheWay, SkipHasNotifiers
<1>5. SameVersion' /\ VersionsInOrder'
  BY <1>1, <1>2 DEF NotifyInv, SameVersion, VersionsInOrder, Ran
<1>6. CallbacksWatched' /\ RowsFollow' /\ WaitsForAll'
  BY <1>1, <1>2 DEF NotifyInv, CallbacksWatched, RowsFollow, WaitsForAll
<1>7. WriteIsCurrent' /\ SkipsAlone' /\ SkipsDue'
  BY <1>1, <1>2 DEF NotifyInv, WriteIsCurrent, SkipsAlone, SkipsDue, Awaits, Ran
<1>8. ToBeTold' /\ Accounted' /\ NoStopBetween'
  BY <1>1, <1>2
     DEF NotifyInv, ToBeTold, Accounted, NoStopBetween, Due, Settled, NoStop, Ran
<1> QED BY <1>3, <1>4, <1>5, <1>6, <1>7, <1>8 DEF NotifyInv

\* The inductive invariant holds, however the Realm is used.
THEOREM NotifyInvariant == Spec => []NotifyInv
<1>1. Init => NotifyInv
  BY NotifyStarts
<1>2. NotifyInv /\ [Next]_vars => NotifyInv'
  <2>1. SUFFICES ASSUME NotifyInv, [Next]_vars
                 PROVE  NotifyInv'
    OBVIOUS
  <2>2. CASE UNCHANGED vars
    BY <2>1, <2>2, NotifyStutters
  <2>3. CASE Next
    <3>1. (use \in Uses)' /\ TypeOK'
      BY <2>1, <2>3, TypesKept DEF NotifyInv, Next
    <3>2. PlacesKept' /\ WorkerHasAll' /\ SameVersion' /\ SkipOnTheWay'
      BY <2>1, <2>3, WorkerKept
    <3>3. VersionsInOrder' /\ SkipHasNotifiers'
      BY <2>1, <2>3, VersionsKept
    <3>4. CallbacksWatched' /\ RowsFollow'
      BY <2>1, <2>3, WatchedKept, RowsKept
    <3>5. WaitsForAll' /\ WriteIsCurrent' /\ SkipsAlone' /\ SkipsDue'
      BY <2>1, <2>3, WaitingKept, WriteKept, SkipsKept, DueKept
    <3>6. ToBeTold' /\ Accounted' /\ NoStopBetween'
      BY <2>1, <2>3, <3>1, AccountsKept
    <3> QED BY <3>1, <3>2, <3>3, <3>4, <3>5, <3>6 DEF NotifyInv
  <2> QED BY <2>1, <2>2, <2>3
<1> QED BY <1>1, <1>2, PTL DEF Spec

\* The hand-over between the target thread and the worker stays in order: typed, the
\* worker asked to stop only on its way, and, when it passes a callback over, no
\* change dropped but that of the commit which asked for it.
THEOREM HandOverStaysInOrder == Spec => []HandOverInOrder
<1>1. NotifyInv => DropsOnlyHushed
  <2>1. SUFFICES ASSUME NotifyInv, Orderly, w.pc # "idle", w.todo = {},
                        NEW c \in Callbacks, cb[c].on, Of[c] \in w.new \cup w.old,
                        cb[c].skip
                 PROVE  cb[c].acc = {} /\ nt[Of[c]].change \subseteq cb[c].hush
    BY DEF DropsOnlyHushed, On
  <2>2. /\ SkipsAlone /\ RowsFollow /\ WorkerHasAll /\ Of[c] \in Notifiers
    BY <2>1, UseTyped DEF NotifyInv
  <2>3. cb[c].acc = {}
    BY <2>1, <2>2 DEF SkipsAlone
  <2>4. Follows(Of[c])
    BY <2>1, <2>2 DEF RowsFollow, Follows, WorkerHasAll
  <2>5. (nt[Of[c]].version + 1) .. Towards \subseteq cb[c].hush
    BY <2>1, DroppedIsHushed
  <2>6. nt[Of[c]].change \subseteq cb[c].hush
    BY <2>4, <2>5 DEF Follows
  <2> QED BY <2>3, <2>6
<1>2. NotifyInv => HandOverInOrder
  BY <1>1 DEF NotifyInv, HandOverInOrder
<1> QED BY <1>2, NotifyInvariant, PTL

\* A callback that is called is told exactly what lies between the version it was
\* told last and the version the Realm is at, but for commits it asked not to hear of.
THEOREM DeliveryIsExact == Spec => DeliveryExact
<1>1. NotifyInv /\ [Next]_vars =>
        [Orderly => \A c \in Callbacks :
           Call(c) /\ cb[c].init => Lead(cb[c].give, cb[c].hush, cb[c].told, realm)]_vars
  <2>1. ASSUME NotifyInv, Orderly, NEW c \in Callbacks, Call(c), cb[c].init
        PROVE  Lead(cb[c].give, cb[c].hush, cb[c].told, realm)
    <3>1. cb[c].on /\ c \in t.todo
      BY <2>1 DEF Call
    <3>2. Due(c, Of[c])
      BY <2>1, <3>1, AccountHolds DEF Account
    <3> QED BY <2>1, <3>2 DEF Due
  <2> QED BY <2>1
<1> QED BY <1>1, NotifyInvariant, PTL DEF Spec, DeliveryExact

\* While the target thread waits to refresh, what it waits for is not older than
\* what the Realm reads.
RefreshAhead == t.pc = "refresh" => t.target >= realm

LEMMA RealmGoesOn ==
  ASSUME NotifyInv, RefreshAhead, Next
  PROVE  realm' >= realm /\ RefreshAhead'
<1>1. /\ use \in Uses /\ use' = use /\ TypeOK /\ CallbacksWatched /\ VersionsInOrder
  BY DEF NotifyInv, Next
<1>2. /\ latest \in Nat /\ realm \in Nat /\ t.target \in Nat
      /\ realm <= latest /\ realm >= realm /\ latest >= realm /\ latest + 1 >= realm
      /\ \A n \in Notifiers : nt[n].version \in Nat
  BY <1>1, Numbers DEF VersionsInOrder
<1>3. ASSUME realm' = realm, t'.pc = t.pc \/ t'.pc # "refresh", t'.pc = t.pc => t'.target = t.target
      PROVE  realm' >= realm /\ RefreshAhead'
  BY <1>2, <1>3 DEF RefreshAhead
<1>4. CASE Worker
  <2>1. UNCHANGED <<realm, t>>
    BY <1>1, <1>4, CollectDoes, RunDoes, SkipHandoverDoes, HandoverDoes DEF Worker
  <2> QED BY <1>3, <2>1
<1>5. CASE begin_transaction \/ refresh
  BY <1>1, <1>2, <1>5, BeginDoes DEF RefreshAhead
<1>6. CASE PromoteToWrite
  BY <1>1, <1>2, <1>6, PromoteDoes DEF RefreshAhead, Delivery
<1>7. CASE advance_to_latest
  <2>1. /\ t.pc = "refresh" /\ t'.pc = "sending"
        /\ realm' \in IF PackageVersions(Packaged(t.pkg), t.target) = {} THEN {latest}
                      ELSE PackageVersions(Packaged(t.pkg), t.target)
    BY <1>1, <1>7, AdvanceDoes DEF Delivery
  <2>2. realm' = latest \/ \E n \in Packaged(t.pkg) : realm' = nt[n].version
                                                      /\ nt[n].version >= t.target
    BY <2>1 DEF PackageVersions
  <2>3. Packaged(t.pkg) \subseteq Notifiers
    BY <1>1 DEF Packaged, TypeOK, TargetType
  <2>4. realm' >= realm
    BY <1>2, <2>1, <2>2, <2>3 DEF RefreshAhead
  <2> QED BY <2>1, <2>4 DEF RefreshAhead
<1>8. CASE process_available_async
  BY <1>1, <1>2, <1>8, ProcessDoes DEF RefreshAhead, Delivery
<1>9. CASE advance_to_ready
  BY <1>1, <1>2, <1>9, ReadyDoes DEF RefreshAhead, Delivery
<1>10. CASE \E c \in Callbacks : PassOver(c) \/ Call(c)
  <2>1. realm' = realm /\ t'.pc = t.pc /\ t'.target = t.target
    BY <1>1, <1>10, PassOverDoes, CallDoes DEF TargetStep
  <2> QED BY <1>3, <2>1
<1>11. CASE Return
  <2>1. realm' = realm /\ t'.pc = t.pc /\ t'.target = t.target
    BY <1>1, <1>11, ReturnDoes DEF TargetStep
  <2> QED BY <1>3, <2>1
<1>12. CASE Sent \/ cancel_transaction
  BY <1>1, <1>2, <1>12, EndDoes DEF RefreshAhead, TargetStep
<1>13. CASE NotifyInWrite
  BY <1>3, <1>13 DEF NotifyInWrite
<1>14. CASE \E c \in Callbacks : suppress_next_notification(c)
  BY <1>1, <1>3, <1>14, SuppressDoes
<1>15. CASE commit_write
  BY <1>1, <1>2, <1>15, CommitDoes DEF RefreshAhead
<1>16. CASE NestedWrite
  BY <1>2, <1>16 DEF NestedWrite, RefreshAhead
<1>17. CASE ForeignCommit
  BY <1>3, <1>17 DEF ForeignCommit
<1>18. CASE \E n \in Notifiers : prepare_async(n) \/ unregister(n) \/ get_tableview(n)
  BY <1>3, <1>18 DEF prepare_async, unregister, get_tableview
<1>19. CASE \E c \in Callbacks : add_notification_callback(c)
  BY <1>1, <1>3, <1>19, AddDoes
<1>20. CASE \E c \in Callbacks : remove_callback(c)
  BY <1>1, <1>3, <1>20, RemoveDoes
<1> QED
  BY <1>4, <1>5, <1>6, <1>7, <1>8, <1>9, <1>10, <1>11, <1>12, <1>13, <1>14, <1>15, <1>16,
     <1>17, <1>18, <1>19, <1>20
     DEF Next, Sending, User

\* The Realm never goes back to an older version, however it is used: what notify()
\* or refresh() advances to is at least what is read already.
THEOREM RealmNeverGoesBack == Spec => NeverBack
<1>1. Init => RefreshAhead
  BY DEF Init, Free, RefreshAhead
<1>2. NotifyInv /\ RefreshAhead /\ [Next]_vars => RefreshAhead'
  BY RealmGoesOn DEF vars, RefreshAhead
<1>3. NotifyInv /\ RefreshAhead /\ [Next]_vars => [realm' >= realm]_vars
  BY RealmGoesOn
<1> QED BY <1>1, <1>2, <1>3, NotifyInvariant, PTL DEF Spec, NeverBack
=============================================================================
