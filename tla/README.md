# notVK: a TLA+ model of the application and of the Realm code under it

notVK is an iOS client for the VK social network, written in Swift on UIKit and
Realm. The application is the code under `src/notVK/notVK/Sources`. Realm's object
store, the C++ layer between Realm's storage engine and its Swift interface, is in
the repository as source (`src/notVK/Pods/Realm/Realm/ObjectStore/src`), and that is
where the concurrency is: background notifiers, change sets, sync sessions, file
actions. This project models both. Paths below are relative to `Sources` for Swift
files and to `ObjectStore/src` for C++ files.

## Inventory

### The application

**Fetch operation** (`Controller/Services/OperationsSharedClasses`, files
`AsyncOperation.swift` and `GetDataOperation.swift`). State: `state` (ready,
executing, finished), `data`, the URL session task. Three threads touch one object
without a lock: the queue's worker, the completion block, and a caller of `cancel`.
Correct when the queue releases a dependent operation only after the answer is
stored, and releases it always.

**Friends chain** (`RealmOperations.swift`, `ParseDataOperation.swift`,
`SaveDataOperation.swift`). One call of `fetchFriendsFromRealm` queues three dependent
operations: fetch, decode, replace the stored friends in one write transaction. Hard:
failing opens and commits, Objective-C exceptions that Swift cannot catch, process
death in mid-transaction. Correct when the store always holds one whole reply and every
chain ends. The only call is commented out in this commit; the chain is modelled as a
service that may be called at any time.

**Image cache** (`ImageService.swift`). A dictionary owned by the main thread, files in
the caches directory, downloads in flight. Hard: answers that arrive after the row has
changed, the order of blocks on the main queue, file names that collide.

**Realm request service** (`RealmRequestService.swift`): commit, retrieve, delete.
`deleteObjects` retrieves before it begins the write.

**Other requests**: `GetDataRequest` with its delegate, `PromiseNetworkService`,
`VKRequestService`, `VKNewsService`. Correct when each completion is called once; some
paths call none.

**Navigation** (`RotationAnimator.swift`, `CustomSwipeCloseTrans.swift`): the swipe's
`hasStarted`, `shouldFinish` and `viewController` over many pushes, pops and swipes.

### Realm's object store

**Sync session** (`sync/sync_session.cpp`): a state machine (waiting for a token,
active, dying, inactive) driven by the binding's threads and by the sync client's event
loop, with completion waits, deferred commits and closes, error handling that releases
the mutex, and a client resync. **Progress callbacks** are registered with it.

**Sync manager and users** (`sync/sync_manager.cpp`, `sync/sync_user.cpp`): a map of
sessions, external references whose destruction runs code, two mutexes held across
calls into each other.

**Sync files** (`sync/sync_manager.cpp`, `sync/impl`): actions on files recorded in a
metadata Realm and carried out at the next startup, crashes in between.

**Change notifications** (`impl/realm_coordinator.cpp`, `impl/collection_notifier.cpp`,
`shared_realm.cpp`): a worker recomputes observed collections and hands packages over
to the thread that observes, which may be writing, refreshing or calling back.

**Changes** (`index_set.cpp`, `object_changeset.cpp`,
`impl/collection_change_builder.cpp`, `impl/transact_log_handler.cpp`,
`impl/results_notifier.cpp`): positions that are renumbered with every insertion and
deletion, merged over transactions, diffed between runs of a query.

The hazards of all of these, each with its source line and the properties aimed at it,
are in `PROJECT.json`, and so are the parts that are not modelled.

## Modules

| module | models | built on |
|---|---|---|
| `FetchContract` | what a chain may rely on from its first operation (abstract) | |
| `GetDataOperation` | the operation, store by store | refines `FetchContract` |
| `RealmStore` | begin, add, delete, commit, rollback | |
| `FriendsFetch` | the three-operation chain, crashes and relaunches | `FetchContract`, `RealmStore` |
| `ImageService` | memory, disk, downloads and the main queue | |
| `RealmRequests` | `RealmRequestService` on several threads | `RealmStore` |
| `Requests` | who is told the outcome of a request | |
| `SwipeNavigation` | the navigation stack and the swipe | |
| `SyncSession` | one sync session | |
| `SyncProgress` | its progress callbacks | |
| `SyncManager` | session map, users and their mutexes | |
| `SyncFiles` | metadata, file actions, user removal | |
| `Notifications` | worker, hand-over, delivery, suppression | |
| `NotifierCallbacks` | the callbacks of a notifier while they are called | |
| `IndexSets` | what index sets promise (reference) | |
| `ChunkedIndexSet` | index sets as chunks of ranges | checked against `IndexSets` |
| `ChangeBuilder` | building, merging, finalising a change | `IndexSets` |
| `ListChanges` | a list's log, merging, key-value observers | `ChangeBuilder` |
| `RowDiff`, `ResultsChanges` | the diff of two runs, several runs | `ChangeBuilder` |
| `ObjectChanges` | object changes over several versions | |
| `DeepChanges` | rows modified through links | |
| `MC*` | instances for TLC | see below |
| `*Proofs` | inductive invariants and theorems | the module named, TLAPS |

Three techniques recur. A variable that never changes (`config`, `setting`, `trouble`,
`use`, `query`, `reuse`, `limit`) holds the configuration of a behaviour, so that one
run covers several. `MCApp`, `MCDownloads`, `MCSync` and `MCObjectStore` check modules that
share no state side by side: `part` says which one a behaviour is about, and the others keep their
initial state. And reference variables that the code does not have (`ref` in
`ChunkedIndexSet`, the three lists of `ListChanges`, `kept` and `set` in `ObjectChanges`,
`told` in `Notifications`) record what really happened, so that a property can compare
it with what the code says happened.

Which hazards no property catches is said with each of them in `PROJECT.json`, and below
under *Hazards that no property catches*.

### GetDataOperation and FetchContract

`pc[o][t]` says where thread `t` is in its call on operation `o`. Assigning `state` is
two steps, because `didSet` reads the property again before it notifies: `SetState` is
the store, `DidSet` the notification. `Start` is the test of `isCancelled`; `Main`
resumes the task; the worker then reaches the store of `.executing`, which is where the
code puts it, after `main()`. `TaskEnds` is the URL session delivering a body or an
error, `StoreData` the first half of the completion block. The operation queue is
modelled as Foundation documents it: it believes an operation finished when it is
notified while `isFinished` reads true. A store of the one-byte `state` and of the `data`
reference is taken as indivisible; that is what the compiled code does, although Swift
leaves the race undefined. `FetchContract` replaces the threads by four events; the
refinement takes `status` from the queue's record, `answered` from the completion block
being past its store of `data`, `cancelled` from the canceller having begun.

### FriendsFetch, RealmStore, RealmRequests

The fetch is the contract, so the chain is checked against everything the operation may
do. A reply is a body; `Items` gives the ids it decodes to. Each friend remembers its
reply and its position, so that a mixture or a fragment is visible.
`SaveDataOperation.main` is one action per call on the Realm. `SaveAddThrows` ends the
process, as the uncaught exception does; a commit that throws leaves the transaction open
until the Realm is deallocated. `Killed` may happen anywhere; `Relaunched` keeps only
what was committed. `RealmRequests` uses the same store for `commitObjects` and
`deleteObjects` on two threads; an object is a primary key and the call that added it, so
that an object replaced under the same key is another one.

### ImageService, Requests, SwipeNavigation

A picture is represented by the URL it came from, and `main` is the main queue, first in
first out. `Requests` has one phase per request and the four ways a request is made. Each path that
returns without telling the caller ends in the phase "silent": a photo that comes with
neither data nor an error (`VKRequestService.swift:91`), a promise whose body does not
decode, the delegate's guard. The delegate's dictionary has no entry for a task, so
`DidReceive` traps, as the code does; so does a promise with neither data nor an error,
whose forced cast of a string to `Error` fails (`PromiseNetworkService.swift:40`).
`SwipeNavigation` models UIKit by what the code relies on: one transition at a time, the
stack changes when the transition completes, an interactive transition waits for
`finish()` or `cancel()`.

### SyncSession and SyncProgress

Operations hold `m_state_mutex` and are single steps. `handle_error` lets go of it
several times: `todo` is what the event loop still has to do in it, and anything may
happen in between. Handlers registered with a `sync::Session` are `waiters`, with the
session they are on, the counter they captured (`m_death_count` or
`m_client_resync_counter`) and the commits they wait for. `connected` says whether the
server hears the `sync::Session`: an expired token or another error that closes the
session cuts it off until it is given a token or made anew (`client.hpp`), and only a
session that is connected has its uploads acknowledged. In `SyncProgress` the calls are
made after the mutex is released: `invocations` are those of the client's thread, `own`
those of a thread that registers.

### SyncManager and SyncFiles

`sessionMutex` and `userMutex` are variables because they are held across calls; a
session's own mutex is not, so what it protects is one step. `pc` and `obj` say where
each thread is and which session it points to: the session of a path may meanwhile be
another one. In `SyncFiles` a file holds nothing, one of the contents created so far, or
part of one; `configure` goes through its phases one file system or metadata operation at
a time, and the process may die between any two.

### Notifications and NotifierCallbacks

A set of changes is the set of versions whose changes it holds, so a delivery can be
compared with the versions the observer missed. `w` is the worker inside
`run_async_notifiers`, which holds its lock in two separate sections; `t` is the target
thread, possibly waiting in `begin_transaction` with the write lock. `use.ways` says what
the program does out of the ordinary: observe again, write or observe in a callback,
suppress, let the event loop run in a transaction.

`NotifierCallbacks` is the vector itself, with `size_t` arithmetic modulo `SizeT`:
`m_callback_count` is decremented from `npos` and wraps. `uncounted` counts the callbacks
that were added and removed in the same pass, for which the count is decremented although
it never included them; when it has wrapped, the walk reads past the end of the vector and
the behaviour ends there ("overrun").

### Index sets and changes

`ChunkedIndexSet` follows `index_set.cpp` iterator by iterator; `IndexSets` says in one
line each what the operations mean. `ChangeBuilder` is written with `IndexSets`, as the
code is with `IndexSet`, `ListChanges` feeds it the instructions of transaction logs and
`ResultsChanges` the rows of a query in any new order. `RowDiff` is the search for the
longest common block. `ObjectChanges` keeps one change set for each version that notifiers
start from and, once the logs are read, merges them from the last to the first, one
iteration of the loop per step. A notifier may watch the table or not, and a span records
only if it tracks it: because a notifier that starts there asked for it, or because the
span before it still tracked it when its logs had been read. `DeepChanges` has the two functions that call each other
as a stack of calls: a step answers for a row, looks at one linked object, begins a column
or returns. `path` and `cache` are the code's members, and the rows of the collection are
looked at in any order.

## Runs

| run | instance | what it shows |
|---|---|---|
| `fetch_chain_stalls` | two operations, no cancel | expected violation: a fair schedule that leaves the chain waiting |
| `downloads` | two chains, four replies (two overlapping, one with a repeated id, one undecodable); one row, three URLs of which two share a name, two downloads | one whole reply in the store, exceptions only for repeated ids, commits of what was delivered, every save ends; where pictures appear, the order of reloads, downloads arrive |
| `app` | three controllers; two threads with four calls on two keys; five requests; two operations, one of them cancellable, one body | navigation and deletion; that swipes and calls end; which callers are told; the operation's safety, that every fetch ends but one overwritten, the inductive invariant, the refinement |
| `sync_session` | five configurations: stop policies, waits in both directions, cancelling errors, an override, a resync | the session is in order, no wait lost without a resync, handlers from before a resync answer nobody, deferred commits arrive, dying uploads first; it ends, and active waits are answered, unless the session is cut off |
| `sync_resync_loses_wait` | a resync with two waits | expected violation: a wait is overwritten |
| `sync_dying_stalls` | a session closed with one commit to upload | expected violation: an expired token cuts it off for ever |
| `manager_files` | two openers, one user thread, the event loop, three sessions, all policies; two Realms, two actions, up to two crashes, refusals | what is held is registered and parked, deletions are justified, users forgotten last, startup completes the actions |
| `manager_lock_cycle` | two sessions | expected violation: two threads wait for each other |
| `notify` | two callbacks on one or two notifiers, up to four versions, five uses | the worker drops hushed commits only, each delivery is exact, everyone is told, waiting ends; the first three for the uses named below |
| `object_store` | seven parts, see `MCObjectStore` | changes, callbacks and progress against their references |
| `objects_merge` | the part `objects` | expected violation: merging a transient object |
| `objects_untracked` | the part `objects` | expected violation: an observer of a table that was dropped from the later spans |

Each property of a passing run has a mutant: a named variant of one definition (marked
`mutant` in its comment) that makes a mistake the property is there to catch.

Several of these properties are conjunctions of named parts that belong together
(`SessionInOrder`, `WaitsKept`, `SessionsInOrder`, `HandOverInOrder`, `NavigationInOrder`,
`DeletionExact`, `NewRealmKept`, `DeletionsJustified`, `IndexSetsExact`, `ListChangesExact`, `ResultChangesExact`,
`WalkInOrder`); TLC names the conjunct when one of them is given to a configuration alone.

Some of them exempt what the code does not do, and hold of the rest. `CallersTold` says
exactly who is never told (news, the delegate's callers, a promise whose body does not
decode, a photo that comes without one) and what ends the process, and that everybody else
is told. `DropsOnlyHushed` (in `HandOverInOrder`) and `DeliveryExact` are about programs
whose callbacks do not write and that add none to a notifier that has run without any;
what `DeliveryExact` lets be missing are commits that were suppressed. `EveryoneTold` is
about programs that at most suppress. `DyingEnds` and `ActiveWaitEnds` do not hold of a
session that an error has cut off (`CutOff`), `sync_dying_stalls` shows why. `ObjectsTold`
is exact for observers since whose version the table was read, and for the others says
that nothing is reported that did not happen. `NobodyLeftOut` leaves out as many callbacks
at the end of the vector as newcomers were removed in the pass. `StartupRunsActions` and
`NewRealmKept` leave out refused file operations, the former also crashes.

### Bounds

Operations of the fetch share no state, so two show that none disturbs another; two
chains are the least that can compete for the lock, and a relaunch makes both available
again. Two downloads are enough for a late answer to overtake a newer one. Two openers,
a user thread and the event loop are the four kinds of thread the manager meets; the
third session is the one made while two older ones still have threads pointing to them. Two
deaths of a session are what `m_death_count` is there to tell apart, and one resync what
`m_client_resync_counter` is for. In `notify`, three versions let a commit of another
writer fall on either side of an own one, and four leave one more for what was
suppressed. Chunks hold two ranges, so that five ranges fill, split and join three
chunks. Lists of three entries take two transactions of two instructions: enough for a
move within a merge. Objects are observed from three versions, so that a merge is merged
again; which of their notifiers watch the table is free. One progress callback is
registered: callbacks share only the calls of one update. Queries of up to three rows are
run twice, those of four rows once. Link graphs have four objects and every shape (up to
the names of the two that the rows link to), with the depth limit at three and four (four
is the code's). `SizeT` is eight: larger than any count, small enough to see
the wrap. Each bound is a constant or a field named as a bound in its module.

Deadlock checking is off where the system may stop: when all operations have finished,
all calls are made, or a bound is reached. It is on for `downloads`.

### Fairness

Worker threads and dispatch queues run what they were given (weak fairness of each
thread's steps). A request ends because `timeoutIntervalForRequest` is 30 seconds. The
holder of a write lock goes on. The sync client's event loop is first in first out, so
that handlers posted to it are run however many errors arrive: strong fairness of `Die`
and `Answer`; the server acknowledges what a session that stays connected sends, and
nothing is assumed about one that an error has disconnected. A process that is
configuring goes on, and an application that died is launched again. The notifier's worker
and the target's event loop go on, and a transaction that was begun is ended by its
owner. Animations end and fingers are lifted. No fairness is assumed of callers, of
`cancel`, of local commits, of errors or of iOS killing the process.

## What was found

* `start()` calls `main()` and only then stores `.executing`. If the request ends in
  between, `.finished` is overwritten and the chain never goes on. `HangOnlyByOverwrite`
  and `EveryFetchEnds` show that this is the only way to lose the end of a request.
* `handle_error` puts the completion waits that a client resync had moved aside back
  without the mutex: a wait registered meanwhile is destroyed without being called.
* `SyncUser::log_out` holds the user's mutex while its sessions unregister with the
  manager, and `get_session` takes the two mutexes the other way round.
* `ObjectChangeSet::merge` erases from `m_deletions` with an iterator of
  `other.m_deletions`, for an object that was inserted before one version and deleted
  after it.
* A dying session keeps errors that are not fatal to itself (`sync_session.cpp:314`). When
  its token has expired nobody is asked for another, so it stays disconnected, the upload
  it waits for never completes and it never stops; the code's own FIXME asks what happens.
* `parse_complete` drops tables without changes, and the next span of
  `IncrementalChangeInfo` inherits only those that are left
  (`transact_log_handler.cpp:283`, `realm_coordinator.cpp:828`). Of two new notifiers the
  earlier one is then not told of what happened after the later one's version, unless the
  later one watches the table too.

### Disagreements without a run

The modules state more than the runs check. These formulas are there, and TLC refutes each
when it is added to a configuration of its module, with the switch named:

* `SyncSession!UploadWaitsForPending`: a second upload wait is answered by the first one's
  handler (`sync_session.cpp:839`), although commits announced before it are not uploaded.
  `AdvanceChangesState`: `handle_error` enters `inactive` although a log-out has done so
  while the mutex was free (`sync_session.cpp:628`, assertion at 756).
* `SyncManager!UnregisterFindsSession`: two threads unregister one path and the second
  fails the assertion at `sync_manager.cpp:493`. `NoSelfLock`: the temporary reference at
  line 498 may be the last one, and its destruction locks the mutex again.
  `LogOutCloses`: `register_session` revives a session after the log-out has parked it
  (`sync_user.cpp:221`). `HeldIsActive`: a session is returned although the last other
  reference closed it meanwhile (`sync_manager.cpp:460`). `ErasesOnlyInactive`: a session
  revived and closed again while the call waited is erased while it uploads (line 501).
* `SyncFiles!StartupRunsActions` holds because it excludes behaviours with crashes: a
  crash after a copy was begun leaves a file that makes every later startup refuse
  (`sync_manager.cpp:183`).
* `Notifications!EveryoneTold` for `ways` other than none: a callback added in a callback
  is not told until somebody commits (`collection_notifier.cpp:215`), nor one added in a
  transaction during which the event loop ran (`shared_realm.cpp:752`). `DeliveryExact`
  with "reobserve": changes computed for nobody are never reported
  (`results_notifier.cpp:126`). `SuppressHonoured`: a hand-over without changes clears
  `skip_next` (`collection_notifier.cpp:425`), so that a suppressed commit is delivered
  after all. `NeverOutOfDate`: packages are discarded
  also without `begin_read` (`realm_coordinator.cpp:1032`).
* `NotifierCallbacks`: removing a callback that was added in the same pass decrements a
  count that did not include it (`collection_notifier.cpp:239`). The last packaged
  callbacks are then left out, or the count wraps around and the walk overruns, against
  `REALM_ASSERT_DEBUG(m_callback_count <= m_callbacks.size())` in line 398: that
  `pass # "overrun"`, and that `NobodyTurnedAway` holds without `uncounted`, is refuted.
* `SwipeNavigation`: `shouldFinish` is not reset when a swipe begins
  (`CustomSwipeCloseTrans.swift:38`), so that a swipe which ends without a `.changed`
  event is finished or cancelled by the progress of the one before.
* `Requests`: the silent callers that `CallersTold` names.
* `ChunkedIndexSet!CountExact`: the first range of the second chunk is not counted
  (`index_set.cpp:300`). `ChunksVerify` with `MayOverfill`: an additional chunk starts
  with count 1 (`index_set.cpp:244`).
* `ListChanges!KvoWithMoves`: a row displaced by two moves is left out
  (`transact_log_handler.cpp:166`). `ModificationsAreNewPositions`: the documentation of
  `RealmCollectionChange` says modifications are positions in the new collection,
  `finalize` makes them positions in the old one (`collection_change_builder.cpp:656`).
* `ResultsChanges!PrefersUnmodified`: of equal blocks the one with fewer modified rows is
  meant to win, and the rows of the best one are counted at the wrong place
  (`collection_change_builder.cpp:450`). `ModifiedExact` is about tables; for a list's
  results nothing is ever modified, since `modifications_new` is filled later
  (`results_notifier.cpp:288`).

Read while modelling and stated nowhere: a notifier whose only related table links to
itself looks at the row and not at its links (`collection_notifier.cpp:66`); an object
whose key is used again after its table was cleared is taken for the old one
(`object_changeset.cpp:72` has a FIXME); `remove_object` moves the last list into a freed
place and does not look at it (`transact_log_handler.cpp:382`); progress calls of a
registering thread and of the client may arrive in either order; two threads may walk the
connection-change callbacks with one `m_callback_index`; `loadNews` never resumes its
task; after a big cell the photo layout sets `lastY` where it should advance it.

### Hazards that no property catches

By their number in the order of `PROJECT.json`. Not caught in the case they name: 13 (a
swipe without `.changed`), 21 (the entry of a missing, revived or other session erased), 31
(a count across chunks), and of 30 the removal of a newcomer in the pass, of which the
properties only say exactly what it costs. Caught but for what a property exempts: 11 and
12 (the silent callers), 26 (a package discarded because a callback wrote), 27 (callbacks
added in callbacks or in a transaction), 36 (key-value observers when rows moved), 29 (that
a suppressed commit is delivered after all). Caught in part: 23 (the half-made copy is not,
a deletion on the strength of it is), 25 (that the removal of other users goes on is not),
32 (an overfull chunk is not), 35 (lists that change their length are not). The notes there
give the reasons; in every case but those of 25 and 35 it is that the code does what the
property would forbid.

## Proofs

All theorems hold for every value of the constants, under named assumptions on them. Those
that a module declares: the "nil" values are not members of the sets they extend,
`Cancellable` is a subset of `Ops`, `Items` maps bodies to sequences of ids, `FileName` is a
function into `Names`, bounds are natural numbers, the configurations of `SyncSession`,
`SyncManager` and `Notifications` are of the shape their modules describe. Of six modules
the theorems have the assumptions as hypotheses (`FilesAssumption`, `ProgressAssumption`,
`CallbacksAssumption`, `ObjectsAssumption`, `DeepAssumption`, `ListAssumption`); `MCSync`
and `MCObjectStore` assume them for their constants, so TLC evaluates them there.

Each proof has the same shape: an inductive invariant, one lemma or step for each action,
the conjuncts it can disturb below it, and the properties from the invariant. What makes
the properties inductive:

* `GetDataOperationProofs`. `HangOnlyByOverwrite` is not inductive: it must be known
  where the other threads can be. `ThreadInv` ties each thread's position to the
  task, to `state` and to `data`; `OperationInv` is its conjunction with the types and the
  property. `Refinement` uses the same invariant: the store of `data` is the contract's
  answer, the first effective notification its end, everything else stutters.
* `FriendsFetchProofs`. `ChainInv` says that the chain inside a transaction, and no
  other, holds the lock, and that the version being written is a prefix of its reply.
  At the commit that prefix is the whole reply (`AddedAll`); a clash before that means a
  repeated id (`ClashRepeats`), because the table was emptied in the same transaction.
  From it follow `StoreTheorem`, `ThrowTheorem` and the action property `CommitTheorem`.
* `AppProofs`, in three parts. *Navigation*: that every screen above the root can be swiped
  away holds between transitions only because of what holds in them: the stack a
  transition leads to is one (`TransitionSound`), the delegate's controller can be found
  where it leads and, if it is called off, where it came from (`ControllerFound`), and
  `hasStarted` follows the finger (`FingerKnown`). *Requests*: the caller
  inside a transaction is the one that holds it (`WriterInside`), only `deleteObjects` has
  retrieved anything (`RetrievedByDelete`), and the version about to be committed lacks all
  that was retrieved and nothing with another key (`WorkingJustified`).
  *Images*: besides the pictures in files and blocks, for each queued reload and each
  download past its hand-over the picture is stored or waits earlier in the queue;
  `AppendKeepsOrder` and `TailKeepsOrder` are the two facts about the queue on which
  everything rests.
* `SyncSessionProofs`. *The session*: handlers from before the last client resync are on a
  `sync::Session` that is gone (`OldHandlersOnOldSessions`); the handler of the current
  death is on the running one and waits for all that was announced
  (`DeathHandlerCurrent`); what `handle_error` still has to do contains at most one
  resync (`StepsAhead`). The first two are what `m_client_resync_counter` and
  `m_death_count` are for, and `NoWaitIsLost` and `DyingWaitsForUpload` rest on them.
  `RenewedIsOld` remembers which sessions a resync has replaced, however the session was
  stopped and revived since; `OldSessionsStaySilent` rests on it.
  *Progress*: a number is given only after it was captured and no other ever
  (`GoalIsCaptured`), and the call that says it is reached is either still to come, or
  under way on one of the two threads, or made, exclusively (`ToldAtTheEnd`).
* `SyncProofs`, in two parts. *The manager*: `get_session` holds `m_session_mutex` from
  finding the session to handing it out, so it is the registered one (`OpensRegistered`),
  and whoever has the Realm open shares its external reference (`HolderShares`). The
  user's mutex is held by a log-out, from whose beginning the user counts as logged out
  (`LogOutLocksUser`); without errors the session handed out is the one the user knows,
  among its own or, once logged out, among the waiting ones (`UserKnowsSession`).
  *The files*: one backup is made at a time, for an action still to be carried out, and
  holds part of the file or all of it (`CopyOfFile`); only a marked user's directory is
  removed, and all of it before the user is forgotten (`RemovesMarked`); and while the process runs, the action of a file that is gone
  is about to be looked at or to be removed (`GoneIsPending`), also after a crash between
  the two, from which `NewRealmIsKept` follows.
* `NotificationsProofs`. Notifiers that have run share one version V, at most the one the
  worker is on its way to, at most the latest. `begin_transaction` and `refresh` wait until
  every callback's notifier has reached the target, so nothing is pending in a write.
  What a callback was told, what it is given and what gathers for it add up to
  everything up to V (`Accounted`), and a callback's own commit is a stop that the worker
  was asked for, so it never stops between V and the Realm's version (`NoStopBetween`).
  `DeliveryIsExact` follows. A callback that is to be passed over belongs to a notifier that
  is at the version before the hushed commit, which the worker has been or will be asked to
  stop at (`SkipsDue`); what it is handed there is that commit alone, and
  `HandOverStaysInOrder` follows. `RealmNeverGoesBack` states `NeverBack`, which no run checks.
* `ChangesProofs`, in three parts. *Single objects*: what an observer is told is put
  together from its own span and the later ones, so the invariant relates each span to the
  next. An object that stayed since an earlier version stayed since a later one (`KeptOn`)
  and is told neither as new nor as deleted (`KeptUntold`); one that is lost is told as gone
  here or is lost from the next span as well (`LostTold`); the columns set are those of the
  set here together with those set from the next span on (`SetTold`). The last two
  suppose that the table was read since the span began (`ReadOn`) and speak of the next
  span only while it is not merged yet (`Apart`); each iteration of the loop moves that
  border by one. A span that does not track the table holds nothing (`Tracks`), and no span
  tells of a column that was not set (`OnlySetTold`), read or not. `ObjectsAreTold` is the
  property at the end of the loop. *Deep
  checks*: `Clean` says that from an object nothing modified is reached by a walk of at
  most n links that keeps away from some links. A call that is under way has found the
  targets of its finished columns clean (`FramesRight`), not only as far as it searches
  itself but, for each object on the path behind which nothing was cut, as far as the
  whole limit, without the links between (`Contexts`). An object is therefore clean
  without exception when it is remembered (`CacheRight`): a walk that uses a link again
  is looked at from where it does so last (`CleanColumn`). `RowsAreModifiedExactly` holds
  for any graph, any limit and any order of rows. *Callbacks*: the vector ascends by
  token, the packaged callbacks come first in it, and the walk stands where the running
  callback is or was (`PlaceKept`), although `m_callback_index` wraps below zero when that
  one is removed. The count is the number of packaged callbacks less `uncounted`,
  modulo `SizeT` (`Wrapped`, `SumWrapped`), from which `WalkStaysInOrder` and
  `NobodyIsLeftOut` follow for every order of additions and removals.
* `ListChangesProofs`. The operations on index sets come first: the positions outside a set
  are numbered without gaps, `Unshift` counts them and `Shift` is its inverse. `ListInv`
  says that the entries of the list are distinct and the gathered change exact: without the
  deleted positions before and the inserted ones after, the list is the same, in the same
  order; each move names one entry in both; and the modified positions are those of the
  entries that were set. One lemma for each instruction preserves it; a swap is one move or
  two. `MergedInv` adds that what was merged tells how the list of the last merge came
  about. Merging two changes composes their numberings (`MergeLeads`); a move followed
  through the later change ends where its entry is (`FollowStep`), and dropping a stale
  one leads to the same list (`StaleMoveLeads`). `CleanUpStaleMoves` and `FollowMoves` go
  through the moves with a recursive function: `LookedExists` and `FollowedExists` show
  that there is one with the defining equation, and `UpTo` replaces the induction along it
  by a least counterexample. `FinalizeRight` and `KvoRight` are what observers see.
  `ListChangesAreExact` puts it together, for any list and any number of transactions.

The invariants were checked by TLC before they were proved. The properties that the
theorems name are those of the runs, the same definitions.

Only model-checked: every liveness property, since liveness under fairness is outside the
prover; `IndexSetsExact`, because `ChunkedIndexSet` walks its chunks with RECURSIVE operators
that the prover cannot unfold, so that what is proved of lists is proved of `IndexSets`, to
which that property relates the chunks; and `ResultChangesExact`, because `RowDiff`, the
search for the longest common block, is such an operator. `ListChangesAreExact` was in reach
because `ChangeBuilder` needs only functions: every induction in it is over the numbers of
the moves, by way of the library's `WFMin`, which takes no operator as a parameter.

## Not modelled

Most lines of the repository are headers of Realm core (`include/core`): storage arrays,
queries, networking. Their implementation is a static library that is not in the
repository, so there are no state changes to translate; the map therefore covers a few
per cent of all lines, and most of the object store's concurrent code. Of the object
store, these are left out: schema comparison and migration (sequential, inside one write
transaction), opening and caching of Realms (one mutex around a map), `Results`, `List`
and `Object` (wrappers that check and call core), partial sync and permissions (the other
half is on the server), the connection-change callbacks (the same walk as
`NotifierCallbacks`). Of the application: the friends and groups tables (the code that
applied change notifications to them is commented out), the login (WebKit decides), the
like control, decoding, cells, animations, and the unused Core Data template.

Data that no property tells apart is left out throughout: JSON text, names, URLs as
strings, pixels, log output.
