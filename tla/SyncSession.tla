---------------------------- MODULE SyncSession ----------------------------
(***************************************************************************)
(* The life of one SyncSession: its four states, the sync::Session it      *)
(* owns, and the completion handlers it keeps for its users.  Operations   *)
(* hold m_state_mutex and are single steps, except handle_error, which     *)
(* lets go of the mutex several times: `todo' is what the client's event   *)
(* loop thread, the one that calls all handlers of a sync::Session, still  *)
(* has to do in it.                                                        *)
(***************************************************************************)
EXTENDS Naturals, Sequences, FiniteSets

CONSTANTS
  Configs,          \* the configurations and uses of a session
  NoAddress         \* no override of the server's address

Directions == {"upload", "download"}

\* A session's configuration and what is done with it: its stop policy, resync
\* mode and cancel_waits_on_nonfatal_error; the waits, by direction, and the
\* addresses given to override_server; and the bounds: sync::Sessions made,
\* times the session starts to die, client resyncs, local commits.
ASSUME SessionAssumption ==
  \A c \in Configs :
    /\ c.stop_policy \in {"Immediately", "LiveIndefinitely", "AfterChangesUploaded"}
    /\ c.client_resync_mode \in {"Recover", "DiscardLocal", "Manual"}
    /\ c.cancel_waits_on_nonfatal_error \in BOOLEAN
    /\ \A w \in DOMAIN c.waits : c.waits[w] \in Directions
    /\ NoAddress \notin c.addresses
    /\ {c.sessions, c.deaths, c.resyncs, c.versions} \subseteq Nat

VARIABLES
  config,           \* m_config, and the use of this instance
  state,            \* m_state
  session,          \* m_session: a serial number, 0 for null
  made,             \* sync::Sessions made so far
  deferredClose,    \* m_deferred_close
  deferredCommit,   \* m_deferred_commit_notification; 0 is none
  deaths,           \* m_death_count
  resyncs,          \* m_client_resync_counter
  renewed,          \* history: sync::Sessions made before the last client resync
  callbacks,        \* waits in m_upload_/m_download_completion_callbacks
  aside,            \* waits a client resync has moved aside
  outcome,          \* what each wait was told
  pending,          \* per wait, the last commit when it was registered
  waiters,          \* handlers registered with sync::Sessions
  address,          \* m_server_override
  target,           \* the override the sync::Session has been given
  connected,        \* external: the sync::Session has not been cut off by an error
  commits,          \* the last local commit
  announced,        \* the last commit announced to the sync::Session
  uploaded,         \* the last commit the server has acknowledged
  todo              \* the rest of handle_error on the event loop

sessionVars == <<state, session, made>>
deferVars == <<deferredClose, deferredCommit>>
countVars == <<deaths, resyncs, renewed>>
waitVars == <<callbacks, outcome>>
serverVars == <<address, target, connected>>
commitVars == <<commits, announced, uploaded>>
vars == <<config, sessionVars, deferVars, countVars, waitVars, aside, pending, waiters,
          serverVars, commitVars, todo>>

Direction == config.waits
Waits == DOMAIN Direction
Addresses == config.addresses
StopPolicy == config.stop_policy
ResyncMode == config.client_resync_mode
CancelOnNonfatal == config.cancel_waits_on_nonfatal_error
MaxSessions == config.sessions
MaxDeaths == config.deaths
MaxResyncs == config.resyncs
MaxVersion == config.versions

Init ==
  /\ config \in Configs
  /\ state = "inactive" /\ session = 0 /\ made = 0
  /\ deferredClose = FALSE /\ deferredCommit = 0
  /\ deaths = 0 /\ resyncs = 0 /\ renewed = 0
  /\ callbacks = {} /\ aside = {} /\ waiters = {}
  /\ outcome = [w \in Waits |-> "new"]
  /\ pending = [w \in Waits |-> 0]
  /\ address = NoAddress /\ target = NoAddress /\ connected = FALSE
  /\ commits = 0 /\ announced = 0 /\ uploaded = 0
  /\ todo = <<>>

-----------------------------------------------------------------------------
(* The states                                                              *)

\* the waits in ws are called back with the given result
Call(ws, result) ==
  outcome' = [w \in Waits |-> IF w \in ws THEN result ELSE outcome[w]]

\* a handler registered with sync::Session s; an upload is complete once
\* `upto', the last commit announced before, has been acknowledged
Waiter(s, kind, tag, upto) == [on |-> s, for |-> kind, tag |-> tag, upto |-> upto]

\* add_completion_callback, for every direction that somebody waits for
add_completion_callback(s, upto, ws) ==
  {Waiter(s, Direction[w], resyncs, upto) : w \in ws}

\* Inactive::enter_state: the sync::Session is destroyed, and whoever waits
\* is told that it was aborted
EnterInactive ==
  /\ state' = "inactive" /\ session' = 0
  /\ callbacks' = {} /\ Call(callbacks, "aborted")

\* mutant: going back to Active registers nothing
EnterActiveUnarmed(s, upto) == waiters

\* Active::enter_state registers all pending waits, possibly once more
EnterActive(s, upto) ==
  waiters \cup add_completion_callback(s, upto, callbacks)

\* mutant: the handler is registered with the count before it is incremented
EnterDyingUncounted(s, upto) == Waiter(s, "death", deaths, upto)

\* Dying::enter_state waits for the upload of all that was announced
EnterDying(s, upto) == Waiter(s, "death", deaths + 1, upto)

-----------------------------------------------------------------------------
(* The operations of the binding                                           *)

WaitingRevives ==
  /\ state = "waiting"
  /\ deferredClose' = FALSE
  /\ UNCHANGED <<state, waiters>>

DyingRevives ==
  /\ state = "dying"
  /\ state' = "active"
  /\ waiters' = EnterActive(session, announced)
  /\ UNCHANGED deferredClose

\* the binding is asked for a token
InactiveRevives ==
  /\ state = "inactive"
  /\ state' = "waiting"
  /\ deferredClose' = FALSE
  /\ UNCHANGED waiters

revive_if_needed ==
  /\ \/ WaitingRevives \/ DyingRevives \/ InactiveRevives
     \/ state = "active" /\ UNCHANGED <<state, deferredClose, waiters>>
  /\ UNCHANGED <<session, made, deferredCommit, countVars, waitVars, aside, pending,
                 serverVars, commitVars>>

Revive == revive_if_needed /\ UNCHANGED todo

\* mutant: what was announced while waiting is thrown away
RefreshDropsDeferred ==
  /\ state = "waiting"
  /\ session # 0 \/ made < MaxSessions
  /\ LET s == IF session = 0 THEN made + 1 ELSE session
     IN /\ session' = s
        /\ made' = IF session = 0 THEN s ELSE made
        /\ announced' = IF session = 0 THEN commits ELSE announced
        /\ waiters' = EnterActive(s, announced')
  /\ state' = "active"
  /\ target' = address /\ connected' = TRUE
  /\ deferredCommit' = 0
  /\ UNCHANGED <<deferredClose, countVars, waitVars, aside, pending, address,
                 commits, uploaded, todo>>

\* a new sync::Session, unless there is one
create_sync_session == IF session = 0 THEN made + 1 ELSE session

\* Waiting: make or reuse the sync::Session, bind or refresh it, hand over
\* what was deferred, go on to Active, and close if that was deferred too.
\* A session that is bound knows of all commits so far.
refresh_access_token ==
  /\ state = "waiting"
  /\ session # 0 \/ made < MaxSessions
  /\ LET fresh == session = 0
         s == create_sync_session
         known == IF fresh THEN commits
                  ELSE IF deferredCommit # 0 THEN deferredCommit ELSE announced
         closes == deferredClose /\ StopPolicy = "AfterChangesUploaded"
     IN /\ closes => deaths < MaxDeaths
        /\ session' = s
        /\ made' = IF fresh THEN s ELSE made
        /\ announced' = known
        /\ target' = IF fresh \/ address # NoAddress THEN address ELSE target
        /\ connected' = TRUE
        /\ state' = IF closes THEN "dying" ELSE "active"
        /\ deaths' = IF closes THEN deaths + 1 ELSE deaths
        /\ waiters' = EnterActive(s, known) \cup
                        {EnterDying(s, known) : d \in {TRUE} \cap {closes}}
  /\ deferredCommit' = 0
  /\ UNCHANGED <<deferredClose, resyncs, renewed, waitVars, aside, pending, address,
                 commits, uploaded, todo>>

\* Active passes the token on; Dying and Inactive ignore it
ActiveRefreshes ==
  /\ state = "active"
  /\ connected' = TRUE
  /\ UNCHANGED <<sessionVars, deferVars, countVars, waitVars, aside, pending, waiters,
                 address, target, commitVars, todo>>

\* also each attempt of update_configuration, which ends with a revival
log_out ==
  /\ state # "inactive"
  /\ EnterInactive
  /\ UNCHANGED <<made, deferVars, countVars, aside, pending, waiters, serverVars,
                 commitVars, todo>>

CloseNow ==
  /\ StopPolicy = "Immediately"
  /\ EnterInactive
  /\ UNCHANGED <<deferredClose, deaths, waiters>>

WaitingCloses ==
  /\ state = "waiting"
  /\ \/ CloseNow
     \/ /\ StopPolicy # "Immediately"
        /\ deferredClose' = TRUE
        /\ UNCHANGED <<state, session, deaths, waiters, waitVars>>

ActiveCloses ==
  /\ state = "active"
  /\ \/ CloseNow
     \/ /\ StopPolicy = "AfterChangesUploaded"
        /\ deaths < MaxDeaths
        /\ state' = "dying"
        /\ deaths' = deaths + 1
        /\ waiters' = waiters \cup {EnterDying(session, announced)}
        /\ UNCHANGED <<session, deferredClose, waitVars>>

close ==
  /\ WaitingCloses \/ ActiveCloses
  /\ UNCHANGED <<made, deferredCommit, resyncs, renewed, aside, pending, serverVars,
                 commitVars, todo>>

\* a local commit, and nonsync_transact_notify with its version
nonsync_transact_notify ==
  /\ commits < MaxVersion
  /\ commits' = commits + 1
  /\ deferredCommit' = IF state = "waiting" THEN commits + 1 ELSE deferredCommit
  /\ announced' = IF state = "active" THEN commits + 1 ELSE announced
  /\ UNCHANGED <<sessionVars, deferredClose, countVars, waitVars, aside, pending,
                 waiters, serverVars, uploaded, todo>>

\* wait_for_upload_completion and wait_for_download_completion: only the
\* first wait of its direction registers with the sync::Session
wait_for_completion(w) ==
  /\ outcome[w] = "new"
  /\ outcome' = [outcome EXCEPT ![w] = "waiting"]
  /\ pending' = [pending EXCEPT ![w] = commits]
  /\ callbacks' = callbacks \cup {w}
  /\ waiters' = IF /\ state \in {"active", "dying"}
                   /\ \A v \in callbacks : Direction[v] # Direction[w]
                  THEN waiters \cup add_completion_callback(session, announced, {w})
                  ELSE waiters
  /\ UNCHANGED <<sessionVars, deferVars, countVars, aside, serverVars, commitVars,
                 todo>>

override_server(a) ==
  /\ address' = a
  /\ target' = IF state \in {"active", "dying"} THEN a ELSE target
  /\ UNCHANGED <<sessionVars, deferVars, countVars, waitVars, aside, pending,
                 waiters, connected, commitVars, todo>>

-----------------------------------------------------------------------------
(* The event loop                                                          *)

\* external: a handler runs when its condition holds, for which a download
\* takes a round trip to the server, or because its sync::Session has been
\* destroyed
MayComplete(r, result) ==
  /\ todo = <<>>
  /\ \/ result = "done" /\ IF r.for = "download" THEN connected ELSE uploaded >= r.upto
     \/ result = "aborted" /\ r.on # session

\* mutant: a handler registered before a revival may still end the session
DiesWheneverDying(r) == state = "dying"

\* the death that the handler r was registered for is the current one
DiesNow(r) == state = "dying" /\ r.tag = deaths

\* the handler that Dying::enter_state registers
DeathHandlerRuns(r) ==
  /\ r.for = "death"
  /\ \E result \in {"done", "aborted"} : MayComplete(r, result)
  /\ waiters' = waiters \ {r}
  /\ \/ DiesNow(r) /\ EnterInactive
     \/ ~DiesNow(r) /\ UNCHANGED <<state, session, waitVars>>
  /\ UNCHANGED <<made, deferVars, countVars, aside, pending, serverVars, commitVars,
                 todo>>

\* mutant: while the session is active the handler registers itself anew
WaitCompletesAnew(r, result) ==
  /\ r.for \in Directions
  /\ MayComplete(r, result)
  /\ IF state = "active" THEN UNCHANGED <<waiters, waitVars>>
     ELSE /\ waiters' = waiters \ {r}
          /\ LET ws == {w \in callbacks : Direction[w] = r.for /\ r.tag = resyncs}
             IN Call(ws, result) /\ callbacks' = callbacks \ ws
  /\ UNCHANGED <<sessionVars, deferVars, countVars, aside, pending, serverVars,
                 commitVars, todo>>

\* mutant: the handler does not look at m_client_resync_counter
WaitCompletesUnchecked(r, result) ==
  /\ r.for \in Directions
  /\ MayComplete(r, result)
  /\ waiters' = waiters \ {r}
  /\ LET ws == {w \in callbacks : Direction[w] = r.for}
     IN Call(ws, result) /\ callbacks' = callbacks \ ws
  /\ UNCHANGED <<sessionVars, deferVars, countVars, aside, pending, serverVars,
                 commitVars, todo>>

\* the handler that add_completion_callback registers calls everybody who
\* waits by now, unless a client resync has happened since
WaitCompletes(r, result) ==
  /\ r.for \in Directions
  /\ MayComplete(r, result)
  /\ waiters' = waiters \ {r}
  /\ LET ws == {w \in callbacks : Direction[w] = r.for /\ r.tag = resyncs}
     IN Call(ws, result) /\ callbacks' = callbacks \ ws
  /\ UNCHANGED <<sessionVars, deferVars, countVars, aside, pending, serverVars,
                 commitVars, todo>>

\* external: the server acknowledges an upload of the running session, as long
\* as no error has cut it off
ServerAcknowledges ==
  /\ session # 0 /\ connected
  /\ uploaded < announced
  /\ uploaded' = uploaded + 1
  /\ UNCHANGED <<sessionVars, deferVars, countVars, waitVars, aside, pending, waiters,
                 serverVars, commits, announced, todo>>

\* Most errors are worth no other attempt: the sync::Session stays disconnected
\* until it is given a new token.  After a few it connects again by itself.
Transient == {"informational", "other"}

Errors == {"informational", "expired", "authentication", "denied", "reset",
           "file", "other"}

\* the locked sections of handle_error
Steps == {"handle", "handle fatal", "expire", "cancel", "stop", "resync", "restore",
          "revive"}

FirstStep(fatal) == IF fatal THEN "handle fatal" ELSE "handle"

\* ... that an error goes through
StepsFor(e, first, fatal) ==
  IF e = "expired" THEN <<first, "expire">>
  ELSE IF e = "reset" THEN IF ResyncMode = "Manual" THEN <<first, "cancel", "stop">>
                           ELSE <<first, "resync", "restore", "revive">>
  ELSE IF e \in {"denied", "file"} THEN <<first, "stop">>
  ELSE IF e = "authentication" THEN IF CancelOnNonfatal THEN <<first, "cancel", "cancel">>
                                    ELSE <<first, "cancel">>
  ELSE IF e = "other" /\ (fatal \/ CancelOnNonfatal) THEN <<first, "cancel">>
  ELSE <<first>>

\* the connection state listener of a running session is given an error, which
\* is why it is disconnected
ErrorArrives(e, fatal) ==
  /\ todo = <<>>
  /\ session # 0 /\ connected
  /\ e = "reset" => resyncs < MaxResyncs
  /\ connected' = (connected /\ e \in Transient /\ ~fatal)
  /\ todo' = StepsFor(e, FirstStep(fatal), fatal)
  /\ UNCHANGED <<sessionVars, deferVars, countVars, waitVars, aside, pending, waiters,
                 address, target, commitVars>>

At(step) == todo # <<>> /\ Head(todo) = step

\* the first locked section: a dying session deals with the error alone
handle_error ==
  /\ At("handle") \/ At("handle fatal")
  /\ todo' = IF state = "dying" THEN <<>> ELSE Tail(todo)
  /\ \/ state = "dying" /\ At("handle fatal") /\ EnterInactive
     \/ ~(state = "dying" /\ At("handle fatal")) /\ UNCHANGED <<state, session, waitVars>>
  /\ UNCHANGED <<made, deferVars, countVars, aside, pending, waiters, serverVars,
                 commitVars>>

\* Active goes back to waiting for a token; the other states do nothing
access_token_expired ==
  /\ At("expire")
  /\ todo' = Tail(todo)
  /\ state' = IF state = "active" THEN "waiting" ELSE state
  /\ deferredClose' = IF state = "active" THEN FALSE ELSE deferredClose
  /\ UNCHANGED <<session, made, deferredCommit, countVars, waitVars, aside, pending,
                 waiters, serverVars, commitVars>>

cancel_pending_waits ==
  /\ At("cancel")
  /\ todo' = Tail(todo)
  /\ Call(callbacks, "error") /\ callbacks' = {}
  /\ UNCHANGED <<sessionVars, deferVars, countVars, aside, pending, waiters,
                 serverVars, commitVars>>

\* mutant: only the state is changed
StopForgetsSession ==
  /\ At("stop")
  /\ todo' = Tail(todo)
  /\ state' = "inactive"
  /\ callbacks' = {} /\ Call(callbacks, "aborted")
  /\ UNCHANGED <<session, made, deferVars, countVars, aside, pending, waiters,
                 serverVars, commitVars>>

StopAfterError ==
  /\ At("stop")
  /\ todo' = Tail(todo)
  /\ EnterInactive
  /\ UNCHANGED <<made, deferVars, countVars, aside, pending, waiters, serverVars,
                 commitVars>>

\* the waits are moved aside so that becoming inactive does not call them
ResyncBegins ==
  /\ At("resync")
  /\ todo' = Tail(todo)
  /\ resyncs' = resyncs + 1 /\ renewed' = made
  /\ aside' = callbacks /\ callbacks' = {}
  /\ state' = "inactive" /\ session' = 0
  /\ UNCHANGED <<made, deferVars, deaths, outcome, pending, waiters, serverVars,
                 commitVars>>

\* ... and assigned back after becoming inactive has released the mutex
ResyncRestores ==
  /\ At("restore")
  /\ todo' = Tail(todo)
  /\ callbacks' = aside /\ aside' = {}
  /\ UNCHANGED <<sessionVars, deferVars, countVars, outcome, pending, waiters,
                 serverVars, commitVars>>

ResyncRevives == At("revive") /\ todo' = Tail(todo) /\ revive_if_needed

ErrorStep ==
  \/ handle_error \/ access_token_expired \/ cancel_pending_waits \/ StopAfterError
  \/ ResyncBegins \/ ResyncRestores \/ ResyncRevives

Answer(d) ==
  \E r \in waiters, result \in {"done", "aborted"} : r.for = d /\ WaitCompletes(r, result)

Die == \E r \in waiters : DeathHandlerRuns(r)

Binding ==
  \/ Revive \/ refresh_access_token \/ ActiveRefreshes \/ log_out \/ close
  \/ nonsync_transact_notify
  \/ \E w \in Waits : wait_for_completion(w)
  \/ \E a \in Addresses : override_server(a)

Next ==
  /\ \/ Binding
     \/ Die \/ Answer("upload") \/ Answer("download")
     \/ ErrorStep
     \/ ServerAcknowledges
     \/ \E e \in Errors, fatal \in BOOLEAN : ErrorArrives(e, fatal)
  /\ UNCHANGED config

Spec == Init /\ [][Next]_vars

\* The event loop runs what is posted to it in order, so errors cannot keep a
\* handler waiting for ever; the server answers a session that stays connected.
FairSpec ==
  /\ Spec
  /\ WF_vars(ErrorStep /\ UNCHANGED config) /\ WF_vars(ServerAcknowledges /\ UNCHANGED config)
  /\ SF_vars(Die /\ UNCHANGED config)
  /\ \A d \in Directions : SF_vars(Answer(d) /\ UNCHANGED config)

-----------------------------------------------------------------------------
(* Properties                                                              *)

Outcomes == {"new", "waiting", "done", "aborted", "error"}

\* the counters, and the serial numbers they bound
CountsTyped ==
  /\ made \in 0..MaxSessions /\ session \in 0..made
  /\ deaths \in 0..MaxDeaths /\ resyncs \in 0..MaxResyncs
  /\ commits \in 0..MaxVersion /\ announced \in 0..commits /\ uploaded \in 0..announced
  /\ deferredCommit \in 0..commits /\ renewed \in 0..made

\* the waits and their handlers
WaitsTyped ==
  /\ callbacks \subseteq Waits /\ aside \subseteq Waits
  /\ outcome \in [Waits -> Outcomes] /\ pending \in [Waits -> 0..commits]
  /\ waiters \subseteq [on : 1..made, for : Directions \cup {"death"},
                        tag : 0..(MaxDeaths + MaxResyncs),
                        upto : 0..commits]

\* Every variable keeps its type.
TypeOK ==
  /\ CountsTyped /\ WaitsTyped
  /\ state \in {"inactive", "waiting", "active", "dying"}
  /\ deferredClose \in BOOLEAN
  /\ address \in Addresses \cup {NoAddress} /\ target \in Addresses \cup {NoAddress}
  /\ connected \in BOOLEAN
  /\ todo \in Seq(Steps)

\* A session that is active or dying owns a sync::Session, and an inactive one
\* owns none: what the unchecked uses of m_session in Active and Dying, and the
\* assertion in update_configuration, depend on.
StateOwnsSession ==
  /\ state \in {"active", "dying"} => session # 0
  /\ state = "inactive" => session = 0

\* While the session is active or dying, somebody who waits has a handler on
\* the current sync::Session that will still be listened to, whatever states
\* the session went through since the wait was registered.  A client resync
\* puts the waits back late, when the session may be active already.
WaitIsArmed ==
  ResyncMode = "Manual" /\ state \in {"active", "dying"} =>
    \A w \in callbacks : \E r \in waiters :
      r.on = session /\ r.for = Direction[w] /\ r.tag = resyncs

\* A wait that has not been answered is still in a list, and one that has been
\* answered is in none: no wait is dropped and none is answered twice.
NoWaitLost ==
  \A w \in Waits : outcome[w] = "waiting" <=> w \in callbacks \cup aside

\* The same as long as no client resync is carried out.
NoWaitLostWithoutResync == ResyncMode = "Manual" => NoWaitLost

\* A client resync separates sync::Sessions: none has handlers from both sides
\* of one, and the older handlers are on the older session.  That is what lets
\* the counter stand for the session when old notifications are discarded.
ResyncSeparatesSessions ==
  \A r, q \in waiters :
    r.for \in Directions /\ q.for \in Directions /\ r.tag < q.tag => r.on < q.on

\* A session that becomes active knows of the commits that were announced while
\* the binding was fetching a token, whether it is a new sync::Session or the
\* old one with a new token.
DeferredCommitReachesSession ==
  [][state = "waiting" /\ state' \in {"active", "dying"} /\ deferredCommit # 0
       => announced' >= deferredCommit]_vars

\* A closing session stops by itself only when the server has all that was
\* announced, also when it was revived and closed again in between.
DeathAfterUpload ==
  [][state = "dying" /\ state' = "inactive" /\ waiters' # waiters
       => uploaded >= announced]_vars

\* A running session uses the server that override_server named last, whether
\* that was before or after the sync::Session was made.
OverrideReachesSession ==
  state \in {"active", "dying"} /\ address # NoAddress => target = address

\* The session is in order: the variables are typed, the state says whether there
\* is a sync::Session, that one uses the server named last, and a client resync
\* separates the sync::Sessions.
SessionInOrder ==
  TypeOK /\ StateOwnsSession /\ OverrideReachesSession /\ ResyncSeparatesSessions

\* Without a client resync no wait is dropped or answered twice, and each one has
\* a handler that will be listened to while the session runs.
WaitsKept == NoWaitLostWithoutResync /\ WaitIsArmed

\* A client resync is transparent to whoever waits (handle_error): a handler on a
\* sync::Session made before it, which is called when that one is torn down, tells
\* nobody anything, however the session was stopped and revived since.
OldSessionsAnswerNobody ==
  [][\A r \in waiters \ waiters' :
       r.for \in Directions /\ r.on <= renewed => outcome' = outcome]_vars

\* An error has disconnected the sync::Session with commits still to be uploaded.
CutOff == ~connected /\ uploaded < announced

\* Closing ends: a dying session is revived or becomes inactive, unless an error
\* that Dying::handle_error keeps to itself has cut it off.
DyingEnds == state = "dying" ~> state # "dying" \/ CutOff

\* Closing ends: what SyncSessionStopPolicy says of AfterChangesUploaded, wait for
\* uploads to complete and stop.
DyingStops == state = "dying" ~> state # "dying"

\* Whoever waits on an active session is answered, unless the session stops
\* being active or is cut off first.
ActiveWaitEnds ==
  \A w \in UNION {DOMAIN c.waits : c \in Configs} :
    ResyncMode = "Manual" /\ state = "active" /\ w \in callbacks
      ~> \/ state # "active" \/ w \notin callbacks
         \/ IF Direction[w] = "upload" THEN CutOff ELSE ~connected

\* What advance_state asserts (REALM_ASSERT(&state != m_state)) of the two
\* transitions to inactive that handle_error makes.
AdvanceChangesState ==
  [][todo # <<>> /\ Head(todo) \in {"stop", "resync"} /\ todo' = Tail(todo)
       => state # "inactive"]_vars

\* What wait_for_upload_completion promises: it is called when all pending
\* uploads, those of the commits made before it, have completed.
UploadWaitsForPending ==
  [][\A w \in Waits : Direction[w] = "upload" /\ outcome[w] = "waiting"
       /\ outcome'[w] = "done" => uploaded >= pending[w]]_vars
=============================================================================
