---------------------------- MODULE SyncManager ----------------------------
(***************************************************************************)
(* How SyncManager, SyncUser and SyncSession share the sessions of a path: *)
(* the manager's map, the external references that keep a session going,   *)
(* and the user who logs in and out.  Steps are at the level of the        *)
(* mutexes.  m_session_mutex and the user's m_mutex are held across calls  *)
(* and are variables; a session's m_state_mutex is released before any     *)
(* other is taken, so what it protects is one step.  One path and one user *)
(* are modelled: the maps are keyed by path, and paths share nothing but   *)
(* the mutexes.  The states waiting_for_access_token and active are one    *)
(* here.                                                                   *)
(***************************************************************************)
EXTENDS Naturals, FiniteSets

CONSTANTS
  Openers,      \* threads that open and close the Realm
  UserThreads,  \* threads that log the user in and out
  Loop,         \* the sync client's event loop thread
  Free,         \* nobody, as the owner of a mutex
  Settings,     \* stop_policy of the SyncConfig, and whether there are errors,
                \* which stop sessions and invalidate the user
  MaxSessions   \* bound: SyncSessions created

Threads == Openers \cup UserThreads \cup {Loop}
Sessions == 1..MaxSessions

ASSUME ManagerAssumption ==
  /\ Openers \cap UserThreads = {} /\ Loop \notin Openers \cup UserThreads
  /\ Free \notin Threads
  /\ \A c \in Settings :
       /\ c.stop_policy \in {"Immediately", "LiveIndefinitely", "AfterChangesUploaded"}
       /\ c.errors \in BOOLEAN
  /\ MaxSessions \in Nat

VARIABLES
  setting,       \* the configuration of this behaviour
  sessionMutex,  \* owner of SyncManager::m_session_mutex
  userMutex,     \* owner of SyncUser::m_mutex
  registered,    \* the path's entry in SyncManager::m_sessions; 0 is none
  made,          \* SyncSessions created so far
  state,         \* m_state of each
  holders,       \* who shares the ExternalReference of each
  user,          \* SyncUser::m_state
  ours,          \* the path's entry in SyncUser::m_sessions
  waiting,       \* the path's entry in SyncUser::m_waiting_sessions
  pc,            \* where each thread is
  obj            \* the session each thread points to

userVars == <<userMutex, user, ours, waiting>>
vars == <<setting, sessionMutex, registered, made, state, holders, pc, obj, userVars>>

StopPolicy == setting.stop_policy
Faults == setting.errors

Init ==
  /\ setting \in Settings
  /\ sessionMutex = Free /\ userMutex = Free
  /\ registered = 0 /\ made = 0
  /\ state = [x \in Sessions |-> "inactive"]
  /\ holders = [x \in Sessions |-> {}]
  /\ user = "Active" /\ ours = 0 /\ waiting = 0
  /\ pc = [t \in Threads |-> "idle"]
  /\ obj = [t \in Threads |-> 0]

-----------------------------------------------------------------------------
(* Helpers                                                                 *)

\* somebody has a strong reference, so a weak one can be locked
Alive(x) ==
  x # 0 /\ (registered = x \/ holders[x] # {} \/ \E t \in Threads : obj[t] = x)

Go(t, place) == pc' = [pc EXCEPT ![t] = place]

\* a call that began on thread t returns; what it locked is released, and a
\* log-out goes on to its next statement
Return(t) ==
  /\ Go(t, IF userMutex = t THEN "park" ELSE "idle")
  /\ obj' = [obj EXCEPT ![t] = 0]
  /\ sessionMutex' = IF sessionMutex = t THEN Free ELSE sessionMutex

\* SyncSession::revive_if_needed
revive_if_needed(x) == state' = [state EXCEPT ![x] = "active"]

-----------------------------------------------------------------------------
(* Opening: get_session holds m_session_mutex throughout                   *)

GetExisting(o) ==
  /\ pc[o] = "idle" /\ sessionMutex = Free
  /\ registered # 0
  /\ sessionMutex' = o
  /\ obj' = [obj EXCEPT ![o] = registered]
  /\ Go(o, "register")
  /\ UNCHANGED <<registered, made, state, holders, userVars>>

\* the external reference is created at once
GetNew(o) ==
  /\ pc[o] = "idle" /\ sessionMutex = Free
  /\ registered = 0 /\ made < MaxSessions
  /\ sessionMutex' = o
  /\ made' = made + 1
  /\ registered' = made + 1
  /\ holders' = [holders EXCEPT ![made + 1] = {o}]
  /\ obj' = [obj EXCEPT ![o] = made + 1]
  /\ Go(o, "register")
  /\ UNCHANGED <<state, userVars>>

register_session(o) ==
  /\ pc[o] = "register" /\ userMutex = Free
  /\ \/ /\ user = "Active"
        /\ ours' = obj[o]
        /\ Go(o, "revive")
        /\ UNCHANGED waiting
     \/ /\ user = "LoggedOut"
        /\ waiting' = obj[o]
        /\ Go(o, "reference")
        /\ UNCHANGED ours
     \/ /\ user = "Error"
        /\ Go(o, "reference")
        /\ UNCHANGED <<ours, waiting>>
  /\ UNCHANGED <<sessionMutex, registered, made, state, holders, obj, userMutex, user>>

\* after the user's mutex has been released
ReviveRegistered(o) ==
  /\ pc[o] = "revive"
  /\ revive_if_needed(obj[o])
  /\ Go(o, "reference")
  /\ UNCHANGED <<sessionMutex, registered, made, holders, obj, userVars>>

external_reference(o) ==
  /\ pc[o] = "reference"
  /\ holders' = [holders EXCEPT ![obj[o]] = @ \cup {o}]
  /\ sessionMutex' = Free
  /\ Go(o, "holding")
  /\ UNCHANGED <<registered, made, state, obj, userVars>>

\* nothing is revived
get_existing_session(o) ==
  /\ pc[o] = "idle" /\ sessionMutex = Free
  /\ registered # 0
  /\ holders' = [holders EXCEPT ![registered] = @ \cup {o}]
  /\ obj' = [obj EXCEPT ![o] = registered]
  /\ Go(o, "borrowing")
  /\ UNCHANGED <<sessionMutex, registered, made, state, userVars>>

-----------------------------------------------------------------------------
(* Closing                                                                 *)

\* t gives up its share of x's ExternalReference; the last one destroys it,
\* and whoever looks from then on finds the weak reference expired
Unshare(t, x) == holders' = [holders EXCEPT ![x] = @ \ {t}]

Drop(o) ==
  /\ pc[o] \in {"holding", "borrowing"}
  /\ Unshare(o, obj[o])
  /\ \/ holders[obj[o]] = {o} /\ Go(o, "dropping") /\ UNCHANGED obj
     \/ holders[obj[o]] # {o} /\ Go(o, "idle") /\ obj' = [obj EXCEPT ![o] = 0]
  /\ UNCHANGED <<sessionMutex, registered, made, state, userVars>>

\* the session comes to inactive, or already is: unregister follows
Closes(x) ==
  \/ state[x] = "inactive"
  \/ state[x] = "active" /\ StopPolicy = "Immediately"

\* nobody has taken an external reference again
Expired(x) == holders[x] = {}

did_drop_external_reference(t) ==
  /\ pc[t] = "dropping"
  /\ LET x == obj[t]
     IN \/ /\ Expired(x) /\ Closes(x)
           /\ state' = [state EXCEPT ![x] = "inactive"]
           /\ Go(t, "unregister")
           /\ UNCHANGED <<sessionMutex, obj>>
        \/ /\ Expired(x) /\ state[x] = "active" /\ StopPolicy = "AfterChangesUploaded"
           /\ state' = [state EXCEPT ![x] = "dying"]
           /\ Return(t)
        \/ /\ \/ ~Expired(x) \/ state[x] = "dying"
              \/ state[x] = "active" /\ StopPolicy = "LiveIndefinitely"
           /\ Return(t)
           /\ UNCHANGED state
  /\ UNCHANGED <<registered, made, holders, userVars>>

\* mutant: the entry is erased whether or not the session is in use
UnregisterInUse(t) ==
  /\ pc[t] = "unregister" /\ sessionMutex = Free
  /\ registered # 0
  /\ registered' = 0
  /\ Return(t)
  /\ UNCHANGED <<made, state, holders, userVars>>

\* The entry of the path is erased unless existing_external_reference() gives
\* something; that temporary shares the ExternalReference.
unregister_session(t) ==
  /\ pc[t] = "unregister" /\ sessionMutex = Free
  /\ registered # 0
  /\ \/ /\ holders[registered] = {}
        /\ registered' = 0
        /\ Return(t)
        /\ UNCHANGED holders
     \/ /\ holders[registered] # {}
        /\ sessionMutex' = t
        /\ holders' = [holders EXCEPT ![registered] = @ \cup {t}]
        /\ obj' = [obj EXCEPT ![t] = registered]
        /\ Go(t, "peeked")
        /\ UNCHANGED registered
  /\ UNCHANGED <<made, state, userVars>>

\* find() returned end(): the assertion fails, or the iterator is used
UnregisterMissing(t) ==
  /\ pc[t] = "unregister" /\ sessionMutex = Free
  /\ registered = 0
  /\ sessionMutex' = t
  /\ Go(t, "missing")
  /\ UNCHANGED <<registered, made, state, holders, obj, userVars>>

\* the temporary is destroyed with m_session_mutex still held
ReleasePeek(t) ==
  /\ pc[t] = "peeked"
  /\ Unshare(t, obj[t])
  /\ \/ holders[obj[t]] = {t} /\ Go(t, "dropping") /\ UNCHANGED <<sessionMutex, obj>>
     \/ holders[obj[t]] # {t} /\ Return(t)
  /\ UNCHANGED <<registered, made, state, userVars>>

-----------------------------------------------------------------------------
(* The user: log_out holds the user's mutex throughout                     *)

log_out(l) ==
  /\ pc[l] = "idle" /\ userMutex = Free
  /\ user # "LoggedOut"
  /\ user' = "LoggedOut"
  /\ userMutex' = l
  /\ \/ /\ Alive(ours)
        /\ obj' = [obj EXCEPT ![l] = ours]
        /\ Go(l, "log out")
        /\ UNCHANGED ours
     \/ /\ ~Alive(ours)
        /\ ours' = 0
        /\ Go(l, "park")
        /\ UNCHANGED obj
  /\ UNCHANGED <<sessionMutex, registered, made, state, holders, waiting>>

\* SyncSession::log_out
SessionLogsOut(l) ==
  /\ pc[l] = "log out"
  /\ state' = [state EXCEPT ![obj[l]] = "inactive"]
  /\ \/ state[obj[l]] # "inactive" /\ Go(l, "unregister") /\ UNCHANGED obj
     \/ state[obj[l]] = "inactive" /\ Go(l, "park") /\ obj' = [obj EXCEPT ![l] = 0]
  /\ UNCHANGED <<sessionMutex, registered, made, holders, userVars>>

\* the session is kept for the next login, and the mutex is released
Park(l) ==
  /\ pc[l] = "park"
  /\ waiting' = IF ours # 0 THEN ours ELSE waiting
  /\ ours' = 0
  /\ userMutex' = Free
  /\ Go(l, "idle")
  /\ UNCHANGED <<sessionMutex, registered, made, state, holders, user, obj>>

\* a new token for a user who was logged out
update_refresh_token(l) ==
  /\ pc[l] = "idle" /\ userMutex = Free
  /\ user = "LoggedOut"
  /\ user' = "Active"
  /\ waiting' = 0
  /\ \/ /\ Alive(waiting)
        /\ ours' = waiting
        /\ obj' = [obj EXCEPT ![l] = waiting]
        /\ Go(l, "revive parked")
     \/ ~Alive(waiting) /\ UNCHANGED <<ours, obj, pc>>
  /\ UNCHANGED <<sessionMutex, registered, made, state, holders, userMutex>>

\* after the mutex has been released
ReviveParked(l) ==
  /\ pc[l] = "revive parked"
  /\ revive_if_needed(obj[l])
  /\ Go(l, "idle")
  /\ obj' = [obj EXCEPT ![l] = 0]
  /\ UNCHANGED <<sessionMutex, registered, made, holders, userVars>>

-----------------------------------------------------------------------------
(* The event loop                                                          *)

\* the upload of a dying session is complete, or an error stops a session
SessionEnds(x) ==
  /\ pc[Loop] = "idle"
  /\ Alive(x)
  /\ state[x] = "dying" \/ (Faults /\ state[x] = "active")
  /\ state' = [state EXCEPT ![x] = "inactive"]
  /\ obj' = [obj EXCEPT ![Loop] = x]
  /\ Go(Loop, "unregister")
  /\ UNCHANGED <<sessionMutex, registered, made, holders, userVars>>

invalidate ==
  /\ Faults /\ pc[Loop] = "idle" /\ userMutex = Free
  /\ user' = "Error"
  /\ UNCHANGED <<sessionMutex, registered, made, state, holders, pc, obj, userMutex,
                 ours, waiting>>

Open(o) ==
  \/ GetExisting(o) \/ GetNew(o) \/ register_session(o) \/ ReviveRegistered(o)
  \/ external_reference(o) \/ get_existing_session(o) \/ Drop(o)

Close(t) ==
  \/ did_drop_external_reference(t) \/ unregister_session(t) \/ UnregisterMissing(t)
  \/ ReleasePeek(t)

SignInOut(l) ==
  \/ log_out(l) \/ SessionLogsOut(l) \/ Park(l)
  \/ update_refresh_token(l) \/ ReviveParked(l)

Next ==
  /\ \/ \E o \in Openers : Open(o)
     \/ \E t \in Threads : Close(t)
     \/ \E l \in UserThreads : SignInOut(l)
     \/ \E x \in Sessions : SessionEnds(x)
     \/ invalidate
  /\ UNCHANGED setting

Spec == Init /\ [][Next]_vars

-----------------------------------------------------------------------------
(* Properties                                                              *)

\* the mutexes, the manager and the user
ManagerTyped ==
  /\ sessionMutex \in Threads \cup {Free} /\ userMutex \in Threads \cup {Free}
  /\ made \in 0..MaxSessions
  /\ registered \in 0..made /\ ours \in 0..made /\ waiting \in 0..made
  /\ user \in {"Active", "LoggedOut", "Error"}

\* the sessions
SessionsTyped ==
  /\ state \in [Sessions -> {"inactive", "active", "dying"}]
  /\ holders \in [Sessions -> SUBSET Threads]

Places == {"idle", "register", "revive", "reference", "holding", "borrowing", "dropping",
           "unregister", "missing", "peeked", "log out", "park", "revive parked"}

\* Every variable keeps its type.
TypeOK ==
  /\ ManagerTyped /\ SessionsTyped
  /\ pc \in [Threads -> Places] /\ obj \in [Threads -> 0..made]

\* A session that somebody outside holds is the one the manager would hand out
\* for its path: unregister_session never erases a session in use, although
\* it is called for a path and not for a session.
HeldIsRegistered ==
  \A x \in Sessions : holders[x] # {} => registered = x

Quiet == \A t \in Threads : pc[t] \in {"idle", "holding", "borrowing"}

Live(x) == Alive(x) /\ state[x] # "inactive"

\* A session that is held while the user is logged out is the one the next login
\* will revive, however it was obtained from get_session: asked without errors,
\* since an invalidated user keeps no sessions.
HeldAwaitsLogin ==
  ~Faults /\ Quiet /\ user = "LoggedOut" =>
    \A o \in Openers : pc[o] = "holding" => waiting = obj[o]

\* The two together, and every variable of its type.
SessionsInOrder == TypeOK /\ HeldIsRegistered /\ HeldAwaitsLogin

\* unregister_session finds the session it is called for, as it asserts.
UnregisterFindsSession == \A t \in Threads : pc[t] # "missing"

\* The mutex that thread t is about to lock and that is not free.
WaitsFor(t) ==
  IF pc[t] = "unregister" THEN sessionMutex
  ELSE IF pc[t] = "register" THEN userMutex
  ELSE Free

\* No two threads wait for each other's mutex.
NoLockCycle ==
  \A t, u \in Threads : t # u => ~(WaitsFor(t) = u /\ WaitsFor(u) = t)

\* No thread waits for a mutex it holds itself.
NoSelfLock == \A t \in Threads : WaitsFor(t) # t

\* Logging out closes the user's sessions: when all calls have returned, no
\* session of a logged-out user runs.
LogOutCloses == Quiet /\ user = "LoggedOut" => \A x \in Sessions : ~Live(x)

\* Whoever got a session from get_session, and has its external reference, has
\* an active one while the user is logged in: asked without errors and log-outs.
HeldIsActive ==
  Quiet /\ user = "Active" =>
    \A o \in Openers : pc[o] = "holding" => state[obj[o]] = "active"

\* unregister_session stops tracking a session only if it is inactive, so that
\* none is destroyed while it still uploads.
ErasesOnlyInactive ==
  [][registered # 0 /\ registered' = 0 => state[registered] = "inactive"]_vars
=============================================================================
