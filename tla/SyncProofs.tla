------------------------------ MODULE SyncProofs ------------------------------
(***************************************************************************)
(* ManagerInv is an inductive invariant of SyncManager, for any threads,   *)
(* any stop policies, with errors and without, and any number of sessions. *)
(* FilesInv is one of SyncFiles, for any Realms, any number of process     *)
(* deaths and file actions, and with file operations refused or not.       *)
(***************************************************************************)
EXTENDS SyncManager, SyncFiles, TLAPS

USE DEF userVars

\* get_session holds m_session_mutex from finding the session to handing it out,
\* so that it hands out the one that is registered.
OpensRegistered ==
  \A o \in Threads : pc[o] \in {"register", "revive", "reference"} =>
    sessionMutex = o /\ registered # 0 /\ obj[o] = registered

\* Whoever opened the Realm shares the external reference of its session.
HolderShares ==
  \A o \in Threads : pc[o] = "holding" => obj[o] # 0 /\ o \in holders[obj[o]]

\* The user's mutex is held by a thread that is in log_out, and the user counts
\* as logged out from its beginning.
LogOutLocksUser ==
  /\ \A l \in Threads : pc[l] \in {"log out", "park"} => userMutex = l
  /\ \A l \in Threads : userMutex = l =>
       pc[l] \in {"log out", "park", "unregister", "missing", "peeked", "dropping"}
  /\ userMutex # Free => user = "LoggedOut"

\* get_session has handed the session to thread o, or has registered it with the
\* user for it.
Tracked(o) == pc[o] \in {"revive", "reference", "holding"}

\* The session the user has: its own, or the one that waits for the next login.
Known == IF user = "Active" \/ userMutex # Free THEN ours ELSE waiting

\* Without errors the user knows the session that get_session hands out or has
\* handed out.
UserKnowsSession ==
  ~Faults => user # "Error" /\ \A o \in Threads : Tracked(o) => registered = Known

\* The inductive invariant.
ManagerInv ==
  /\ setting \in Settings
  /\ SessionsInOrder
  /\ OpensRegistered /\ HolderShares /\ LogOutLocksUser /\ UserKnowsSession

-----------------------------------------------------------------------------
(* The constants                                                           *)

\* The threads, and the sessions there may be.
LEMMA Constants ==
  /\ Openers \subseteq Threads /\ UserThreads \subseteq Threads /\ Loop \in Threads
  /\ Free \notin Threads
  /\ MaxSessions \in Nat
  /\ \A x : x \in Sessions <=> x \in 1..MaxSessions
BY ManagerAssumption DEF Threads, Sessions

\* What the operations of a user do, whether or not there is a session.
LEMMA LogOutEffect ==
  ASSUME NEW l \in UserThreads, log_out(l)
  PROVE  /\ pc[l] = "idle" /\ userMutex = Free
         /\ user # "LoggedOut" /\ user' = "LoggedOut" /\ userMutex' = l
         /\ ours' = ours \/ (ours' = 0 /\ ~Alive(ours))
         /\ pc' = [pc EXCEPT ![l] = "log out"] \/ pc' = [pc EXCEPT ![l] = "park"]
         /\ obj' = obj \/ obj' = [obj EXCEPT ![l] = ours]
         /\ UNCHANGED <<sessionMutex, registered, made, state, holders, waiting>>
BY DEF log_out, Go

LEMMA SessionLogsOutEffect ==
  ASSUME NEW l \in UserThreads, SessionLogsOut(l)
  PROVE  /\ pc[l] = "log out"
         /\ pc' = [pc EXCEPT ![l] = "unregister"] \/ pc' = [pc EXCEPT ![l] = "park"]
         /\ obj' = obj \/ obj' = [obj EXCEPT ![l] = 0]
         /\ UNCHANGED <<sessionMutex, registered, made, holders, userVars>>
BY DEF SessionLogsOut, Go

LEMMA UpdateEffect ==
  ASSUME NEW l \in UserThreads, update_refresh_token(l)
  PROVE  /\ pc[l] = "idle" /\ userMutex = Free
         /\ user = "LoggedOut" /\ user' = "Active"
         /\ waiting' = 0
         /\ ours' = waiting \/ (ours' = ours /\ ~Alive(waiting))
         /\ pc' = pc \/ pc' = [pc EXCEPT ![l] = "revive parked"]
         /\ obj' = obj \/ obj' = [obj EXCEPT ![l] = waiting]
         /\ UNCHANGED <<sessionMutex, registered, made, state, holders, userMutex>>
BY DEF update_refresh_token, Go

\* A session that is tracked is registered, and so alive; and who holds it shares
\* its external reference.
LEMMA TrackedIsRegistered ==
  ASSUME ManagerInv, NEW o \in Threads, Tracked(o)
  PROVE  /\ registered # 0 /\ Alive(registered)
         /\ sessionMutex = o \/ holders[registered] # {}
<1>1. ManagerTyped /\ SessionsTyped /\ obj \in [Threads -> 0..made] /\ HeldIsRegistered
  BY DEF ManagerInv, SessionsInOrder, TypeOK
<1>2. CASE pc[o] \in {"revive", "reference"}
  BY <1>2 DEF ManagerInv, OpensRegistered, Alive
<1>3. CASE pc[o] = "holding"
  <2>1. obj[o] # 0 /\ obj[o] \in Sessions /\ o \in holders[obj[o]]
    BY <1>1, <1>3, Constants DEF ManagerInv, HolderShares, ManagerTyped
  <2>2. registered = obj[o]
    BY <1>1, <2>1 DEF HeldIsRegistered
  <2> QED BY <2>1, <2>2 DEF Alive
<1> QED BY <1>2, <1>3 DEF Tracked

-----------------------------------------------------------------------------
(* One lemma per conjunct of the invariant, one case per action            *)

\* The mutexes, the manager and the user stay typed.
LEMMA ManagerTypedStep ==
  ASSUME ManagerInv, Next
  PROVE  ManagerTyped'
<1>1. ManagerTyped /\ obj \in [Threads -> 0..made]
  BY DEF ManagerInv, SessionsInOrder, TypeOK
<1>2. setting' = setting
  BY DEF Next
<1> USE <1>1, <1>2, Constants
<1>3. ASSUME NEW o \in Openers, GetExisting(o) PROVE ManagerTyped'
  BY <1>3 DEF GetExisting, Go, ManagerTyped
<1>4. ASSUME NEW o \in Openers, GetNew(o) PROVE ManagerTyped'
  BY <1>4 DEF GetNew, Go, ManagerTyped
<1>5. ASSUME NEW o \in Openers, register_session(o) PROVE ManagerTyped'
  BY <1>5 DEF register_session, Go, ManagerTyped
<1>6. ASSUME NEW o \in Openers, ReviveRegistered(o) PROVE ManagerTyped'
  BY <1>6 DEF ReviveRegistered, revive_if_needed, Go, ManagerTyped
<1>7. ASSUME NEW o \in Openers, external_reference(o) PROVE ManagerTyped'
  BY <1>7 DEF external_reference, Go, ManagerTyped
<1>8. ASSUME NEW o \in Openers, get_existing_session(o) PROVE ManagerTyped'
  BY <1>8 DEF get_existing_session, Go, ManagerTyped
<1>9. ASSUME NEW o \in Openers, Drop(o) PROVE ManagerTyped'
  BY <1>9 DEF Drop, Unshare, Go, ManagerTyped
<1>10. ASSUME NEW t \in Threads, did_drop_external_reference(t) PROVE ManagerTyped'
  BY <1>10 DEF did_drop_external_reference, Return, Go, ManagerTyped
<1>11. ASSUME NEW t \in Threads, unregister_session(t) PROVE ManagerTyped'
  BY <1>11 DEF unregister_session, Return, Go, ManagerTyped
<1>12. ASSUME NEW t \in Threads, UnregisterMissing(t) PROVE ManagerTyped'
  BY <1>12 DEF UnregisterMissing, Go, ManagerTyped
<1>13. ASSUME NEW t \in Threads, ReleasePeek(t) PROVE ManagerTyped'
  BY <1>13 DEF ReleasePeek, Unshare, Return, Go, ManagerTyped
<1>14. ASSUME NEW l \in UserThreads, log_out(l) PROVE ManagerTyped'
  <2>1. /\ l \in Threads /\ userMutex' = l /\ user' = "LoggedOut"
        /\ sessionMutex' = sessionMutex /\ registered' = registered /\ made' = made
        /\ waiting' = waiting /\ (ours' = ours \/ ours' = 0)
    BY <1>14, LogOutEffect
  <2> QED BY <2>1 DEF ManagerTyped
<1>15. ASSUME NEW l \in UserThreads, SessionLogsOut(l) PROVE ManagerTyped'
  BY <1>15, SessionLogsOutEffect DEF ManagerTyped
<1>16. ASSUME NEW l \in UserThreads, Park(l) PROVE ManagerTyped'
  BY <1>16 DEF Park, Go, ManagerTyped
<1>17. ASSUME NEW l \in UserThreads, update_refresh_token(l) PROVE ManagerTyped'
  <2>1. /\ userMutex' = userMutex /\ user' = "Active"
        /\ sessionMutex' = sessionMutex /\ registered' = registered /\ made' = made
        /\ waiting' = 0 /\ (ours' = ours \/ ours' = waiting)
    BY <1>17, UpdateEffect
  <2> QED BY <2>1 DEF ManagerTyped
<1>18. ASSUME NEW l \in UserThreads, ReviveParked(l) PROVE ManagerTyped'
  BY <1>18 DEF ReviveParked, revive_if_needed, Go, ManagerTyped
<1>19. ASSUME NEW x \in Sessions, SessionEnds(x) PROVE ManagerTyped'
  BY <1>19 DEF SessionEnds, Go, ManagerTyped
<1>20. ASSUME invalidate PROVE ManagerTyped'
  BY <1>20 DEF invalidate, ManagerTyped
<1> QED
  BY <1>3, <1>4, <1>5, <1>6, <1>7, <1>8, <1>9, <1>10, <1>11,
     <1>12, <1>13, <1>14, <1>15, <1>16, <1>17, <1>18, <1>19, <1>20
  DEF Next, Open, Close, SignInOut

\* The sessions stay typed.
LEMMA SessionsTypedStep ==
  ASSUME ManagerInv, Next
  PROVE  SessionsTyped'
<1>1. SessionsTyped
  BY DEF ManagerInv, SessionsInOrder, TypeOK
<1>2. setting' = setting
  BY DEF Next
<1> USE <1>1, <1>2, Constants
<1>3. ASSUME NEW o \in Openers, GetExisting(o) PROVE SessionsTyped'
  BY <1>3 DEF GetExisting, Go, SessionsTyped
<1>4. ASSUME NEW o \in Openers, GetNew(o) PROVE SessionsTyped'
  BY <1>4 DEF GetNew, Go, SessionsTyped
<1>5. ASSUME NEW o \in Openers, register_session(o) PROVE SessionsTyped'
  BY <1>5 DEF register_session, Go, SessionsTyped
<1>6. ASSUME NEW o \in Openers, ReviveRegistered(o) PROVE SessionsTyped'
  BY <1>6 DEF ReviveRegistered, revive_if_needed, Go, SessionsTyped
<1>7. ASSUME NEW o \in Openers, external_reference(o) PROVE SessionsTyped'
  BY <1>7 DEF external_reference, Go, SessionsTyped
<1>8. ASSUME NEW o \in Openers, get_existing_session(o) PROVE SessionsTyped'
  BY <1>8 DEF get_existing_session, Go, SessionsTyped
<1>9. ASSUME NEW o \in Openers, Drop(o) PROVE SessionsTyped'
  BY <1>9 DEF Drop, Unshare, Go, SessionsTyped
<1>10. ASSUME NEW t \in Threads, did_drop_external_reference(t) PROVE SessionsTyped'
  BY <1>10 DEF did_drop_external_reference, Return, Go, SessionsTyped
<1>11. ASSUME NEW t \in Threads, unregister_session(t) PROVE SessionsTyped'
  BY <1>11 DEF unregister_session, Return, Go, SessionsTyped
<1>12. ASSUME NEW t \in Threads, UnregisterMissing(t) PROVE SessionsTyped'
  BY <1>12 DEF UnregisterMissing, Go, SessionsTyped
<1>13. ASSUME NEW t \in Threads, ReleasePeek(t) PROVE SessionsTyped'
  BY <1>13 DEF ReleasePeek, Unshare, Return, Go, SessionsTyped
<1>14. ASSUME NEW l \in UserThreads, log_out(l) PROVE SessionsTyped'
  BY <1>14 DEF log_out, Go, SessionsTyped
<1>15. ASSUME NEW l \in UserThreads, SessionLogsOut(l) PROVE SessionsTyped'
  BY <1>15 DEF SessionLogsOut, Go, SessionsTyped
<1>16. ASSUME NEW l \in UserThreads, Park(l) PROVE SessionsTyped'
  BY <1>16 DEF Park, Go, SessionsTyped
<1>17. ASSUME NEW l \in UserThreads, update_refresh_token(l) PROVE SessionsTyped'
  BY <1>17 DEF update_refresh_token, Go, SessionsTyped
<1>18. ASSUME NEW l \in UserThreads, ReviveParked(l) PROVE SessionsTyped'
  BY <1>18 DEF ReviveParked, revive_if_needed, Go, SessionsTyped
<1>19. ASSUME NEW x \in Sessions, SessionEnds(x) PROVE SessionsTyped'
  BY <1>19 DEF SessionEnds, Go, SessionsTyped
<1>20. ASSUME invalidate PROVE SessionsTyped'
  BY <1>20 DEF invalidate, SessionsTyped
<1> QED
  BY <1>3, <1>4, <1>5, <1>6, <1>7, <1>8, <1>9, <1>10, <1>11,
     <1>12, <1>13, <1>14, <1>15, <1>16, <1>17, <1>18, <1>19, <1>20
  DEF Next, Open, Close, SignInOut

\* Every thread is somewhere.
LEMMA PlacesTypedStep ==
  ASSUME ManagerInv, Next
  PROVE  (pc \in [Threads -> Places])'
<1>1. pc \in [Threads -> Places]
  BY DEF ManagerInv, SessionsInOrder, TypeOK
<1>2. setting' = setting
  BY DEF Next
<1> USE <1>1, <1>2, Constants
<1>3. ASSUME NEW o \in Openers, GetExisting(o) PROVE (pc \in [Threads -> Places])'
  BY <1>3 DEF GetExisting, Go, Places
<1>4. ASSUME NEW o \in Openers, GetNew(o) PROVE (pc \in [Threads -> Places])'
  BY <1>4 DEF GetNew, Go, Places
<1>5. ASSUME NEW o \in Openers, register_session(o) PROVE (pc \in [Threads -> Places])'
  BY <1>5 DEF register_session, Go, Places
<1>6. ASSUME NEW o \in Openers, ReviveRegistered(o) PROVE (pc \in [Threads -> Places])'
  BY <1>6 DEF ReviveRegistered, revive_if_needed, Go, Places
<1>7. ASSUME NEW o \in Openers, external_reference(o)
      PROVE (pc \in [Threads -> Places])'
  BY <1>7 DEF external_reference, Go, Places
<1>8. ASSUME NEW o \in Openers, get_existing_session(o)
      PROVE (pc \in [Threads -> Places])'
  BY <1>8 DEF get_existing_session, Go, Places
<1>9. ASSUME NEW o \in Openers, Drop(o) PROVE (pc \in [Threads -> Places])'
  BY <1>9 DEF Drop, Unshare, Go, Places
<1>10. ASSUME NEW t \in Threads, did_drop_external_reference(t)
       PROVE (pc \in [Threads -> Places])'
  BY <1>10 DEF did_drop_external_reference, Return, Go, Places
<1>11. ASSUME NEW t \in Threads, unregister_session(t)
       PROVE (pc \in [Threads -> Places])'
  BY <1>11 DEF unregister_session, Return, Go, Places
<1>12. ASSUME NEW t \in Threads, UnregisterMissing(t)
       PROVE (pc \in [Threads -> Places])'
  BY <1>12 DEF UnregisterMissing, Go, Places
<1>13. ASSUME NEW t \in Threads, ReleasePeek(t) PROVE (pc \in [Threads -> Places])'
  BY <1>13 DEF ReleasePeek, Unshare, Return, Go, Places
<1>14. ASSUME NEW l \in UserThreads, log_out(l) PROVE (pc \in [Threads -> Places])'
  BY <1>14 DEF log_out, Go, Places
<1>15. ASSUME NEW l \in UserThreads, SessionLogsOut(l)
       PROVE (pc \in [Threads -> Places])'
  BY <1>15 DEF SessionLogsOut, Go, Places
<1>16. ASSUME NEW l \in UserThreads, Park(l) PROVE (pc \in [Threads -> Places])'
  BY <1>16 DEF Park, Go, Places
<1>17. ASSUME NEW l \in UserThreads, update_refresh_token(l)
       PROVE (pc \in [Threads -> Places])'
  BY <1>17 DEF update_refresh_token, Go, Places
<1>18. ASSUME NEW l \in UserThreads, ReviveParked(l) PROVE (pc \in [Threads -> Places])'
  BY <1>18 DEF ReviveParked, revive_if_needed, Go, Places
<1>19. ASSUME NEW x \in Sessions, SessionEnds(x) PROVE (pc \in [Threads -> Places])'
  BY <1>19 DEF SessionEnds, Go, Places
<1>20. ASSUME invalidate PROVE (pc \in [Threads -> Places])'
  BY <1>20 DEF invalidate, Places
<1> QED
  BY <1>3, <1>4, <1>5, <1>6, <1>7, <1>8, <1>9, <1>10, <1>11,
     <1>12, <1>13, <1>14, <1>15, <1>16, <1>17, <1>18, <1>19, <1>20
  DEF Next, Open, Close, SignInOut

\* Every thread points to a session that has been made, or to none.
LEMMA ObjTypedStep ==
  ASSUME ManagerInv, Next
  PROVE  (obj \in [Threads -> 0..made])'
<1>1. ManagerTyped /\ HeldIsRegistered /\ obj \in [Threads -> 0..made]
  BY DEF ManagerInv, SessionsInOrder, TypeOK
<1>2. setting' = setting
  BY DEF Next
<1> USE <1>1, <1>2, Constants
<1>3. ASSUME NEW o \in Openers, GetExisting(o) PROVE (obj \in [Threads -> 0..made])'
  BY <1>3 DEF GetExisting, Go, ManagerTyped
<1>4. ASSUME NEW o \in Openers, GetNew(o) PROVE (obj \in [Threads -> 0..made])'
  BY <1>4 DEF GetNew, Go, ManagerTyped
<1>5. ASSUME NEW o \in Openers, register_session(o)
      PROVE (obj \in [Threads -> 0..made])'
  BY <1>5 DEF register_session, Go, ManagerTyped
<1>6. ASSUME NEW o \in Openers, ReviveRegistered(o)
      PROVE (obj \in [Threads -> 0..made])'
  BY <1>6 DEF ReviveRegistered, revive_if_needed, Go, ManagerTyped
<1>7. ASSUME NEW o \in Openers, external_reference(o)
      PROVE (obj \in [Threads -> 0..made])'
  BY <1>7 DEF external_reference, Go, ManagerTyped
<1>8. ASSUME NEW o \in Openers, get_existing_session(o)
      PROVE (obj \in [Threads -> 0..made])'
  BY <1>8 DEF get_existing_session, Go, ManagerTyped
<1>9. ASSUME NEW o \in Openers, Drop(o) PROVE (obj \in [Threads -> 0..made])'
  BY <1>9 DEF Drop, Unshare, Go, ManagerTyped
<1>10. ASSUME NEW t \in Threads, did_drop_external_reference(t)
       PROVE (obj \in [Threads -> 0..made])'
  BY <1>10 DEF did_drop_external_reference, Return, Go, ManagerTyped
<1>11. ASSUME NEW t \in Threads, unregister_session(t)
       PROVE (obj \in [Threads -> 0..made])'
  BY <1>11 DEF unregister_session, Return, Go, ManagerTyped
<1>12. ASSUME NEW t \in Threads, UnregisterMissing(t)
       PROVE (obj \in [Threads -> 0..made])'
  BY <1>12 DEF UnregisterMissing, Go, ManagerTyped
<1>13. ASSUME NEW t \in Threads, ReleasePeek(t) PROVE (obj \in [Threads -> 0..made])'
  BY <1>13 DEF ReleasePeek, Unshare, Return, Go, ManagerTyped
<1>14. ASSUME NEW l \in UserThreads, log_out(l) PROVE (obj \in [Threads -> 0..made])'
  BY <1>14, LogOutEffect DEF ManagerTyped
<1>15. ASSUME NEW l \in UserThreads, SessionLogsOut(l)
       PROVE (obj \in [Threads -> 0..made])'
  <2>1. made' = made /\ (obj' = obj \/ obj' = [obj EXCEPT ![l] = 0])
    BY <1>15, SessionLogsOutEffect
  <2>2. 0 \in 0..made
    BY DEF ManagerTyped
  <2> QED BY <2>1, <2>2
<1>16. ASSUME NEW l \in UserThreads, Park(l) PROVE (obj \in [Threads -> 0..made])'
  BY <1>16 DEF Park, Go, ManagerTyped
<1>17. ASSUME NEW l \in UserThreads, update_refresh_token(l)
       PROVE (obj \in [Threads -> 0..made])'
  BY <1>17, UpdateEffect DEF ManagerTyped
<1>18. ASSUME NEW l \in UserThreads, ReviveParked(l)
       PROVE (obj \in [Threads -> 0..made])'
  <2>1. obj' = [obj EXCEPT ![l] = 0] /\ made' = made
    BY <1>18 DEF ReviveParked
  <2> QED BY <2>1 DEF ManagerTyped
<1>19. ASSUME NEW x \in Sessions, SessionEnds(x) PROVE (obj \in [Threads -> 0..made])'
  <2>1. x \in 0..made
    BY <1>19 DEF SessionEnds, Alive, HeldIsRegistered, ManagerTyped
  <2>2. obj' = [obj EXCEPT ![Loop] = x] /\ made' = made
    BY <1>19 DEF SessionEnds
  <2> QED BY <2>1, <2>2
<1>20. ASSUME invalidate PROVE (obj \in [Threads -> 0..made])'
  BY <1>20 DEF invalidate, ManagerTyped
<1> QED
  BY <1>3, <1>4, <1>5, <1>6, <1>7, <1>8, <1>9, <1>10, <1>11,
     <1>12, <1>13, <1>14, <1>15, <1>16, <1>17, <1>18, <1>19, <1>20
  DEF Next, Open, Close, SignInOut

\* The session that is being opened stays registered.
LEMMA OpensStep ==
  ASSUME ManagerInv, Next
  PROVE  OpensRegistered'
<1>1. TypeOK /\ ManagerTyped /\ OpensRegistered
  BY DEF ManagerInv, SessionsInOrder, TypeOK
<1>2. setting' = setting
  BY DEF Next
<1> USE <1>1, <1>2, Constants
<1>3. ASSUME NEW o \in Openers, GetExisting(o) PROVE OpensRegistered'
  BY <1>3 DEF GetExisting, Go, TypeOK, OpensRegistered
<1>4. ASSUME NEW o \in Openers, GetNew(o) PROVE OpensRegistered'
  BY <1>4 DEF GetNew, Go, TypeOK, ManagerTyped, OpensRegistered
<1>5. ASSUME NEW o \in Openers, register_session(o) PROVE OpensRegistered'
  BY <1>5 DEF register_session, Go, TypeOK, OpensRegistered
<1>6. ASSUME NEW o \in Openers, ReviveRegistered(o) PROVE OpensRegistered'
  BY <1>6 DEF ReviveRegistered, revive_if_needed, Go, TypeOK, OpensRegistered
<1>7. ASSUME NEW o \in Openers, external_reference(o) PROVE OpensRegistered'
  BY <1>7 DEF external_reference, Go, TypeOK, OpensRegistered
<1>8. ASSUME NEW o \in Openers, get_existing_session(o) PROVE OpensRegistered'
  BY <1>8 DEF get_existing_session, Go, TypeOK, OpensRegistered
<1>9. ASSUME NEW o \in Openers, Drop(o) PROVE OpensRegistered'
  BY <1>9 DEF Drop, Unshare, Go, TypeOK, OpensRegistered
<1>10. ASSUME NEW t \in Threads, did_drop_external_reference(t) PROVE OpensRegistered'
  BY <1>10 DEF did_drop_external_reference, Return, Go, TypeOK, OpensRegistered
<1>11. ASSUME NEW t \in Threads, unregister_session(t) PROVE OpensRegistered'
  BY <1>11 DEF unregister_session, Return, Go, TypeOK, OpensRegistered
<1>12. ASSUME NEW t \in Threads, UnregisterMissing(t) PROVE OpensRegistered'
  BY <1>12 DEF UnregisterMissing, Go, TypeOK, OpensRegistered
<1>13. ASSUME NEW t \in Threads, ReleasePeek(t) PROVE OpensRegistered'
  BY <1>13 DEF ReleasePeek, Unshare, Return, Go, TypeOK, OpensRegistered
<1>14. ASSUME NEW l \in UserThreads, log_out(l) PROVE OpensRegistered'
  BY <1>14 DEF log_out, Go, TypeOK, OpensRegistered
<1>15. ASSUME NEW l \in UserThreads, SessionLogsOut(l) PROVE OpensRegistered'
  BY <1>15 DEF SessionLogsOut, Go, TypeOK, OpensRegistered
<1>16. ASSUME NEW l \in UserThreads, Park(l) PROVE OpensRegistered'
  BY <1>16 DEF Park, Go, TypeOK, OpensRegistered
<1>17. ASSUME NEW l \in UserThreads, update_refresh_token(l) PROVE OpensRegistered'
  BY <1>17 DEF update_refresh_token, Go, TypeOK, OpensRegistered
<1>18. ASSUME NEW l \in UserThreads, ReviveParked(l) PROVE OpensRegistered'
  BY <1>18 DEF ReviveParked, revive_if_needed, Go, TypeOK, OpensRegistered
<1>19. ASSUME NEW x \in Sessions, SessionEnds(x) PROVE OpensRegistered'
  BY <1>19 DEF SessionEnds, Go, TypeOK, OpensRegistered
<1>20. ASSUME invalidate PROVE OpensRegistered'
  BY <1>20 DEF invalidate, TypeOK, OpensRegistered
<1> QED
  BY <1>3, <1>4, <1>5, <1>6, <1>7, <1>8, <1>9, <1>10, <1>11,
     <1>12, <1>13, <1>14, <1>15, <1>16, <1>17, <1>18, <1>19, <1>20
  DEF Next, Open, Close, SignInOut

\* A session in use is not erased, and no other one gets into use.
LEMMA HeldStep ==
  ASSUME ManagerInv, Next
  PROVE  HeldIsRegistered'
<1>1. TypeOK /\ ManagerTyped /\ SessionsTyped /\ OpensRegistered /\ HeldIsRegistered
  BY DEF ManagerInv, SessionsInOrder, TypeOK
<1>2. setting' = setting
  BY DEF Next
<1> USE <1>1, <1>2, Constants
<1>3. ASSUME NEW o \in Openers, GetExisting(o) PROVE HeldIsRegistered'
  BY <1>3 DEF GetExisting, Go, SessionsTyped, HeldIsRegistered
<1>4. ASSUME NEW o \in Openers, GetNew(o) PROVE HeldIsRegistered'
  BY <1>4 DEF GetNew, Go, SessionsTyped, HeldIsRegistered
<1>5. ASSUME NEW o \in Openers, register_session(o) PROVE HeldIsRegistered'
  BY <1>5 DEF register_session, Go, SessionsTyped, HeldIsRegistered
<1>6. ASSUME NEW o \in Openers, ReviveRegistered(o) PROVE HeldIsRegistered'
  BY <1>6 DEF ReviveRegistered, revive_if_needed, Go, SessionsTyped, HeldIsRegistered
<1>7. ASSUME NEW o \in Openers, external_reference(o) PROVE HeldIsRegistered'
  BY <1>7 DEF external_reference, TypeOK, SessionsTyped, OpensRegistered,
     HeldIsRegistered
<1>8. ASSUME NEW o \in Openers, get_existing_session(o) PROVE HeldIsRegistered'
  BY <1>8 DEF get_existing_session, Go, SessionsTyped, HeldIsRegistered
<1>9. ASSUME NEW o \in Openers, Drop(o) PROVE HeldIsRegistered'
  BY <1>9 DEF Drop, Unshare, Go, SessionsTyped, HeldIsRegistered
<1>10. ASSUME NEW t \in Threads, did_drop_external_reference(t) PROVE HeldIsRegistered'
  BY <1>10 DEF did_drop_external_reference, Return, Go, SessionsTyped, HeldIsRegistered
<1>11. ASSUME NEW t \in Threads, unregister_session(t) PROVE HeldIsRegistered'
  BY <1>11 DEF unregister_session, Return, Go, SessionsTyped, HeldIsRegistered
<1>12. ASSUME NEW t \in Threads, UnregisterMissing(t) PROVE HeldIsRegistered'
  BY <1>12 DEF UnregisterMissing, Go, SessionsTyped, HeldIsRegistered
<1>13. ASSUME NEW t \in Threads, ReleasePeek(t) PROVE HeldIsRegistered'
  BY <1>13 DEF ReleasePeek, Unshare, Return, Go, SessionsTyped, HeldIsRegistered
<1>14. ASSUME NEW l \in UserThreads, log_out(l) PROVE HeldIsRegistered'
  BY <1>14 DEF log_out, Go, SessionsTyped, HeldIsRegistered
<1>15. ASSUME NEW l \in UserThreads, SessionLogsOut(l) PROVE HeldIsRegistered'
  BY <1>15 DEF SessionLogsOut, Go, SessionsTyped, HeldIsRegistered
<1>16. ASSUME NEW l \in UserThreads, Park(l) PROVE HeldIsRegistered'
  BY <1>16 DEF Park, Go, SessionsTyped, HeldIsRegistered
<1>17. ASSUME NEW l \in UserThreads, update_refresh_token(l) PROVE HeldIsRegistered'
  BY <1>17 DEF update_refresh_token, Go, SessionsTyped, HeldIsRegistered
<1>18. ASSUME NEW l \in UserThreads, ReviveParked(l) PROVE HeldIsRegistered'
  BY <1>18 DEF ReviveParked, revive_if_needed, Go, SessionsTyped, HeldIsRegistered
<1>19. ASSUME NEW x \in Sessions, SessionEnds(x) PROVE HeldIsRegistered'
  BY <1>19 DEF SessionEnds, Go, SessionsTyped, HeldIsRegistered
<1>20. ASSUME invalidate PROVE HeldIsRegistered'
  BY <1>20 DEF invalidate, SessionsTyped, HeldIsRegistered
<1> QED
  BY <1>3, <1>4, <1>5, <1>6, <1>7, <1>8, <1>9, <1>10, <1>11,
     <1>12, <1>13, <1>14, <1>15, <1>16, <1>17, <1>18, <1>19, <1>20
  DEF Next, Open, Close, SignInOut

\* Nobody loses a share to somebody else.
LEMMA SharesStep ==
  ASSUME ManagerInv, Next
  PROVE  HolderShares'
<1>1. /\ TypeOK /\ ManagerTyped /\ SessionsTyped
      /\ OpensRegistered /\ HeldIsRegistered /\ HolderShares
  BY DEF ManagerInv, SessionsInOrder, TypeOK
<1>2. setting' = setting
  BY DEF Next
<1> USE <1>1, <1>2, Constants
<1>3. ASSUME NEW o \in Openers, GetExisting(o) PROVE HolderShares'
  BY <1>3 DEF GetExisting, Go, TypeOK, SessionsTyped, HolderShares
<1>4. ASSUME NEW o \in Openers, GetNew(o) PROVE HolderShares'
  BY <1>4 DEF GetNew, Go, TypeOK, ManagerTyped, SessionsTyped, OpensRegistered,
     HeldIsRegistered, HolderShares
<1>5. ASSUME NEW o \in Openers, register_session(o) PROVE HolderShares'
  BY <1>5 DEF register_session, Go, TypeOK, SessionsTyped, HolderShares
<1>6. ASSUME NEW o \in Openers, ReviveRegistered(o) PROVE HolderShares'
  BY <1>6 DEF ReviveRegistered, revive_if_needed, Go, TypeOK, SessionsTyped,
     HolderShares
<1>7. ASSUME NEW o \in Openers, external_reference(o) PROVE HolderShares'
  BY <1>7 DEF external_reference, Go, TypeOK, ManagerTyped, SessionsTyped,
     OpensRegistered,
     HeldIsRegistered, HolderShares
<1>8. ASSUME NEW o \in Openers, get_existing_session(o) PROVE HolderShares'
  BY <1>8 DEF get_existing_session, Go, TypeOK, SessionsTyped, HolderShares
<1>9. ASSUME NEW o \in Openers, Drop(o) PROVE HolderShares'
  BY <1>9 DEF Drop, Unshare, Go, TypeOK, SessionsTyped, HolderShares
<1>10. ASSUME NEW t \in Threads, did_drop_external_reference(t) PROVE HolderShares'
  BY <1>10 DEF did_drop_external_reference, Return, Go, TypeOK, SessionsTyped,
     HolderShares
<1>11. ASSUME NEW t \in Threads, unregister_session(t) PROVE HolderShares'
  BY <1>11 DEF unregister_session, Return, Go, TypeOK, ManagerTyped, SessionsTyped,
     OpensRegistered,
     HeldIsRegistered, HolderShares
<1>12. ASSUME NEW t \in Threads, UnregisterMissing(t) PROVE HolderShares'
  BY <1>12 DEF UnregisterMissing, Go, TypeOK, SessionsTyped, HolderShares
<1>13. ASSUME NEW t \in Threads, ReleasePeek(t) PROVE HolderShares'
  BY <1>13 DEF ReleasePeek, Unshare, Return, Go, TypeOK, SessionsTyped, HolderShares
<1>14. ASSUME NEW l \in UserThreads, log_out(l) PROVE HolderShares'
  BY <1>14, LogOutEffect DEF TypeOK, HolderShares
<1>15. ASSUME NEW l \in UserThreads, SessionLogsOut(l) PROVE HolderShares'
  BY <1>15, SessionLogsOutEffect DEF TypeOK, HolderShares
<1>16. ASSUME NEW l \in UserThreads, Park(l) PROVE HolderShares'
  BY <1>16 DEF Park, Go, TypeOK, SessionsTyped, HolderShares
<1>17. ASSUME NEW l \in UserThreads, update_refresh_token(l) PROVE HolderShares'
  BY <1>17, UpdateEffect DEF TypeOK, HolderShares
<1>18. ASSUME NEW l \in UserThreads, ReviveParked(l) PROVE HolderShares'
  BY <1>18 DEF ReviveParked, revive_if_needed, Go, TypeOK, SessionsTyped, HolderShares
<1>19. ASSUME NEW x \in Sessions, SessionEnds(x) PROVE HolderShares'
  BY <1>19 DEF SessionEnds, Go, TypeOK, SessionsTyped, HolderShares
<1>20. ASSUME invalidate PROVE HolderShares'
  BY <1>20 DEF invalidate, TypeOK, SessionsTyped, HolderShares
<1> QED
  BY <1>3, <1>4, <1>5, <1>6, <1>7, <1>8, <1>9, <1>10, <1>11,
     <1>12, <1>13, <1>14, <1>15, <1>16, <1>17, <1>18, <1>19, <1>20
  DEF Next, Open, Close, SignInOut

\* The user's mutex belongs to a log-out.
LEMMA LogOutStep ==
  ASSUME ManagerInv, Next
  PROVE  LogOutLocksUser'
<1>1. TypeOK /\ ManagerTyped /\ LogOutLocksUser
  BY DEF ManagerInv, SessionsInOrder, TypeOK
<1>2. setting' = setting
  BY DEF Next
<1> USE <1>1, <1>2, Constants
<1>3. ASSUME NEW o \in Openers, GetExisting(o) PROVE LogOutLocksUser'
  BY <1>3 DEF GetExisting, Go, TypeOK, LogOutLocksUser
<1>4. ASSUME NEW o \in Openers, GetNew(o) PROVE LogOutLocksUser'
  BY <1>4 DEF GetNew, Go, TypeOK, LogOutLocksUser
<1>5. ASSUME NEW o \in Openers, register_session(o) PROVE LogOutLocksUser'
  BY <1>5 DEF register_session, Go, TypeOK, LogOutLocksUser
<1>6. ASSUME NEW o \in Openers, ReviveRegistered(o) PROVE LogOutLocksUser'
  BY <1>6 DEF ReviveRegistered, revive_if_needed, Go, TypeOK, LogOutLocksUser
<1>7. ASSUME NEW o \in Openers, external_reference(o) PROVE LogOutLocksUser'
  BY <1>7 DEF external_reference, Go, TypeOK, LogOutLocksUser
<1>8. ASSUME NEW o \in Openers, get_existing_session(o) PROVE LogOutLocksUser'
  BY <1>8 DEF get_existing_session, Go, TypeOK, LogOutLocksUser
<1>9. ASSUME NEW o \in Openers, Drop(o) PROVE LogOutLocksUser'
  BY <1>9 DEF Drop, Unshare, Go, TypeOK, LogOutLocksUser
<1>10. ASSUME NEW t \in Threads, did_drop_external_reference(t) PROVE LogOutLocksUser'
  BY <1>10 DEF did_drop_external_reference, Return, Go, TypeOK, LogOutLocksUser
<1>11. ASSUME NEW t \in Threads, unregister_session(t) PROVE LogOutLocksUser'
  BY <1>11 DEF unregister_session, Return, Go, TypeOK, LogOutLocksUser
<1>12. ASSUME NEW t \in Threads, UnregisterMissing(t) PROVE LogOutLocksUser'
  BY <1>12 DEF UnregisterMissing, Go, TypeOK, LogOutLocksUser
<1>13. ASSUME NEW t \in Threads, ReleasePeek(t) PROVE LogOutLocksUser'
  BY <1>13 DEF ReleasePeek, Unshare, Return, Go, TypeOK, LogOutLocksUser
<1>14. ASSUME NEW l \in UserThreads, log_out(l) PROVE LogOutLocksUser'
  BY <1>14, LogOutEffect DEF TypeOK, LogOutLocksUser
<1>15. ASSUME NEW l \in UserThreads, SessionLogsOut(l) PROVE LogOutLocksUser'
  BY <1>15, SessionLogsOutEffect DEF TypeOK, LogOutLocksUser
<1>16. ASSUME NEW l \in UserThreads, Park(l) PROVE LogOutLocksUser'
  BY <1>16 DEF Park, Go, TypeOK, LogOutLocksUser
<1>17. ASSUME NEW l \in UserThreads, update_refresh_token(l) PROVE LogOutLocksUser'
  BY <1>17, UpdateEffect DEF TypeOK, LogOutLocksUser
<1>18. ASSUME NEW l \in UserThreads, ReviveParked(l) PROVE LogOutLocksUser'
  BY <1>18 DEF ReviveParked, revive_if_needed, Go, TypeOK, LogOutLocksUser
<1>19. ASSUME NEW x \in Sessions, SessionEnds(x) PROVE LogOutLocksUser'
  BY <1>19 DEF SessionEnds, Go, TypeOK, LogOutLocksUser
<1>20. ASSUME invalidate PROVE LogOutLocksUser'
  BY <1>20 DEF invalidate, TypeOK, LogOutLocksUser
<1> QED
  BY <1>3, <1>4, <1>5, <1>6, <1>7, <1>8, <1>9, <1>10, <1>11,
     <1>12, <1>13, <1>14, <1>15, <1>16, <1>17, <1>18, <1>19, <1>20
  DEF Next, Open, Close, SignInOut

\* The user goes on knowing the session.
LEMMA KnowsStep ==
  ASSUME ManagerInv, Next
  PROVE  UserKnowsSession'
<1>1. TypeOK /\ ManagerTyped /\ OpensRegistered /\ LogOutLocksUser /\ UserKnowsSession
  BY DEF ManagerInv, SessionsInOrder, TypeOK
<1>2. setting' = setting
  BY DEF Next
<1> USE <1>1, <1>2, Constants
<1>3. ASSUME NEW o \in Openers, GetExisting(o) PROVE UserKnowsSession'
  <2>1. /\ UNCHANGED <<registered, userVars>>
        /\ \A q \in Threads : Tracked(q)' => Tracked(q)
    BY <1>3 DEF TypeOK, Tracked, GetExisting, Go
  <2> QED BY <2>1 DEF UserKnowsSession, Known, Faults
<1>4. ASSUME NEW o \in Openers, GetNew(o) PROVE UserKnowsSession'
  <2>1. \A q \in Threads : ~Tracked(q)
    BY <1>4, TrackedIsRegistered DEF GetNew
  <2>2. user' = user /\ pc' = [pc EXCEPT ![o] = "register"]
    BY <1>4 DEF GetNew, Go
  <2>3. \A q \in Threads : ~Tracked(q)'
    BY <2>1, <2>2 DEF Tracked, TypeOK
  <2> QED BY <2>2, <2>3 DEF UserKnowsSession, Faults
<1>5. ASSUME NEW o \in Openers, register_session(o) PROVE UserKnowsSession'
  <2>1. /\ registered' = registered /\ registered = obj[o]
        /\ userMutex = Free /\ userMutex' = Free /\ user' = user
    BY <1>5 DEF register_session, OpensRegistered
  <2>2. \A q \in Threads : q # o /\ Tracked(q)' => Tracked(q)
    BY <1>5 DEF register_session, Go, TypeOK, Tracked
  <2>3. CASE user = "Active"
    <3>1. ours' = obj[o]
      BY <1>5, <2>3 DEF register_session
    <3> QED BY <2>1, <2>3, <3>1 DEF UserKnowsSession, Known, Faults
  <2>4. CASE user = "LoggedOut"
    <3>1. waiting' = obj[o]
      BY <1>5, <2>4 DEF register_session
    <3> QED BY <2>1, <2>4, <3>1 DEF UserKnowsSession, Known, Faults
  <2> QED BY <2>1, <2>3, <2>4 DEF UserKnowsSession, Faults, ManagerTyped
<1>6. ASSUME NEW o \in Openers, ReviveRegistered(o) PROVE UserKnowsSession'
  <2>1. /\ UNCHANGED <<registered, userVars>>
        /\ \A q \in Threads : Tracked(q)' => Tracked(q)
    BY <1>6 DEF TypeOK, Tracked, ReviveRegistered, revive_if_needed, Go
  <2> QED BY <2>1 DEF UserKnowsSession, Known, Faults
<1>7. ASSUME NEW o \in Openers, external_reference(o) PROVE UserKnowsSession'
  <2>1. /\ UNCHANGED <<registered, userVars>>
        /\ \A q \in Threads : Tracked(q)' => Tracked(q)
    BY <1>7 DEF TypeOK, Tracked, external_reference, Go
  <2> QED BY <2>1 DEF UserKnowsSession, Known, Faults
<1>8. ASSUME NEW o \in Openers, get_existing_session(o) PROVE UserKnowsSession'
  <2>1. /\ UNCHANGED <<registered, userVars>>
        /\ \A q \in Threads : Tracked(q)' => Tracked(q)
    BY <1>8 DEF TypeOK, Tracked, get_existing_session, Go
  <2> QED BY <2>1 DEF UserKnowsSession, Known, Faults
<1>9. ASSUME NEW o \in Openers, Drop(o) PROVE UserKnowsSession'
  <2>1. /\ UNCHANGED <<registered, userVars>>
        /\ \A q \in Threads : Tracked(q)' => Tracked(q)
    BY <1>9 DEF TypeOK, Tracked, Drop, Unshare, Go
  <2> QED BY <2>1 DEF UserKnowsSession, Known, Faults
<1>10. ASSUME NEW t \in Threads, did_drop_external_reference(t) PROVE UserKnowsSession'
  <2>1. /\ UNCHANGED <<registered, userVars>>
        /\ \A q \in Threads : Tracked(q)' => Tracked(q)
    BY <1>10 DEF TypeOK, Tracked, did_drop_external_reference, Return, Go
  <2> QED BY <2>1 DEF UserKnowsSession, Known, Faults
<1>11. ASSUME NEW t \in Threads, unregister_session(t) PROVE UserKnowsSession'
  <2>1. CASE holders[registered] = {}
    <3>1. sessionMutex = Free /\ user' = user
      BY <1>11 DEF unregister_session
    <3>2. \A q \in Threads : ~Tracked(q)
      BY <2>1, <3>1, TrackedIsRegistered
    <3>3. \A q \in Threads : ~Tracked(q)'
      BY <1>11, <3>2 DEF unregister_session, Return, Go, Tracked, TypeOK
    <3> QED BY <3>1, <3>3 DEF UserKnowsSession, Faults
  <2>2. CASE holders[registered] # {}
    <3>1. /\ UNCHANGED <<registered, userVars>>
          /\ pc' = [pc EXCEPT ![t] = "peeked"]
      BY <1>11, <2>2 DEF unregister_session, Go
    <3>2. \A q \in Threads : Tracked(q)' => Tracked(q)
      BY <3>1 DEF Tracked, TypeOK
    <3> QED BY <3>1, <3>2 DEF UserKnowsSession, Known, Faults
  <2> QED BY <2>1, <2>2
<1>12. ASSUME NEW t \in Threads, UnregisterMissing(t) PROVE UserKnowsSession'
  <2>1. /\ UNCHANGED <<registered, userVars>>
        /\ \A q \in Threads : Tracked(q)' => Tracked(q)
    BY <1>12 DEF TypeOK, Tracked, UnregisterMissing, Go
  <2> QED BY <2>1 DEF UserKnowsSession, Known, Faults
<1>13. ASSUME NEW t \in Threads, ReleasePeek(t) PROVE UserKnowsSession'
  <2>1. /\ UNCHANGED <<registered, userVars>>
        /\ \A q \in Threads : Tracked(q)' => Tracked(q)
    BY <1>13 DEF TypeOK, Tracked, ReleasePeek, Unshare, Return, Go
  <2> QED BY <2>1 DEF UserKnowsSession, Known, Faults
<1>14. ASSUME NEW l \in UserThreads, log_out(l) PROVE UserKnowsSession'
  <2>1. \A q \in Threads : Tracked(q)' => Tracked(q)
    BY <1>14, LogOutEffect DEF Tracked, TypeOK
  <2>2. /\ registered' = registered /\ userMutex = Free /\ userMutex' = l
        /\ user # "LoggedOut" /\ user' = "LoggedOut" /\ (ours' = ours \/ ~Alive(ours))
    BY <1>14, LogOutEffect
  <2>3. SUFFICES ASSUME ~Faults, NEW q \in Threads, Tracked(q)
                 PROVE  registered = ours'
    BY <2>1, <2>2 DEF UserKnowsSession, Known, Faults
  <2>4. user = "Active" /\ registered = ours
    BY <2>2, <2>3 DEF UserKnowsSession, Known, ManagerTyped
  <2>5. Alive(registered)
    BY <2>3, TrackedIsRegistered
  <2> QED BY <2>2, <2>4, <2>5
<1>15. ASSUME NEW l \in UserThreads, SessionLogsOut(l) PROVE UserKnowsSession'
  <2>1. /\ UNCHANGED <<registered, userVars>>
        /\ \A q \in Threads : Tracked(q)' => Tracked(q)
    BY <1>15 DEF TypeOK, Tracked, SessionLogsOut, Go
  <2> QED BY <2>1 DEF UserKnowsSession, Known, Faults
<1>16. ASSUME NEW l \in UserThreads, Park(l) PROVE UserKnowsSession'
  <2>1. \A q \in Threads : Tracked(q)' => Tracked(q)
    BY <1>16 DEF Park, Go, Tracked, TypeOK
  <2>2. /\ registered' = registered /\ userMutex = l /\ userMutex' = Free
        /\ user = "LoggedOut" /\ user' = "LoggedOut"
        /\ waiting' = IF ours # 0 THEN ours ELSE waiting
    BY <1>16 DEF Park, LogOutLocksUser
  <2>3. SUFFICES ASSUME ~Faults, NEW q \in Threads, Tracked(q)
                 PROVE  registered = waiting'
    BY <2>1, <2>2 DEF UserKnowsSession, Known, Faults
  <2>4. registered # 0
    BY <2>3, TrackedIsRegistered
  <2>5. registered = ours
    BY <2>2, <2>3 DEF UserKnowsSession, Known
  <2> QED BY <2>2, <2>4, <2>5
<1>17. ASSUME NEW l \in UserThreads, update_refresh_token(l) PROVE UserKnowsSession'
  <2>1. \A q \in Threads : Tracked(q)' => Tracked(q)
    BY <1>17, UpdateEffect DEF Tracked, TypeOK
  <2>2. /\ registered' = registered /\ userMutex = Free /\ userMutex' = Free
        /\ user = "LoggedOut" /\ user' = "Active" /\ (ours' = waiting \/ ~Alive(waiting))
    BY <1>17, UpdateEffect
  <2>3. SUFFICES ASSUME ~Faults, NEW q \in Threads, Tracked(q)
                 PROVE  registered = ours'
    BY <2>1, <2>2 DEF UserKnowsSession, Known, Faults
  <2>4. registered = waiting
    BY <2>2, <2>3 DEF UserKnowsSession, Known
  <2>5. Alive(registered)
    BY <2>3, TrackedIsRegistered
  <2> QED BY <2>2, <2>4, <2>5
<1>18. ASSUME NEW l \in UserThreads, ReviveParked(l) PROVE UserKnowsSession'
  <2>1. /\ UNCHANGED <<registered, userVars>>
        /\ \A q \in Threads : Tracked(q)' => Tracked(q)
    BY <1>18 DEF TypeOK, Tracked, ReviveParked, revive_if_needed, Go
  <2> QED BY <2>1 DEF UserKnowsSession, Known, Faults
<1>19. ASSUME NEW x \in Sessions, SessionEnds(x) PROVE UserKnowsSession'
  <2>1. /\ UNCHANGED <<registered, userVars>>
        /\ \A q \in Threads : Tracked(q)' => Tracked(q)
    BY <1>19 DEF TypeOK, Tracked, SessionEnds, Go
  <2> QED BY <2>1 DEF UserKnowsSession, Known, Faults
<1>20. ASSUME invalidate PROVE UserKnowsSession'
  BY <1>20 DEF invalidate, UserKnowsSession, Faults
<1> QED
  BY <1>3, <1>4, <1>5, <1>6, <1>7, <1>8, <1>9, <1>10, <1>11,
     <1>12, <1>13, <1>14, <1>15, <1>16, <1>17, <1>18, <1>19, <1>20
  DEF Next, Open, Close, SignInOut

-----------------------------------------------------------------------------
(* Together                                                                *)

\* Who holds a session points to the registered one, so that the user awaits it.
LEMMA HeldAwaits ==
  TypeOK /\ HeldIsRegistered /\ HolderShares /\ LogOutLocksUser /\ UserKnowsSession
    => HeldAwaitsLogin
<1>1. SUFFICES ASSUME TypeOK, HeldIsRegistered, HolderShares, LogOutLocksUser,
                      UserKnowsSession, ~Faults, Quiet, user = "LoggedOut",
                      NEW o \in Openers, pc[o] = "holding"
               PROVE  waiting = obj[o]
  BY DEF HeldAwaitsLogin
<1>2. userMutex = Free
  BY <1>1 DEF TypeOK, ManagerTyped, LogOutLocksUser, Quiet
<1>3. obj[o] # 0 /\ obj[o] \in Sessions /\ o \in holders[obj[o]]
  BY <1>1, Constants DEF TypeOK, HolderShares, ManagerTyped
<1>4. registered = obj[o]
  BY <1>1, <1>3 DEF HeldIsRegistered
<1>5. registered = waiting
  BY <1>1, <1>2, Constants DEF UserKnowsSession, Tracked, Known
<1> QED BY <1>4, <1>5

LEMMA InitManagerInv == Init => ManagerInv
<1> SUFFICES ASSUME Init PROVE ManagerInv
  OBVIOUS
<1>1. TypeOK
  BY Constants DEF Init, TypeOK, ManagerTyped, SessionsTyped, Places
<1>2. HeldIsRegistered
  BY DEF Init, HeldIsRegistered
<1>3. OpensRegistered /\ HolderShares
  BY DEF Init, OpensRegistered, HolderShares
<1>4. LogOutLocksUser
  BY Constants DEF Init, LogOutLocksUser
<1>5. UserKnowsSession
  BY DEF Init, UserKnowsSession, Tracked
<1>6. HeldAwaitsLogin
  BY <1>1, <1>2, <1>3, <1>4, <1>5, HeldAwaits
<1> QED BY <1>1, <1>2, <1>3, <1>4, <1>5, <1>6 DEF Init, ManagerInv, SessionsInOrder

LEMMA ManagerInvStep ==
  ASSUME ManagerInv, [Next]_vars
  PROVE  ManagerInv'
<1>1. CASE Next
  <2>1. TypeOK'
    BY <1>1, ManagerTypedStep, SessionsTypedStep, PlacesTypedStep, ObjTypedStep DEF
       TypeOK
  <2>2. HeldIsRegistered' /\ OpensRegistered' /\ HolderShares' /\ LogOutLocksUser'
    BY <1>1, HeldStep, OpensStep, SharesStep, LogOutStep
  <2>3. UserKnowsSession'
    BY <1>1, KnowsStep
  <2>4. HeldAwaitsLogin'
    BY <2>1, <2>2, <2>3, HeldAwaits, PTL
  <2>5. setting' \in Settings
    BY <1>1 DEF Next, ManagerInv
  <2> QED BY <2>1, <2>2, <2>3, <2>4, <2>5 DEF ManagerInv, SessionsInOrder
<1>2. CASE UNCHANGED vars
  BY <1>2 DEF vars, ManagerInv, SessionsInOrder, TypeOK, ManagerTyped, SessionsTyped,
     HeldIsRegistered, HeldAwaitsLogin, OpensRegistered, HolderShares, LogOutLocksUser,
     UserKnowsSession, Tracked, Known, Quiet, Faults
<1> QED BY <1>1, <1>2

\* The inductive invariant holds throughout: whatever opens, closes, errors,
\* log-outs and log-ins interleave, get_session hands out the registered session
\* and the user knows it.
THEOREM ManagerInvariant == Spec => []ManagerInv
<1> QED BY InitManagerInv, ManagerInvStep, PTL DEF Spec

\* No session in use is ever erased from the manager's map, and one that is held
\* over a log-out is the one the next log-in revives.
THEOREM SessionsStayInOrder == Spec => []SessionsInOrder
<1>1. ManagerInv => SessionsInOrder
  BY DEF ManagerInv
<1> QED BY <1>1, ManagerInvariant, PTL

-------------------------------------------------------------------------------
(***************************************************************************)
(* The files and the metadata                                              *)
(***************************************************************************)

USE DEF diskVars, memory, counts

\* What configure() has in memory is gone when it is not running actions.
WorkEnds ==
  phase \notin {"actions", "now"} => todo = {} /\ copying = {} /\ done = {}

\* A backup is made of one Realm at a time, for an action that is still to be
\* carried out, and holds part of the file or all of it.
CopyOfFile ==
  \A p \in copying :
    /\ copying = {p} /\ p \in todo
    /\ action[p].kind = "backup" /\ file[p] # NoFile
    /\ backup[action[p].name] = Partial \/ backup[action[p].name] = file[p]

\* Only a user who is marked has its directory removed, and is forgotten after that.
RemovesMarked ==
  /\ phase \in {"remove user", "forget user"} => record = "marked"
  /\ phase = "forget user" => \A p \in Realms : file[p] = NoFile

\* While the process runs, the action of a file that is gone is about to be looked
\* at, or about to be removed: so it is when a startup finds what a crash left.
GoneIsPending ==
  ~DiskFaults /\ phase \notin {"off", "forget user"} /\ record # "gone" =>
    \A p \in Realms : action[p] # NoAction /\ file[p] = NoFile => p \in todo \cup done

\* The inductive invariant.
FilesInv ==
  /\ trouble \in Troubles
  /\ FilesTypeOK
  /\ WorkEnds /\ CopyOfFile /\ RemovesMarked /\ GoneIsPending

-----------------------------------------------------------------------------
(* One lemma per conjunct of the invariant, one case per action            *)

\* Files stay files.
LEMMA DiskTypedStep ==
  ASSUME FilesAssumption, FilesInv, FilesNext
  PROVE  DiskTyped'
<1>1. DiskTyped /\ CountsTyped
  BY DEF FilesInv, FilesTypeOK
<1>2. trouble' = trouble
  BY DEF FilesNext
<1> USE <1>1, <1>2
<1>3. ASSUME NEW p \in Realms, DeleteRealm(p) PROVE DiskTyped'
  BY <1>3 DEF DeleteRealm, Next1, Finish, DiskTyped
<1>4. ASSUME NEW p \in Realms, BackUpNothing(p) PROVE DiskTyped'
  BY <1>4 DEF BackUpNothing, Next1, Finish, DiskTyped
<1>5. ASSUME NEW p \in Realms, BackUpRefused(p) PROVE DiskTyped'
  BY <1>5 DEF BackUpRefused, Next1, DiskTyped
<1>6. ASSUME NEW p \in Realms, CopyBegins(p) PROVE DiskTyped'
  BY <1>6 DEF CopyBegins, Next1, DiskTyped
<1>7. ASSUME NEW p \in Realms, CopyEnds(p) PROVE DiskTyped'
  BY <1>7 DEF CopyEnds, DiskTyped
<1>8. ASSUME NEW p \in Realms, DeleteBackedUp(p) PROVE DiskTyped'
  BY <1>8 DEF DeleteBackedUp, Finish, DiskTyped
<1>9. ASSUME NEW p \in Realms, RemoveRealmThrows(p) PROVE DiskTyped'
  BY <1>9 DEF RemoveRealmThrows, Off, DiskTyped
<1>10. ASSUME NEW p \in Realms, RemoveAction(p) PROVE DiskTyped'
  BY <1>10 DEF RemoveAction, DiskTyped
<1>11. ASSUME ActionsDone PROVE DiskTyped'
  BY <1>11 DEF ActionsDone, DiskTyped
<1>12. ASSUME remove_user_directory PROVE DiskTyped'
  BY <1>12 DEF remove_user_directory, DiskTyped
<1>13. ASSUME RemoveUserRefused PROVE DiskTyped'
  BY <1>13 DEF RemoveUserRefused, DiskTyped
<1>14. ASSUME ForgetUser PROVE DiskTyped'
  BY <1>14 DEF ForgetUser, DiskTyped
<1>15. ASSUME Launch PROVE DiskTyped'
  BY <1>15 DEF Launch, DiskTyped
<1>16. ASSUME Quit PROVE DiskTyped'
  BY <1>16 DEF Quit, Off, DiskTyped
<1>17. ASSUME Crash PROVE DiskTyped'
  BY <1>17 DEF Crash, Off, DiskTyped
<1>18. ASSUME get_or_make_user_metadata PROVE DiskTyped'
  BY <1>18 DEF get_or_make_user_metadata, DiskTyped
<1>19. ASSUME mark_for_removal PROVE DiskTyped'
  BY <1>19 DEF mark_for_removal, DiskTyped
<1>20. ASSUME NEW p \in Realms, CreateRealm(p) PROVE DiskTyped'
  BY <1>20 DEF CreateRealm, DiskTyped, CountsTyped, FilesAssumption, Contents
<1>21. ASSUME NEW p \in Realms, immediately_run_file_actions(p) PROVE DiskTyped'
  BY <1>21 DEF immediately_run_file_actions, DiskTyped
<1>22. ASSUME NEW p \in Realms, NEW kind \in {"delete", "backup"},
             make_file_action_metadata(p, kind)
      PROVE  DiskTyped'
  BY <1>22 DEF make_file_action_metadata, DiskTyped
<1> QED
  BY <1>3, <1>4, <1>5, <1>6, <1>7, <1>8, <1>9, <1>10, <1>11, <1>12,
     <1>13, <1>14, <1>15, <1>16, <1>17, <1>18, <1>19, <1>20, <1>21, <1>22
  DEF FilesNext, Configure, RunAction

\* The metadata stays typed.
LEMMA MetadataTypedStep ==
  ASSUME FilesAssumption, FilesInv, FilesNext
  PROVE  MetadataTyped'
<1>1. MetadataTyped /\ CountsTyped
  BY DEF FilesInv, FilesTypeOK
<1>2. trouble' = trouble
  BY DEF FilesNext
<1> USE <1>1, <1>2
<1>3. ASSUME NEW p \in Realms, DeleteRealm(p) PROVE MetadataTyped'
  BY <1>3 DEF DeleteRealm, Next1, Finish, MetadataTyped
<1>4. ASSUME NEW p \in Realms, BackUpNothing(p) PROVE MetadataTyped'
  BY <1>4 DEF BackUpNothing, Next1, Finish, MetadataTyped
<1>5. ASSUME NEW p \in Realms, BackUpRefused(p) PROVE MetadataTyped'
  BY <1>5 DEF BackUpRefused, Next1, MetadataTyped
<1>6. ASSUME NEW p \in Realms, CopyBegins(p) PROVE MetadataTyped'
  BY <1>6 DEF CopyBegins, Next1, MetadataTyped
<1>7. ASSUME NEW p \in Realms, CopyEnds(p) PROVE MetadataTyped'
  BY <1>7 DEF CopyEnds, MetadataTyped
<1>8. ASSUME NEW p \in Realms, DeleteBackedUp(p) PROVE MetadataTyped'
  BY <1>8 DEF DeleteBackedUp, Finish, MetadataTyped
<1>9. ASSUME NEW p \in Realms, RemoveRealmThrows(p) PROVE MetadataTyped'
  BY <1>9 DEF RemoveRealmThrows, Off, MetadataTyped
<1>10. ASSUME NEW p \in Realms, RemoveAction(p) PROVE MetadataTyped'
  BY <1>10 DEF RemoveAction, MetadataTyped
<1>11. ASSUME ActionsDone PROVE MetadataTyped'
  BY <1>11 DEF ActionsDone, MetadataTyped
<1>12. ASSUME remove_user_directory PROVE MetadataTyped'
  BY <1>12 DEF remove_user_directory, MetadataTyped
<1>13. ASSUME RemoveUserRefused PROVE MetadataTyped'
  BY <1>13 DEF RemoveUserRefused, MetadataTyped
<1>14. ASSUME ForgetUser PROVE MetadataTyped'
  BY <1>14 DEF ForgetUser, MetadataTyped
<1>15. ASSUME Launch PROVE MetadataTyped'
  BY <1>15 DEF Launch, MetadataTyped
<1>16. ASSUME Quit PROVE MetadataTyped'
  BY <1>16 DEF Quit, Off, MetadataTyped
<1>17. ASSUME Crash PROVE MetadataTyped'
  BY <1>17 DEF Crash, Off, MetadataTyped
<1>18. ASSUME get_or_make_user_metadata PROVE MetadataTyped'
  BY <1>18 DEF get_or_make_user_metadata, MetadataTyped
<1>19. ASSUME mark_for_removal PROVE MetadataTyped'
  BY <1>19 DEF mark_for_removal, MetadataTyped
<1>20. ASSUME NEW p \in Realms, CreateRealm(p) PROVE MetadataTyped'
  BY <1>20 DEF CreateRealm, MetadataTyped
<1>21. ASSUME NEW p \in Realms, immediately_run_file_actions(p) PROVE MetadataTyped'
  BY <1>21 DEF immediately_run_file_actions, MetadataTyped
<1>22. ASSUME NEW p \in Realms, NEW kind \in {"delete", "backup"},
             make_file_action_metadata(p, kind)
      PROVE  MetadataTyped'
  BY <1>22 DEF make_file_action_metadata, MetadataTyped, CountsTyped, FilesAssumption,
     Names
<1> QED
  BY <1>3, <1>4, <1>5, <1>6, <1>7, <1>8, <1>9, <1>10, <1>11, <1>12,
     <1>13, <1>14, <1>15, <1>16, <1>17, <1>18, <1>19, <1>20, <1>21, <1>22
  DEF FilesNext, Configure, RunAction

\* The process is somewhere.
LEMMA MemoryTypedStep ==
  ASSUME FilesAssumption, FilesInv, FilesNext
  PROVE  MemoryTyped'
<1>1. MemoryTyped
  BY DEF FilesInv, FilesTypeOK
<1>2. trouble' = trouble
  BY DEF FilesNext
<1> USE <1>1, <1>2
<1>3. ASSUME NEW p \in Realms, DeleteRealm(p) PROVE MemoryTyped'
  BY <1>3 DEF DeleteRealm, Next1, Finish, MemoryTyped
<1>4. ASSUME NEW p \in Realms, BackUpNothing(p) PROVE MemoryTyped'
  BY <1>4 DEF BackUpNothing, Next1, Finish, MemoryTyped
<1>5. ASSUME NEW p \in Realms, BackUpRefused(p) PROVE MemoryTyped'
  BY <1>5 DEF BackUpRefused, Next1, MemoryTyped
<1>6. ASSUME NEW p \in Realms, CopyBegins(p) PROVE MemoryTyped'
  BY <1>6 DEF CopyBegins, Next1, MemoryTyped
<1>7. ASSUME NEW p \in Realms, CopyEnds(p) PROVE MemoryTyped'
  BY <1>7 DEF CopyEnds, MemoryTyped
<1>8. ASSUME NEW p \in Realms, DeleteBackedUp(p) PROVE MemoryTyped'
  BY <1>8 DEF DeleteBackedUp, Finish, MemoryTyped
<1>9. ASSUME NEW p \in Realms, RemoveRealmThrows(p) PROVE MemoryTyped'
  BY <1>9 DEF RemoveRealmThrows, Off, MemoryTyped
<1>10. ASSUME NEW p \in Realms, RemoveAction(p) PROVE MemoryTyped'
  BY <1>10 DEF RemoveAction, MemoryTyped
<1>11. ASSUME ActionsDone PROVE MemoryTyped'
  BY <1>11 DEF ActionsDone, MemoryTyped
<1>12. ASSUME remove_user_directory PROVE MemoryTyped'
  BY <1>12 DEF remove_user_directory, MemoryTyped
<1>13. ASSUME RemoveUserRefused PROVE MemoryTyped'
  BY <1>13 DEF RemoveUserRefused, MemoryTyped
<1>14. ASSUME ForgetUser PROVE MemoryTyped'
  BY <1>14 DEF ForgetUser, MemoryTyped
<1>15. ASSUME Launch PROVE MemoryTyped'
  BY <1>15 DEF Launch, MemoryTyped
<1>16. ASSUME Quit PROVE MemoryTyped'
  BY <1>16 DEF Quit, Off, MemoryTyped
<1>17. ASSUME Crash PROVE MemoryTyped'
  BY <1>17 DEF Crash, Off, MemoryTyped
<1>18. ASSUME get_or_make_user_metadata PROVE MemoryTyped'
  BY <1>18 DEF get_or_make_user_metadata, MemoryTyped
<1>19. ASSUME mark_for_removal PROVE MemoryTyped'
  BY <1>19 DEF mark_for_removal, MemoryTyped
<1>20. ASSUME NEW p \in Realms, CreateRealm(p) PROVE MemoryTyped'
  BY <1>20 DEF CreateRealm, MemoryTyped
<1>21. ASSUME NEW p \in Realms, immediately_run_file_actions(p) PROVE MemoryTyped'
  BY <1>21 DEF immediately_run_file_actions, MemoryTyped
<1>22. ASSUME NEW p \in Realms, NEW kind \in {"delete", "backup"},
             make_file_action_metadata(p, kind)
      PROVE  MemoryTyped'
  BY <1>22 DEF make_file_action_metadata, MemoryTyped
<1> QED
  BY <1>3, <1>4, <1>5, <1>6, <1>7, <1>8, <1>9, <1>10, <1>11, <1>12,
     <1>13, <1>14, <1>15, <1>16, <1>17, <1>18, <1>19, <1>20, <1>21, <1>22
  DEF FilesNext, Configure, RunAction

\* The bounds are kept.
LEMMA CountsTypedStep ==
  ASSUME FilesAssumption, FilesInv, FilesNext
  PROVE  CountsTyped'
<1>1. trouble \in Troubles /\ CountsTyped
  BY DEF FilesInv, FilesTypeOK
<1>2. trouble' = trouble
  BY DEF FilesNext
<1> USE <1>1, <1>2
<1>3. ASSUME NEW p \in Realms, DeleteRealm(p) PROVE CountsTyped'
  BY <1>3 DEF DeleteRealm, Next1, Finish, CountsTyped, MaxCrashes
<1>4. ASSUME NEW p \in Realms, BackUpNothing(p) PROVE CountsTyped'
  BY <1>4 DEF BackUpNothing, Next1, Finish, CountsTyped, MaxCrashes
<1>5. ASSUME NEW p \in Realms, BackUpRefused(p) PROVE CountsTyped'
  BY <1>5 DEF BackUpRefused, Next1, CountsTyped, MaxCrashes
<1>6. ASSUME NEW p \in Realms, CopyBegins(p) PROVE CountsTyped'
  BY <1>6 DEF CopyBegins, Next1, CountsTyped, MaxCrashes
<1>7. ASSUME NEW p \in Realms, CopyEnds(p) PROVE CountsTyped'
  BY <1>7 DEF CopyEnds, CountsTyped, MaxCrashes
<1>8. ASSUME NEW p \in Realms, DeleteBackedUp(p) PROVE CountsTyped'
  BY <1>8 DEF DeleteBackedUp, Finish, CountsTyped, MaxCrashes
<1>9. ASSUME NEW p \in Realms, RemoveRealmThrows(p) PROVE CountsTyped'
  BY <1>9 DEF RemoveRealmThrows, Off, CountsTyped, MaxCrashes
<1>10. ASSUME NEW p \in Realms, RemoveAction(p) PROVE CountsTyped'
  BY <1>10 DEF RemoveAction, CountsTyped, MaxCrashes
<1>11. ASSUME ActionsDone PROVE CountsTyped'
  BY <1>11 DEF ActionsDone, CountsTyped, MaxCrashes
<1>12. ASSUME remove_user_directory PROVE CountsTyped'
  BY <1>12 DEF remove_user_directory, CountsTyped, MaxCrashes
<1>13. ASSUME RemoveUserRefused PROVE CountsTyped'
  BY <1>13 DEF RemoveUserRefused, CountsTyped, MaxCrashes
<1>14. ASSUME ForgetUser PROVE CountsTyped'
  BY <1>14 DEF ForgetUser, CountsTyped, MaxCrashes
<1>15. ASSUME Launch PROVE CountsTyped'
  BY <1>15 DEF Launch, CountsTyped, MaxCrashes
<1>16. ASSUME Quit PROVE CountsTyped'
  BY <1>16 DEF Quit, Off, CountsTyped, MaxCrashes
<1>17. ASSUME Crash PROVE CountsTyped'
  BY <1>17 DEF Crash, Off, CountsTyped, FilesAssumption, MaxCrashes
<1>18. ASSUME get_or_make_user_metadata PROVE CountsTyped'
  BY <1>18 DEF get_or_make_user_metadata, CountsTyped, MaxCrashes
<1>19. ASSUME mark_for_removal PROVE CountsTyped'
  BY <1>19 DEF mark_for_removal, CountsTyped, MaxCrashes
<1>20. ASSUME NEW p \in Realms, CreateRealm(p) PROVE CountsTyped'
  BY <1>20 DEF CreateRealm, CountsTyped, FilesAssumption, MaxCrashes
<1>21. ASSUME NEW p \in Realms, immediately_run_file_actions(p) PROVE CountsTyped'
  BY <1>21 DEF immediately_run_file_actions, CountsTyped, MaxCrashes
<1>22. ASSUME NEW p \in Realms, NEW kind \in {"delete", "backup"},
             make_file_action_metadata(p, kind)
      PROVE  CountsTyped'
  BY <1>22 DEF make_file_action_metadata, CountsTyped, FilesAssumption, MaxCrashes
<1> QED
  BY <1>3, <1>4, <1>5, <1>6, <1>7, <1>8, <1>9, <1>10, <1>11, <1>12,
     <1>13, <1>14, <1>15, <1>16, <1>17, <1>18, <1>19, <1>20, <1>21, <1>22
  DEF FilesNext, Configure, RunAction

\* Memory is empty outside a run of actions.
LEMMA WorkEndsStep ==
  ASSUME FilesAssumption, FilesInv, FilesNext
  PROVE  WorkEnds'
<1>1. WorkEnds
  BY DEF FilesInv, FilesTypeOK
<1>2. trouble' = trouble
  BY DEF FilesNext
<1> USE <1>1, <1>2
<1>3. ASSUME NEW p \in Realms, DeleteRealm(p) PROVE WorkEnds'
  BY <1>3 DEF DeleteRealm, Next1, Finish, WorkEnds
<1>4. ASSUME NEW p \in Realms, BackUpNothing(p) PROVE WorkEnds'
  BY <1>4 DEF BackUpNothing, Next1, Finish, WorkEnds
<1>5. ASSUME NEW p \in Realms, BackUpRefused(p) PROVE WorkEnds'
  BY <1>5 DEF BackUpRefused, Next1, WorkEnds
<1>6. ASSUME NEW p \in Realms, CopyBegins(p) PROVE WorkEnds'
  BY <1>6 DEF CopyBegins, Next1, WorkEnds
<1>7. ASSUME NEW p \in Realms, CopyEnds(p) PROVE WorkEnds'
  BY <1>7 DEF CopyEnds, WorkEnds
<1>8. ASSUME NEW p \in Realms, DeleteBackedUp(p) PROVE WorkEnds'
  BY <1>8 DEF DeleteBackedUp, Finish, WorkEnds
<1>9. ASSUME NEW p \in Realms, RemoveRealmThrows(p) PROVE WorkEnds'
  BY <1>9 DEF RemoveRealmThrows, Off, WorkEnds
<1>10. ASSUME NEW p \in Realms, RemoveAction(p) PROVE WorkEnds'
  BY <1>10 DEF RemoveAction, WorkEnds
<1>11. ASSUME ActionsDone PROVE WorkEnds'
  BY <1>11 DEF ActionsDone, WorkEnds
<1>12. ASSUME remove_user_directory PROVE WorkEnds'
  BY <1>12 DEF remove_user_directory, WorkEnds
<1>13. ASSUME RemoveUserRefused PROVE WorkEnds'
  BY <1>13 DEF RemoveUserRefused, WorkEnds
<1>14. ASSUME ForgetUser PROVE WorkEnds'
  BY <1>14 DEF ForgetUser, WorkEnds
<1>15. ASSUME Launch PROVE WorkEnds'
  BY <1>15 DEF Launch, WorkEnds
<1>16. ASSUME Quit PROVE WorkEnds'
  BY <1>16 DEF Quit, Off, WorkEnds
<1>17. ASSUME Crash PROVE WorkEnds'
  BY <1>17 DEF Crash, Off, WorkEnds
<1>18. ASSUME get_or_make_user_metadata PROVE WorkEnds'
  BY <1>18 DEF get_or_make_user_metadata, WorkEnds
<1>19. ASSUME mark_for_removal PROVE WorkEnds'
  BY <1>19 DEF mark_for_removal, WorkEnds
<1>20. ASSUME NEW p \in Realms, CreateRealm(p) PROVE WorkEnds'
  BY <1>20 DEF CreateRealm, WorkEnds
<1>21. ASSUME NEW p \in Realms, immediately_run_file_actions(p) PROVE WorkEnds'
  BY <1>21 DEF immediately_run_file_actions, WorkEnds
<1>22. ASSUME NEW p \in Realms, NEW kind \in {"delete", "backup"},
             make_file_action_metadata(p, kind)
      PROVE  WorkEnds'
  BY <1>22 DEF make_file_action_metadata, WorkEnds
<1> QED
  BY <1>3, <1>4, <1>5, <1>6, <1>7, <1>8, <1>9, <1>10, <1>11, <1>12,
     <1>13, <1>14, <1>15, <1>16, <1>17, <1>18, <1>19, <1>20, <1>21, <1>22
  DEF FilesNext, Configure, RunAction

\* The backup in the making is of the file that is there.
LEMMA CopyStep ==
  ASSUME FilesAssumption, FilesInv, FilesNext
  PROVE  CopyOfFile'
<1>1. DiskTyped /\ MetadataTyped /\ WorkEnds /\ CopyOfFile
  BY DEF FilesInv, FilesTypeOK
<1>2. trouble' = trouble
  BY DEF FilesNext
<1> USE <1>1, <1>2
<1>3. ASSUME NEW p \in Realms, DeleteRealm(p) PROVE CopyOfFile'
  BY <1>3 DEF DeleteRealm, Next1, Finish, DiskTyped, MetadataTyped, WorkEnds, CopyOfFile
<1>4. ASSUME NEW p \in Realms, BackUpNothing(p) PROVE CopyOfFile'
  BY <1>4 DEF BackUpNothing, Next1, Finish, DiskTyped, MetadataTyped, WorkEnds,
     CopyOfFile
<1>5. ASSUME NEW p \in Realms, BackUpRefused(p) PROVE CopyOfFile'
  BY <1>5 DEF BackUpRefused, Next1, DiskTyped, MetadataTyped, WorkEnds, CopyOfFile
<1>6. ASSUME NEW p \in Realms, CopyBegins(p) PROVE CopyOfFile'
  <2>1. action[p].name \in Names
    BY <1>6 DEF CopyBegins, MetadataTyped, NoAction
  <2> QED BY <1>6, <2>1 DEF CopyBegins, Next1, DiskTyped, CopyOfFile
<1>7. ASSUME NEW p \in Realms, CopyEnds(p) PROVE CopyOfFile'
  BY <1>7 DEF CopyEnds, DiskTyped, MetadataTyped, WorkEnds, CopyOfFile
<1>8. ASSUME NEW p \in Realms, DeleteBackedUp(p) PROVE CopyOfFile'
  BY <1>8 DEF DeleteBackedUp, Finish, DiskTyped, MetadataTyped, WorkEnds, CopyOfFile
<1>9. ASSUME NEW p \in Realms, RemoveRealmThrows(p) PROVE CopyOfFile'
  BY <1>9 DEF RemoveRealmThrows, Off, DiskTyped, MetadataTyped, WorkEnds, CopyOfFile
<1>10. ASSUME NEW p \in Realms, RemoveAction(p) PROVE CopyOfFile'
  BY <1>10 DEF RemoveAction, DiskTyped, MetadataTyped, WorkEnds, CopyOfFile
<1>11. ASSUME ActionsDone PROVE CopyOfFile'
  BY <1>11 DEF ActionsDone, DiskTyped, MetadataTyped, WorkEnds, CopyOfFile
<1>12. ASSUME remove_user_directory PROVE CopyOfFile'
  BY <1>12 DEF remove_user_directory, DiskTyped, MetadataTyped, WorkEnds, CopyOfFile
<1>13. ASSUME RemoveUserRefused PROVE CopyOfFile'
  BY <1>13 DEF RemoveUserRefused, DiskTyped, MetadataTyped, WorkEnds, CopyOfFile
<1>14. ASSUME ForgetUser PROVE CopyOfFile'
  BY <1>14 DEF ForgetUser, DiskTyped, MetadataTyped, WorkEnds, CopyOfFile
<1>15. ASSUME Launch PROVE CopyOfFile'
  BY <1>15 DEF Launch, DiskTyped, MetadataTyped, WorkEnds, CopyOfFile
<1>16. ASSUME Quit PROVE CopyOfFile'
  BY <1>16 DEF Quit, Off, DiskTyped, MetadataTyped, WorkEnds, CopyOfFile
<1>17. ASSUME Crash PROVE CopyOfFile'
  BY <1>17 DEF Crash, Off, DiskTyped, MetadataTyped, WorkEnds, CopyOfFile
<1>18. ASSUME get_or_make_user_metadata PROVE CopyOfFile'
  BY <1>18 DEF get_or_make_user_metadata, DiskTyped, MetadataTyped, WorkEnds, CopyOfFile
<1>19. ASSUME mark_for_removal PROVE CopyOfFile'
  BY <1>19 DEF mark_for_removal, DiskTyped, MetadataTyped, WorkEnds, CopyOfFile
<1>20. ASSUME NEW p \in Realms, CreateRealm(p) PROVE CopyOfFile'
  BY <1>20 DEF CreateRealm, DiskTyped, MetadataTyped, WorkEnds, CopyOfFile
<1>21. ASSUME NEW p \in Realms, immediately_run_file_actions(p) PROVE CopyOfFile'
  BY <1>21 DEF immediately_run_file_actions, DiskTyped, MetadataTyped, WorkEnds,
     CopyOfFile
<1>22. ASSUME NEW p \in Realms, NEW kind \in {"delete", "backup"},
             make_file_action_metadata(p, kind)
      PROVE  CopyOfFile'
  BY <1>22 DEF make_file_action_metadata, DiskTyped, MetadataTyped, WorkEnds, CopyOfFile
<1> QED
  BY <1>3, <1>4, <1>5, <1>6, <1>7, <1>8, <1>9, <1>10, <1>11, <1>12,
     <1>13, <1>14, <1>15, <1>16, <1>17, <1>18, <1>19, <1>20, <1>21, <1>22
  DEF FilesNext, Configure, RunAction

\* Nobody logs in while the directory is removed.
LEMMA MarkedStep ==
  ASSUME FilesAssumption, FilesInv, FilesNext
  PROVE  RemovesMarked'
<1>1. RemovesMarked /\ WorkEnds
  BY DEF FilesInv, FilesTypeOK
<1>2. trouble' = trouble
  BY DEF FilesNext
<1> USE <1>1, <1>2
<1>3. ASSUME NEW p \in Realms, DeleteRealm(p) PROVE RemovesMarked'
  BY <1>3 DEF DeleteRealm, Next1, Finish, RemovesMarked
<1>4. ASSUME NEW p \in Realms, BackUpNothing(p) PROVE RemovesMarked'
  BY <1>4 DEF BackUpNothing, Next1, Finish, RemovesMarked
<1>5. ASSUME NEW p \in Realms, BackUpRefused(p) PROVE RemovesMarked'
  BY <1>5 DEF BackUpRefused, Next1, RemovesMarked
<1>6. ASSUME NEW p \in Realms, CopyBegins(p) PROVE RemovesMarked'
  BY <1>6 DEF CopyBegins, Next1, RemovesMarked
<1>7. ASSUME NEW p \in Realms, CopyEnds(p) PROVE RemovesMarked'
  BY <1>7 DEF CopyEnds, RemovesMarked
<1>8. ASSUME NEW p \in Realms, DeleteBackedUp(p) PROVE RemovesMarked'
  BY <1>8 DEF DeleteBackedUp, Finish, RemovesMarked, WorkEnds
<1>9. ASSUME NEW p \in Realms, RemoveRealmThrows(p) PROVE RemovesMarked'
  BY <1>9 DEF RemoveRealmThrows, Off, RemovesMarked
<1>10. ASSUME NEW p \in Realms, RemoveAction(p) PROVE RemovesMarked'
  BY <1>10 DEF RemoveAction, RemovesMarked
<1>11. ASSUME ActionsDone PROVE RemovesMarked'
  BY <1>11 DEF ActionsDone, RemovesMarked
<1>12. ASSUME remove_user_directory PROVE RemovesMarked'
  BY <1>12 DEF remove_user_directory, RemovesMarked
<1>13. ASSUME RemoveUserRefused PROVE RemovesMarked'
  BY <1>13 DEF RemoveUserRefused, RemovesMarked
<1>14. ASSUME ForgetUser PROVE RemovesMarked'
  BY <1>14 DEF ForgetUser, RemovesMarked
<1>15. ASSUME Launch PROVE RemovesMarked'
  BY <1>15 DEF Launch, RemovesMarked
<1>16. ASSUME Quit PROVE RemovesMarked'
  BY <1>16 DEF Quit, Off, RemovesMarked
<1>17. ASSUME Crash PROVE RemovesMarked'
  BY <1>17 DEF Crash, Off, RemovesMarked
<1>18. ASSUME get_or_make_user_metadata PROVE RemovesMarked'
  BY <1>18 DEF get_or_make_user_metadata, RemovesMarked
<1>19. ASSUME mark_for_removal PROVE RemovesMarked'
  BY <1>19 DEF mark_for_removal, RemovesMarked
<1>20. ASSUME NEW p \in Realms, CreateRealm(p) PROVE RemovesMarked'
  BY <1>20 DEF CreateRealm, RemovesMarked
<1>21. ASSUME NEW p \in Realms, immediately_run_file_actions(p) PROVE RemovesMarked'
  BY <1>21 DEF immediately_run_file_actions, RemovesMarked
<1>22. ASSUME NEW p \in Realms, NEW kind \in {"delete", "backup"},
             make_file_action_metadata(p, kind)
      PROVE  RemovesMarked'
  BY <1>22 DEF make_file_action_metadata, RemovesMarked
<1> QED
  BY <1>3, <1>4, <1>5, <1>6, <1>7, <1>8, <1>9, <1>10, <1>11, <1>12,
     <1>13, <1>14, <1>15, <1>16, <1>17, <1>18, <1>19, <1>20, <1>21, <1>22
  DEF FilesNext, Configure, RunAction

\* An action whose file is gone is not forgotten.
LEMMA PendingStep ==
  ASSUME FilesAssumption, FilesInv, FilesNext
  PROVE  GoneIsPending'
<1>1. DiskTyped /\ MetadataTyped /\ WorkEnds /\ CopyOfFile /\ RemovesMarked /\ GoneIsPending
  BY DEF FilesInv, FilesTypeOK
<1>2. trouble' = trouble
  BY DEF FilesNext
<1> USE <1>1, <1>2
<1>3. ASSUME NEW p \in Realms, DeleteRealm(p) PROVE GoneIsPending'
  BY <1>3 DEF DeleteRealm, Next1, Finish, DiskTyped, MetadataTyped, WorkEnds,
     GoneIsPending, DiskFaults
<1>4. ASSUME NEW p \in Realms, BackUpNothing(p) PROVE GoneIsPending'
  BY <1>4 DEF BackUpNothing, Next1, Finish, DiskTyped, MetadataTyped, WorkEnds,
     GoneIsPending, DiskFaults
<1>5. ASSUME NEW p \in Realms, BackUpRefused(p) PROVE GoneIsPending'
  BY <1>5 DEF BackUpRefused, Next1, DiskTyped, MetadataTyped, WorkEnds, GoneIsPending,
     DiskFaults
<1>6. ASSUME NEW p \in Realms, CopyBegins(p) PROVE GoneIsPending'
  BY <1>6 DEF CopyBegins, Next1, DiskTyped, MetadataTyped, WorkEnds, GoneIsPending,
     DiskFaults
<1>7. ASSUME NEW p \in Realms, CopyEnds(p) PROVE GoneIsPending'
  BY <1>7 DEF CopyEnds, DiskTyped, MetadataTyped, WorkEnds, GoneIsPending, DiskFaults
<1>8. ASSUME NEW p \in Realms, DeleteBackedUp(p) PROVE GoneIsPending'
  BY <1>8 DEF DeleteBackedUp, Finish, DiskTyped, MetadataTyped, WorkEnds, GoneIsPending,
     DiskFaults
<1>9. ASSUME NEW p \in Realms, RemoveRealmThrows(p) PROVE GoneIsPending'
  BY <1>9 DEF RemoveRealmThrows, Off, DiskTyped, MetadataTyped, WorkEnds, GoneIsPending,
     DiskFaults
<1>10. ASSUME NEW p \in Realms, RemoveAction(p) PROVE GoneIsPending'
  BY <1>10 DEF RemoveAction, DiskTyped, MetadataTyped, WorkEnds, GoneIsPending,
     DiskFaults
<1>11. ASSUME ActionsDone PROVE GoneIsPending'
  BY <1>11 DEF ActionsDone, DiskTyped, MetadataTyped, WorkEnds, GoneIsPending,
     DiskFaults
<1>12. ASSUME remove_user_directory PROVE GoneIsPending'
  BY <1>12 DEF remove_user_directory, DiskTyped, MetadataTyped, WorkEnds, GoneIsPending,
     DiskFaults
<1>13. ASSUME RemoveUserRefused PROVE GoneIsPending'
  BY <1>13 DEF RemoveUserRefused, DiskTyped, MetadataTyped, WorkEnds, GoneIsPending,
     DiskFaults
<1>14. ASSUME ForgetUser PROVE GoneIsPending'
  BY <1>14 DEF ForgetUser, DiskTyped, MetadataTyped, WorkEnds, GoneIsPending, DiskFaults
<1>15. ASSUME Launch PROVE GoneIsPending'
  BY <1>15 DEF Launch, DiskTyped, MetadataTyped, WorkEnds, GoneIsPending, DiskFaults
<1>16. ASSUME Quit PROVE GoneIsPending'
  BY <1>16 DEF Quit, Off, DiskTyped, MetadataTyped, WorkEnds, GoneIsPending, DiskFaults
<1>17. ASSUME Crash PROVE GoneIsPending'
  BY <1>17 DEF Crash, Off, DiskTyped, MetadataTyped, WorkEnds, GoneIsPending, DiskFaults
<1>18. ASSUME get_or_make_user_metadata PROVE GoneIsPending'
  BY <1>18 DEF get_or_make_user_metadata, DiskTyped, MetadataTyped, WorkEnds,
     GoneIsPending, DiskFaults
<1>19. ASSUME mark_for_removal PROVE GoneIsPending'
  BY <1>19 DEF mark_for_removal, DiskTyped, MetadataTyped, WorkEnds, GoneIsPending,
     DiskFaults
<1>20. ASSUME NEW p \in Realms, CreateRealm(p) PROVE GoneIsPending'
  BY <1>20 DEF CreateRealm, DiskTyped, MetadataTyped, WorkEnds, GoneIsPending,
     DiskFaults
<1>21. ASSUME NEW p \in Realms, immediately_run_file_actions(p) PROVE GoneIsPending'
  BY <1>21 DEF immediately_run_file_actions, DiskTyped, MetadataTyped, WorkEnds,
     GoneIsPending, DiskFaults
<1>22. ASSUME NEW p \in Realms, NEW kind \in {"delete", "backup"},
             make_file_action_metadata(p, kind)
      PROVE  GoneIsPending'
  BY <1>22 DEF make_file_action_metadata, DiskTyped, MetadataTyped, WorkEnds,
     GoneIsPending, DiskFaults
<1> QED
  BY <1>3, <1>4, <1>5, <1>6, <1>7, <1>8, <1>9, <1>10, <1>11, <1>12,
     <1>13, <1>14, <1>15, <1>16, <1>17, <1>18, <1>19, <1>20, <1>21, <1>22
  DEF FilesNext, Configure, RunAction

-----------------------------------------------------------------------------
(* Together                                                                *)

LEMMA InitFilesInv ==
  ASSUME FilesAssumption, FilesInit
  PROVE  FilesInv
<1>1. DiskTyped /\ MetadataTyped
  BY DEF FilesInit, DiskTyped, MetadataTyped
<1>2. MemoryTyped /\ CountsTyped
  BY DEF FilesInit, MemoryTyped, CountsTyped, MaxCrashes, FilesAssumption
<1>3. WorkEnds /\ CopyOfFile /\ RemovesMarked /\ GoneIsPending
  BY DEF FilesInit, WorkEnds, CopyOfFile, RemovesMarked, GoneIsPending
<1> QED BY <1>1, <1>2, <1>3 DEF FilesInit, FilesInv, FilesTypeOK

LEMMA FilesInvStep ==
  ASSUME FilesAssumption, FilesInv, [FilesNext]_fileVars
  PROVE  FilesInv'
<1>1. CASE FilesNext
  <2>1. FilesTypeOK'
    BY <1>1, DiskTypedStep, MetadataTypedStep, MemoryTypedStep, CountsTypedStep
    DEF FilesTypeOK
  <2>2. WorkEnds' /\ CopyOfFile' /\ RemovesMarked' /\ GoneIsPending'
    BY <1>1, WorkEndsStep, CopyStep, MarkedStep, PendingStep
  <2>3. trouble' \in Troubles
    BY <1>1 DEF FilesNext, FilesInv
  <2> QED BY <2>1, <2>2, <2>3 DEF FilesInv
<1>2. CASE UNCHANGED fileVars
  BY <1>2 DEF fileVars, FilesInv, FilesTypeOK, DiskTyped, MetadataTyped, MemoryTyped,
     CountsTyped, WorkEnds, CopyOfFile, RemovesMarked, GoneIsPending, MaxCrashes,
     DiskFaults
<1> QED BY <1>1, <1>2

\* What a run, of actions or of the whole process, does to the files in one step:
\* a Realm of a user who is logged in goes by DeleteRealm or by DeleteBackedUp.
LEMMA DeletionStep ==
  ASSUME FilesInv, FilesNext, record = "in", NEW p \in Realms,
         file[p] # NoFile, file'[p] = NoFile
  PROVE  \/ action[p].kind = "delete"
         \/ p \in copying /\ backup[action[p].name] # Partial
<1>1. DiskTyped /\ CountsTyped /\ RemovesMarked
  BY DEF FilesInv, FilesTypeOK
<1>2. ASSUME NEW q \in Realms, DeleteRealm(q) PROVE action[p].kind = "delete"
  BY <1>1, <1>2 DEF DeleteRealm, DiskTyped
<1>3. ASSUME NEW q \in Realms, DeleteBackedUp(q)
      PROVE  p \in copying /\ backup[action[p].name] # Partial
  BY <1>1, <1>3 DEF DeleteBackedUp, DiskTyped
<1>4. ASSUME NEW q \in Realms, CreateRealm(q) PROVE FALSE
  BY <1>1, <1>4 DEF CreateRealm, DiskTyped, CountsTyped, NoFile
<1>5. ~remove_user_directory /\ ~RemoveUserRefused
  BY <1>1 DEF remove_user_directory, RemoveUserRefused, RemovesMarked
<1>6. ASSUME NEW q \in Realms,
             \/ BackUpNothing(q) \/ BackUpRefused(q) \/ CopyBegins(q) \/ CopyEnds(q)
             \/ RemoveRealmThrows(q) \/ RemoveAction(q)
             \/ immediately_run_file_actions(q)
             \/ \E kind \in {"delete", "backup"} : make_file_action_metadata(q, kind)
      PROVE  FALSE
  BY <1>6 DEF BackUpNothing, BackUpRefused, CopyBegins, CopyEnds, RemoveRealmThrows,
     Off,
     RemoveAction, immediately_run_file_actions, make_file_action_metadata
<1>7. /\ ~ActionsDone /\ ~ForgetUser /\ ~Launch /\ ~Quit /\ ~Crash
      /\ ~get_or_make_user_metadata /\ ~mark_for_removal
  BY DEF ActionsDone, ForgetUser, Launch, Quit, Crash, Off, get_or_make_user_metadata,
     mark_for_removal
<1> QED
  BY <1>2, <1>3, <1>4, <1>5, <1>6, <1>7 DEF FilesNext, Configure, RunAction

\* Only ForgetUser removes a record.
LEMMA ForgetStep ==
  ASSUME FilesNext, record = "marked", record' = "gone"
  PROVE  ForgetUser
<1>1. ASSUME NEW q \in Realms,
             \/ DeleteRealm(q) \/ BackUpNothing(q) \/ BackUpRefused(q) \/ CopyBegins(q)
             \/ CopyEnds(q) \/ DeleteBackedUp(q) \/ RemoveRealmThrows(q) \/ RemoveAction(q)
             \/ CreateRealm(q) \/ immediately_run_file_actions(q)
             \/ \E kind \in {"delete", "backup"} : make_file_action_metadata(q, kind)
      PROVE  record' = record
  BY <1>1 DEF DeleteRealm, BackUpNothing, BackUpRefused, CopyBegins, CopyEnds,
     DeleteBackedUp, RemoveRealmThrows, Off, RemoveAction, CreateRealm,
     immediately_run_file_actions, make_file_action_metadata
<1>2. /\ ~ActionsDone /\ ~remove_user_directory /\ ~RemoveUserRefused
      /\ ~Launch /\ ~Quit /\ ~Crash
      /\ ~get_or_make_user_metadata /\ ~mark_for_removal
  BY DEF ActionsDone, remove_user_directory, RemoveUserRefused, Launch, Quit, Crash, Off,
     get_or_make_user_metadata, mark_for_removal
<1> QED BY <1>1, <1>2 DEF FilesNext, Configure, RunAction

\* The inductive invariant holds throughout, crashes between any two operations
\* included.
THEOREM FilesInvariant == FilesAssumption /\ FilesSpec => []FilesInv
<1> SUFFICES ASSUME FilesAssumption PROVE FilesSpec => []FilesInv
  OBVIOUS
<1> QED BY InitFilesInv, FilesInvStep, PTL DEF FilesSpec

\* A Realm that the application creates after configure() is never met by the file
\* action that deleted its predecessor (run_file_action, SyncManager::configure).
THEOREM NewRealmIsKept == FilesAssumption /\ FilesSpec => []NewRealmKept
<1>1. FilesInv => NewRealmKept
  BY DEF FilesInv, NewRealmKept, GoneIsPending, WorkEnds
<1> QED BY <1>1, FilesInvariant, PTL

\* No Realm of a logged-in user disappears without an action that says so, nor, if
\* a backup is due, before all of it is in the recovery directory; and no user is
\* forgotten before its directory is removed.
THEOREM DeletionsAreJustified == FilesAssumption /\ FilesSpec => DeletionsJustified
<1>1. ASSUME FilesInv, FilesNext PROVE DeletionJustified
  <2>1. ASSUME record = "in", NEW p \in Realms, file[p] # NoFile, file'[p] = NoFile
        PROVE  /\ action[p] # NoAction
               /\ action[p].kind = "backup" => backup[action[p].name] = file[p]
    <3>1. CASE action[p].kind = "delete"
      BY <3>1 DEF NoAction
    <3>2. CASE p \in copying /\ backup[action[p].name] # Partial
      BY <1>1, <3>2 DEF FilesInv, CopyOfFile, NoAction
    <3> QED BY <1>1, <2>1, <3>1, <3>2, DeletionStep
  <2>2. ASSUME record = "marked", record' = "gone" PROVE \A p \in Realms : file[p] = NoFile
    <3>1. ForgetUser
      BY <1>1, <2>2, ForgetStep
    <3> QED BY <1>1, <3>1 DEF ForgetUser, FilesInv, RemovesMarked
  <2> QED BY <2>1, <2>2 DEF DeletionJustified
<1>2. FilesInv /\ [FilesNext]_fileVars => [DeletionJustified]_fileVars
  BY <1>1
<1> QED BY <1>2, FilesInvariant, PTL DEF FilesSpec, DeletionsJustified
===============================================================================
