------------------------- MODULE SyncSessionProofs -------------------------
(***************************************************************************)
(* SessionInv is an inductive invariant of SyncSession, for any            *)
(* configurations, any waits and any bounds, and ProgressInv one of its    *)
(* progress callbacks (SyncProgress), for any number of them.  The two     *)
(* share no state.                                                         *)
(***************************************************************************)
EXTENDS SyncSession, SyncProgress, FiniteSetTheorems, TLAPS

USE DEF Directions, sessionVars, deferVars, countVars, waitVars, serverVars, commitVars

\* A commit that was deferred has not been announced, and it is only kept while
\* there is nothing to announce it to.
DeferredIsNewer ==
  deferredCommit # 0 =>
    state \in {"inactive", "waiting"} /\ announced <= deferredCommit

\* A handler for a wait is counted by the client resyncs so far, and one from
\* before the last of them is on a sync::Session that is gone.
OldHandlersOnOldSessions ==
  \A r \in waiters : r.for \in Directions =>
    /\ r.tag <= resyncs
    /\ session # 0 /\ r.tag < resyncs => r.on < session

\* What was made before the last client resync is gone, and the handlers for waits
\* left on it are from before that.
RenewedIsOld ==
  /\ session # 0 => session > renewed
  /\ \A r \in waiters : r.for \in Directions /\ r.on <= renewed => r.tag < resyncs

\* The handler of the current death is on the running sync::Session, and waits
\* for all that has been announced to it.
DeathHandlerCurrent ==
  \A r \in waiters : r.for = "death" =>
    /\ r.tag <= deaths
    /\ state = "dying" /\ r.tag = deaths => r.on = session /\ r.upto = announced

\* An error has at most one client resync ahead of it, one that the bound allows,
\* and none when resyncs are left to the application.
StepsAhead ==
  /\ \A i \in 1..Len(todo) : todo[i] = "resync" => resyncs < MaxResyncs
  /\ \A i, j \in 1..Len(todo) : todo[i] = "resync" /\ todo[j] = "resync" => i = j
  /\ ResyncMode = "Manual" =>
       \A i \in 1..Len(todo) : todo[i] \notin {"resync", "restore"}

\* Without a client resync nothing is moved aside.
NothingAside == ResyncMode = "Manual" => aside = {}

\* The inductive invariant.
SessionInv ==
  /\ config \in Configs
  /\ SessionInOrder /\ WaitsKept
  /\ DeferredIsNewer /\ OldHandlersOnOldSessions /\ RenewedIsOld /\ DeathHandlerCurrent
  /\ StepsAhead /\ NothingAside

-----------------------------------------------------------------------------
(* The configuration                                                       *)

\* What the configuration of a behaviour is known to hold.
LEMMA ConfigTyped ==
  ASSUME config \in Configs
  PROVE  /\ {MaxSessions, MaxDeaths, MaxResyncs, MaxVersion} \subseteq Nat
         /\ \A w \in Waits : Direction[w] \in Directions
         /\ NoAddress \notin Addresses
         /\ ResyncMode \in {"Recover", "DiscardLocal", "Manual"}
BY SessionAssumption DEF MaxSessions, MaxDeaths, MaxResyncs, MaxVersion, Waits,
   Direction, Addresses, ResyncMode

\* The configuration stays the same.
LEMMA ConfigKept ==
  ASSUME config' = config
  PROVE  /\ Waits' = Waits /\ Direction' = Direction /\ Addresses' = Addresses
         /\ StopPolicy' = StopPolicy /\ ResyncMode' = ResyncMode
         /\ CancelOnNonfatal' = CancelOnNonfatal
         /\ MaxSessions' = MaxSessions /\ MaxDeaths' = MaxDeaths
         /\ MaxResyncs' = MaxResyncs /\ MaxVersion' = MaxVersion
BY DEF Waits, Direction, Addresses, StopPolicy, ResyncMode, CancelOnNonfatal,
   MaxSessions, MaxDeaths, MaxResyncs, MaxVersion

-----------------------------------------------------------------------------
(* What handle_error still has to do                                       *)

\* Sequences of up to four elements.
LEMMA ShortSequences ==
  ASSUME NEW S, NEW a \in S, NEW b \in S, NEW c \in S, NEW d \in S
  PROVE  /\ <<a>> \in Seq(S) /\ <<a, b>> \in Seq(S)
         /\ <<a, b, c>> \in Seq(S) /\ <<a, b, c, d>> \in Seq(S)
OBVIOUS

\* What an error gives to do: at most one client resync, the second step.
LEMMA ErrorSteps ==
  ASSUME NEW e, NEW fatal,
         NEW t, t = StepsFor(e, FirstStep(fatal), fatal)
  PROVE  /\ t \in Seq(Steps) /\ Len(t) \in Nat
         /\ \A i \in 1..Len(t) : t[i] = "resync" => i = 2 /\ e = "reset"
         /\ ResyncMode = "Manual" =>
              \A i \in 1..Len(t) : t[i] \notin {"resync", "restore"}
<1>1. PICK x : x = FirstStep(fatal)
  OBVIOUS
<1>2. x # "resync" /\ x # "restore"
  BY <1>1 DEF FirstStep
<1>3. \/ t = <<x>> \/ t = <<x, "expire">> \/ t = <<x, "stop">> \/ t = <<x, "cancel">>
      \/ t = <<x, "cancel", "stop">> \/ t = <<x, "cancel", "cancel">>
      \/ /\ e = "reset" /\ ResyncMode # "Manual"
         /\ t = <<x, "resync", "restore", "revive">>
  BY <1>1 DEF StepsFor
<1>4. t \in Seq(Steps)
  <2>1. /\ "expire" \in Steps /\ "stop" \in Steps /\ "cancel" \in Steps /\ x \in Steps
        /\ "resync" \in Steps /\ "restore" \in Steps /\ "revive" \in Steps
    BY <1>1 DEF FirstStep, Steps
  <2> QED BY <1>3, <2>1, ShortSequences, ZenonT(30)
<1>5. /\ Len(t) \in Nat
      /\ \A i \in 1..Len(t) : t[i] = "resync" => i = 2 /\ e = "reset"
      /\ ResyncMode = "Manual" => \A i \in 1..Len(t) : t[i] \notin {"resync", "restore"}
  BY <1>2, <1>3
<1> QED BY <1>4, <1>5

\* A step is done.
LEMMA StepDone ==
  ASSUME NEW S, NEW s \in Seq(S), s # <<>>
  PROVE  /\ Tail(s) \in Seq(S)
         /\ Len(s) \in Nat \ {0}
         /\ Len(Tail(s)) = Len(s) - 1
         /\ Head(s) = s[1]
         /\ \A i \in 1..Len(Tail(s)) : Tail(s)[i] = s[i + 1] /\ i + 1 \in 1..Len(s)
OBVIOUS

\* Initially nothing has happened.
LEMMA InitSessionInv == Init => SessionInv
<1> SUFFICES ASSUME Init PROVE SessionInv
  OBVIOUS
<1>0. config \in Configs
  BY DEF Init
<1>1. TypeOK
  <2>1. CountsTyped /\ WaitsTyped
    BY <1>0, ConfigTyped DEF Init, CountsTyped, WaitsTyped, Outcomes
  <2>2. deferredClose \in BOOLEAN /\ connected \in BOOLEAN
    BY Zenon DEF Init
  <2> QED BY <2>1, <2>2 DEF Init, TypeOK
<1> QED
  BY <1>0, <1>1 DEF Init, SessionInv, SessionInOrder, WaitsKept, StateOwnsSession,
     OverrideReachesSession, ResyncSeparatesSessions, NoWaitLostWithoutResync,
     NoWaitLost,
     WaitIsArmed, DeferredIsNewer, OldHandlersOnOldSessions, DeathHandlerCurrent,
     StepsAhead, NothingAside, RenewedIsOld

-----------------------------------------------------------------------------
(* Handlers                                                                *)

\* The handlers registered for waits are of their direction and the current
\* count, and there is one for every wait.
LEMMA WaitHandlers ==
  ASSUME config \in Configs, NEW s, NEW upto, NEW ws \in SUBSET Waits
  PROVE  /\ \A r \in add_completion_callback(s, upto, ws) :
              /\ r.for \in Directions
              /\ r = [on |-> s, for |-> r.for, tag |-> resyncs, upto |-> upto]
         /\ \A w \in ws : \E r \in add_completion_callback(s, upto, ws) :
              r.on = s /\ r.for = Direction[w] /\ r.tag = resyncs
<1>1. ASSUME NEW r \in add_completion_callback(s, upto, ws)
      PROVE  /\ r.for \in Directions
             /\ r = [on |-> s, for |-> r.for, tag |-> resyncs, upto |-> upto]
  <2>1. PICK w \in ws :
          r = [on |-> s, for |-> Direction[w], tag |-> resyncs, upto |-> upto]
    BY DEF add_completion_callback, Waiter
  <2>2. r.for = Direction[w]
    BY <2>1
  <2> QED BY <2>1, <2>2, ConfigTyped
<1>2. ASSUME NEW w \in ws
      PROVE  \E r \in add_completion_callback(s, upto, ws) :
               r.on = s /\ r.for = Direction[w] /\ r.tag = resyncs
  <2> DEFINE r == [on |-> s, for |-> Direction[w], tag |-> resyncs, upto |-> upto]
  <2>1. r \in add_completion_callback(s, upto, ws)
    BY DEF add_completion_callback, Waiter
  <2> QED BY <2>1
<1> QED BY <1>1, <1>2

\* The handler of a death is the next one.
LEMMA DeathHandler ==
  ASSUME NEW s, NEW upto
  PROVE  EnterDying(s, upto) = [on |-> s, for |-> "death", tag |-> deaths + 1, upto |-> upto]
BY DEF EnterDying, Waiter

\* A client resync is carried out only where it is asked for.
LEMMA NoResyncWhenManual ==
  ASSUME SessionInv, ResyncMode = "Manual"
  PROVE  ~At("resync") /\ ~At("restore")
<1>1. todo \in Seq(Steps) /\ \A i \in 1..Len(todo) : todo[i] \notin {"resync", "restore"}
  BY DEF SessionInv, SessionInOrder, TypeOK, StepsAhead
<1> QED BY <1>1, StepDone DEF At

\* The counters stay within their bounds.
LEMMA CountsStep ==
  ASSUME SessionInv, Next
  PROVE  CountsTyped'
<1>1. CountsTyped /\ WaitsTyped /\ DeferredIsNewer /\ StepsAhead
  BY DEF SessionInv, SessionInOrder, WaitsKept, TypeOK
<1>2. config \in Configs /\ config' = config
  BY DEF SessionInv, Next
<1> USE <1>1, <1>2, ConfigTyped, ConfigKept
<1>3. CASE Revive \/ ResyncRevives
  BY <1>3 DEF Revive, ResyncRevives, revive_if_needed, WaitingRevives, DyingRevives,
     InactiveRevives, EnterActive, CountsTyped, WaitsTyped, DeferredIsNewer
<1>4. CASE refresh_access_token
  BY <1>4 DEF refresh_access_token, create_sync_session, EnterActive, CountsTyped,
     WaitsTyped, DeferredIsNewer
<1>5. CASE log_out \/ StopAfterError
  BY <1>5, SMTT(30) DEF log_out, StopAfterError, EnterInactive, Call, CountsTyped,
     WaitsTyped, DeferredIsNewer
<1>6. CASE close
  BY <1>6 DEF close, WaitingCloses, ActiveCloses, CloseNow, EnterInactive, Call,
     CountsTyped, WaitsTyped, DeferredIsNewer
<1>7. CASE nonsync_transact_notify
  BY <1>7 DEF nonsync_transact_notify, CountsTyped, WaitsTyped, DeferredIsNewer
<1>8. CASE \E w \in Waits : wait_for_completion(w)
  BY <1>8 DEF wait_for_completion, CountsTyped, WaitsTyped, DeferredIsNewer
<1>9. CASE \E a \in Addresses : override_server(a)
  BY <1>9 DEF override_server, CountsTyped, WaitsTyped, DeferredIsNewer
<1>10. CASE Die
  BY <1>10 DEF Die, DeathHandlerRuns, EnterInactive, Call, CountsTyped, WaitsTyped,
     DeferredIsNewer
<1>11. CASE Answer("upload") \/ Answer("download")
  BY <1>11 DEF Answer, WaitCompletes, Call, CountsTyped, WaitsTyped, DeferredIsNewer
<1>12. CASE handle_error
  <2>1. session' \in {session, 0} /\ UNCHANGED <<made, deferVars, countVars, commitVars>>
    BY <1>12 DEF handle_error, EnterInactive
  <2> QED BY <2>1 DEF CountsTyped
<1>13. CASE access_token_expired
  BY <1>13 DEF access_token_expired, CountsTyped, WaitsTyped, DeferredIsNewer
<1>14. CASE cancel_pending_waits
  BY <1>14 DEF cancel_pending_waits, Call, CountsTyped, WaitsTyped, DeferredIsNewer
<1>15. CASE ResyncBegins
  BY <1>15, StepDone DEF ResyncBegins, At, StepsAhead, CountsTyped, TypeOK
<1>16. CASE ResyncRestores
  BY <1>16 DEF ResyncRestores, CountsTyped, WaitsTyped, DeferredIsNewer
<1>17. CASE ServerAcknowledges
  BY <1>17 DEF ServerAcknowledges, CountsTyped, WaitsTyped, DeferredIsNewer
<1>18. CASE \E e \in Errors, fatal \in BOOLEAN : ErrorArrives(e, fatal)
  BY <1>18 DEF ErrorArrives, CountsTyped, WaitsTyped, DeferredIsNewer
<1>19. CASE ActiveRefreshes
  BY <1>19 DEF ActiveRefreshes, CountsTyped, WaitsTyped, DeferredIsNewer
<1> QED
  BY <1>3, <1>4, <1>5, <1>6, <1>7, <1>8, <1>9, <1>10, <1>11,
     <1>12, <1>13, <1>14, <1>15, <1>16, <1>17, <1>18, <1>19
  DEF Next, Binding, ErrorStep

\* What a step does to the handlers, and to what they are counted by: a new handler
\* is on the sync::Session there is afterwards, with the current count.
LEMMA StepSummary ==
  ASSUME SessionInv, Next
  PROVE  /\ \A r \in waiters' \ waiters :
              /\ session' # 0 /\ r.on = session'
              /\ r.for \in Directions => r.tag = resyncs /\ resyncs' = resyncs
              /\ r.for = "death" => r.tag = deaths + 1 /\ deaths' = deaths + 1 /\ r.upto = announced'
         /\ resyncs' # resyncs => resyncs' = resyncs + 1 /\ session' = 0
         /\ renewed' = IF resyncs' # resyncs THEN made ELSE renewed
         /\ session' \in {session, 0} \/ session' = made + 1
         /\ state' = "dying" => \/ deaths' = deaths + 1
                              \/ /\ state = "dying" /\ session' = session
                                 /\ deaths' = deaths /\ announced' = announced
         /\ deaths' \in {deaths, deaths + 1}
<1>1. CountsTyped /\ WaitsTyped /\ StateOwnsSession
  BY DEF SessionInv, SessionInOrder, WaitsKept, TypeOK
<1>2. config \in Configs /\ config' = config
  BY DEF SessionInv, Next
<1> USE <1>1, <1>2, ConfigTyped, ConfigKept
<1>3. CASE Revive \/ ResyncRevives
  <2>1. waiters' = waiters \/ (waiters' = EnterActive(session, announced) /\ state = "dying")
    BY <1>3 DEF Revive, ResyncRevives, revive_if_needed, WaitingRevives, DyingRevives,
       InactiveRevives
  <2>2. /\ UNCHANGED <<session, countVars, announced>>
        /\ state' # "dying"
    BY <1>3 DEF Revive, ResyncRevives, revive_if_needed, WaitingRevives, DyingRevives,
       InactiveRevives
  <2> QED BY <2>1, <2>2, WaitHandlers DEF EnterActive, WaitsTyped, StateOwnsSession
<1>4. CASE refresh_access_token
  <2>1. /\ session' # 0 /\ session' \in {session, made + 1}
        /\ resyncs' = resyncs /\ renewed' = renewed /\ deaths' \in {deaths, deaths + 1}
        /\ state' = "dying" => deaths' = deaths + 1
    BY <1>4 DEF refresh_access_token, create_sync_session, CountsTyped
  <2>2. \A r \in waiters' \ waiters :
          \/ r \in add_completion_callback(session', announced', callbacks)
          \/ r = EnterDying(session', announced') /\ deaths' = deaths + 1
    BY <1>4 DEF refresh_access_token, EnterActive
  <2> QED BY <2>1, <2>2, WaitHandlers, DeathHandler DEF WaitsTyped
<1>5. CASE log_out \/ StopAfterError
  BY <1>5 DEF log_out, StopAfterError, EnterInactive, Call, StateOwnsSession
<1>6. CASE close
  BY <1>6, DeathHandler DEF close, WaitingCloses, ActiveCloses, CloseNow, EnterInactive,
     StateOwnsSession
<1>7. CASE nonsync_transact_notify
  BY <1>7 DEF nonsync_transact_notify, StateOwnsSession
<1>8. CASE \E w \in Waits : wait_for_completion(w)
  <2>1. PICK w \in Waits : wait_for_completion(w)
    BY <1>8
  <2> QED BY <2>1, WaitHandlers DEF wait_for_completion, StateOwnsSession
<1>9. CASE \E a \in Addresses : override_server(a)
  BY <1>9 DEF override_server, StateOwnsSession
<1>10. CASE Die
  BY <1>10 DEF Die, DeathHandlerRuns, EnterInactive, Call, StateOwnsSession
<1>11. CASE Answer("upload") \/ Answer("download")
  BY <1>11 DEF Answer, WaitCompletes, Call, StateOwnsSession
<1>12. CASE handle_error
  BY <1>12 DEF handle_error, EnterInactive, Call, StateOwnsSession
<1>13. CASE access_token_expired
  BY <1>13 DEF access_token_expired, StateOwnsSession
<1>14. CASE cancel_pending_waits
  BY <1>14 DEF cancel_pending_waits, Call, StateOwnsSession
<1>15. CASE ResyncBegins
  BY <1>15 DEF ResyncBegins, StateOwnsSession, CountsTyped
<1>16. CASE ResyncRestores
  BY <1>16 DEF ResyncRestores, StateOwnsSession
<1>17. CASE ServerAcknowledges
  BY <1>17 DEF ServerAcknowledges, StateOwnsSession
<1>18. CASE \E e \in Errors, fatal \in BOOLEAN : ErrorArrives(e, fatal)
  BY <1>18 DEF ErrorArrives, StateOwnsSession
<1>19. CASE ActiveRefreshes
  BY <1>19 DEF ActiveRefreshes, StateOwnsSession
<1> QED
  BY <1>3, <1>4, <1>5, <1>6, <1>7, <1>8, <1>9, <1>10, <1>11,
     <1>12, <1>13, <1>14, <1>15, <1>16, <1>17, <1>18, <1>19
  DEF Next, Binding, ErrorStep

\* The waits and their handlers stay typed.
LEMMA WaitsStep ==
  ASSUME SessionInv, Next
  PROVE  WaitsTyped'
<1>1. CountsTyped /\ WaitsTyped /\ StateOwnsSession
  BY DEF SessionInv, SessionInOrder, WaitsKept, TypeOK
<1>2. config \in Configs /\ config' = config
  BY DEF SessionInv, Next
<1> USE <1>1, <1>2, ConfigTyped, ConfigKept
<1>3. CASE Revive \/ ResyncRevives
  <2>1. waiters' = waiters \/ (waiters' = EnterActive(session, announced) /\ state = "dying")
    BY <1>3 DEF Revive, ResyncRevives, revive_if_needed, WaitingRevives, DyingRevives,
       InactiveRevives
  <2>2. UNCHANGED <<made, commits, waitVars, aside, pending>>
    BY <1>3 DEF Revive, ResyncRevives, revive_if_needed, WaitingRevives, DyingRevives,
       InactiveRevives
  <2> QED BY <2>1, <2>2, WaitHandlers DEF EnterActive, WaitsTyped, CountsTyped,
      StateOwnsSession
<1>4. CASE refresh_access_token
  <2>1. UNCHANGED <<commits, waitVars, aside, pending>>
    BY <1>4 DEF refresh_access_token
  <2>2. made' \in {made, made + 1} /\ session' \in 1..made' /\ announced' \in 0..commits'
    BY <1>4 DEF refresh_access_token, create_sync_session, CountsTyped
  <2>3. deaths' = deaths + 1 => deaths + 1 \in 0..(MaxDeaths + MaxResyncs)
    BY <1>4 DEF refresh_access_token, CountsTyped
  <2>4. \A r \in waiters' \ waiters :
          \/ r \in add_completion_callback(session', announced', callbacks)
          \/ r = EnterDying(session', announced') /\ deaths' = deaths + 1
    BY <1>4 DEF refresh_access_token, EnterActive
  <2>5. \A r \in waiters' \ waiters :
          r \in [on : 1..made', for : Directions \cup {"death"},
                 tag : 0..(MaxDeaths + MaxResyncs), upto : 0..commits']
    BY <2>1, <2>2, <2>3, <2>4, WaitHandlers, DeathHandler DEF WaitsTyped, CountsTyped
  <2>6. \A r \in waiters :
          r \in [on : 1..made', for : Directions \cup {"death"},
                 tag : 0..(MaxDeaths + MaxResyncs), upto : 0..commits']
    BY <2>1, <2>2 DEF WaitsTyped, CountsTyped
  <2>7. (outcome \in [Waits -> Outcomes] /\ pending \in [Waits -> 0..commits])'
    BY <2>1 DEF WaitsTyped, Outcomes
  <2>8. (callbacks \subseteq Waits /\ aside \subseteq Waits)'
    BY <2>1 DEF WaitsTyped
  <2>9. MaxDeaths' = MaxDeaths /\ MaxResyncs' = MaxResyncs
    OBVIOUS
  <2> QED BY <2>5, <2>6, <2>7, <2>8, <2>9 DEF WaitsTyped
<1>5. CASE log_out \/ StopAfterError
  BY <1>5 DEF log_out, StopAfterError, EnterInactive, Call, CountsTyped, WaitsTyped,
     Outcomes, StateOwnsSession
<1>6. CASE close
  BY <1>6, DeathHandler DEF close, WaitingCloses, ActiveCloses, CloseNow, EnterInactive,
     Call, StateOwnsSession, WaitsTyped, CountsTyped, Outcomes
<1>7. CASE nonsync_transact_notify
  BY <1>7 DEF nonsync_transact_notify, CountsTyped, WaitsTyped, Outcomes,
     StateOwnsSession
<1>8. CASE \E w \in Waits : wait_for_completion(w)
  <2>1. PICK w \in Waits : wait_for_completion(w)
    BY <1>8
  <2> QED BY <2>1, WaitHandlers DEF wait_for_completion, StateOwnsSession, WaitsTyped,
      CountsTyped, Outcomes
<1>9. CASE \E a \in Addresses : override_server(a)
  BY <1>9 DEF override_server, CountsTyped, WaitsTyped, Outcomes, StateOwnsSession
<1>10. CASE Die
  BY <1>10 DEF Die, DeathHandlerRuns, EnterInactive, Call, CountsTyped, WaitsTyped,
     Outcomes, StateOwnsSession
<1>11. CASE Answer("upload") \/ Answer("download")
  BY <1>11 DEF Answer, WaitCompletes, Call, CountsTyped, WaitsTyped, Outcomes,
     StateOwnsSession
<1>12. CASE handle_error
  BY <1>12 DEF handle_error, EnterInactive, Call, CountsTyped, WaitsTyped, Outcomes,
     StateOwnsSession
<1>13. CASE access_token_expired
  BY <1>13 DEF access_token_expired, CountsTyped, WaitsTyped, Outcomes, StateOwnsSession
<1>14. CASE cancel_pending_waits
  BY <1>14 DEF cancel_pending_waits, Call, CountsTyped, WaitsTyped, Outcomes,
     StateOwnsSession
<1>15. CASE ResyncBegins
  BY <1>15 DEF ResyncBegins, CountsTyped, WaitsTyped, Outcomes, StateOwnsSession
<1>16. CASE ResyncRestores
  BY <1>16 DEF ResyncRestores, CountsTyped, WaitsTyped, Outcomes, StateOwnsSession
<1>17. CASE ServerAcknowledges
  BY <1>17 DEF ServerAcknowledges, CountsTyped, WaitsTyped, Outcomes, StateOwnsSession
<1>18. CASE \E e \in Errors, fatal \in BOOLEAN : ErrorArrives(e, fatal)
  BY <1>18 DEF ErrorArrives, CountsTyped, WaitsTyped, Outcomes, StateOwnsSession
<1>19. CASE ActiveRefreshes
  BY <1>19 DEF ActiveRefreshes, CountsTyped, WaitsTyped, Outcomes, StateOwnsSession
<1> QED
  BY <1>3, <1>4, <1>5, <1>6, <1>7, <1>8, <1>9, <1>10, <1>11,
     <1>12, <1>13, <1>14, <1>15, <1>16, <1>17, <1>18, <1>19
  DEF Next, Binding, ErrorStep

\* The state says whether there is a sync::Session, and it uses the right server.
LEMMA StateStep ==
  ASSUME SessionInv, Next
  PROVE  /\ (StateOwnsSession /\ OverrideReachesSession /\ DeferredIsNewer)'
         /\ (state \in {"inactive", "waiting", "active", "dying"})'
         /\ (address \in Addresses \cup {NoAddress} /\ target \in Addresses \cup {NoAddress})'
<1>1. TypeOK /\ StateOwnsSession /\ OverrideReachesSession /\ DeferredIsNewer
  BY DEF SessionInv, SessionInOrder, WaitsKept, TypeOK
<1>2. config \in Configs /\ config' = config
  BY DEF SessionInv, Next
<1> USE <1>1, <1>2, ConfigTyped, ConfigKept
<1>3. CASE Revive \/ ResyncRevives
  BY <1>3 DEF Revive, ResyncRevives, revive_if_needed, WaitingRevives, DyingRevives,
     InactiveRevives, EnterActive, TypeOK, CountsTyped, StateOwnsSession,
     OverrideReachesSession, DeferredIsNewer
<1>4. CASE refresh_access_token
  BY <1>4 DEF refresh_access_token, create_sync_session, EnterActive, TypeOK,
     CountsTyped, StateOwnsSession, OverrideReachesSession, DeferredIsNewer
<1>5. CASE log_out \/ StopAfterError
  BY <1>5 DEF log_out, StopAfterError, EnterInactive, Call, TypeOK, CountsTyped,
     StateOwnsSession, OverrideReachesSession, DeferredIsNewer
<1>6. CASE close
  BY <1>6 DEF close, WaitingCloses, ActiveCloses, CloseNow, EnterInactive, Call, TypeOK,
     CountsTyped, StateOwnsSession, OverrideReachesSession, DeferredIsNewer
<1>7. CASE nonsync_transact_notify
  <2>1. UNCHANGED <<sessionVars, serverVars>>
    BY <1>7 DEF nonsync_transact_notify
  <2>2. DeferredIsNewer'
    BY <1>7 DEF nonsync_transact_notify, DeferredIsNewer, TypeOK, CountsTyped
  <2> QED BY <2>1, <2>2 DEF TypeOK, StateOwnsSession, OverrideReachesSession
<1>8. CASE \E w \in Waits : wait_for_completion(w)
  BY <1>8 DEF wait_for_completion, TypeOK, CountsTyped, StateOwnsSession,
     OverrideReachesSession, DeferredIsNewer
<1>9. CASE \E a \in Addresses : override_server(a)
  BY <1>9 DEF override_server, TypeOK, CountsTyped, StateOwnsSession,
     OverrideReachesSession, DeferredIsNewer
<1>10. CASE Die
  BY <1>10 DEF Die, DeathHandlerRuns, EnterInactive, Call, TypeOK, CountsTyped,
     StateOwnsSession, OverrideReachesSession, DeferredIsNewer
<1>11. CASE Answer("upload") \/ Answer("download")
  BY <1>11 DEF Answer, WaitCompletes, Call, TypeOK, CountsTyped, StateOwnsSession,
     OverrideReachesSession, DeferredIsNewer
<1>12. CASE handle_error
  BY <1>12 DEF handle_error, EnterInactive, Call, TypeOK, CountsTyped, StateOwnsSession,
     OverrideReachesSession, DeferredIsNewer
<1>13. CASE access_token_expired
  BY <1>13 DEF access_token_expired, TypeOK, CountsTyped, StateOwnsSession,
     OverrideReachesSession, DeferredIsNewer
<1>14. CASE cancel_pending_waits
  BY <1>14 DEF cancel_pending_waits, Call, TypeOK, CountsTyped, StateOwnsSession,
     OverrideReachesSession, DeferredIsNewer
<1>15. CASE ResyncBegins
  BY <1>15 DEF ResyncBegins, TypeOK, CountsTyped, StateOwnsSession,
     OverrideReachesSession, DeferredIsNewer
<1>16. CASE ResyncRestores
  BY <1>16 DEF ResyncRestores, TypeOK, CountsTyped, StateOwnsSession,
     OverrideReachesSession, DeferredIsNewer
<1>17. CASE ServerAcknowledges
  BY <1>17 DEF ServerAcknowledges, TypeOK, CountsTyped, StateOwnsSession,
     OverrideReachesSession, DeferredIsNewer
<1>18. CASE \E e \in Errors, fatal \in BOOLEAN : ErrorArrives(e, fatal)
  BY <1>18 DEF ErrorArrives, TypeOK, CountsTyped, StateOwnsSession,
     OverrideReachesSession, DeferredIsNewer
<1>19. CASE ActiveRefreshes
  BY <1>19 DEF ActiveRefreshes, TypeOK, CountsTyped, StateOwnsSession,
     OverrideReachesSession, DeferredIsNewer
<1> QED
  BY <1>3, <1>4, <1>5, <1>6, <1>7, <1>8, <1>9, <1>10, <1>11,
     <1>12, <1>13, <1>14, <1>15, <1>16, <1>17, <1>18, <1>19
  DEF Next, Binding, ErrorStep

\* Whoever waits keeps a handler that will be listened to.
LEMMA ArmedStep ==
  ASSUME SessionInv, Next
  PROVE  WaitIsArmed'
<1>1. TypeOK /\ WaitsTyped /\ StateOwnsSession /\ WaitIsArmed /\ StepsAhead
  BY DEF SessionInv, SessionInOrder, WaitsKept, TypeOK
<1>2. config \in Configs /\ config' = config
  BY DEF SessionInv, Next
<1> USE <1>1, <1>2, ConfigTyped, ConfigKept
<1>3. CASE Revive \/ ResyncRevives
  BY <1>3 DEF Revive, ResyncRevives, revive_if_needed, WaitingRevives, DyingRevives,
     InactiveRevives, EnterActive, WaitIsArmed
<1>4. CASE refresh_access_token
  <2>1. UNCHANGED <<callbacks, resyncs>>
    BY <1>4 DEF refresh_access_token
  <2>2. add_completion_callback(session', announced', callbacks) \subseteq waiters'
    BY <1>4 DEF refresh_access_token, EnterActive
  <2> QED BY <2>1, <2>2, WaitHandlers DEF WaitsTyped, WaitIsArmed
<1>5. CASE log_out \/ StopAfterError
  BY <1>5 DEF log_out, StopAfterError, EnterInactive, Call, WaitIsArmed
<1>6. CASE close
  BY <1>6 DEF close, WaitingCloses, ActiveCloses, CloseNow, EnterInactive, Call,
     WaitIsArmed
<1>7. CASE nonsync_transact_notify
  BY <1>7 DEF nonsync_transact_notify, WaitIsArmed
<1>8. CASE \E w \in Waits : wait_for_completion(w)
  <2>1. PICK w \in Waits : wait_for_completion(w)
    BY <1>8
  <2>2. CASE state \in {"active", "dying"} /\ \A v \in callbacks : Direction[v] # Direction[w]
    BY <2>1, <2>2, WaitHandlers DEF wait_for_completion, WaitIsArmed
  <2>3. CASE ~(state \in {"active", "dying"} /\ \A v \in callbacks : Direction[v] # Direction[w])
    BY <2>1, <2>3 DEF wait_for_completion, WaitIsArmed
  <2> QED BY <2>2, <2>3
<1>9. CASE \E a \in Addresses : override_server(a)
  BY <1>9 DEF override_server, WaitIsArmed
<1>10. CASE Die
  <2>1. PICK r \in waiters : DeathHandlerRuns(r)
    BY <1>10 DEF Die
  <2>2. r.for = "death" /\ waiters' = waiters \ {r} /\ resyncs' = resyncs
    BY <2>1 DEF DeathHandlerRuns
  <2>3. state' = "inactive" \/ UNCHANGED <<state, session, callbacks>>
    BY <2>1 DEF DeathHandlerRuns, EnterInactive
  <2> QED BY <2>2, <2>3 DEF WaitIsArmed, WaitsTyped
<1>11. CASE Answer("upload") \/ Answer("download")
  <2>1. PICK r \in waiters, result \in {"done", "aborted"} : WaitCompletes(r, result)
    BY <1>11 DEF Answer
  <2> QED BY <2>1 DEF WaitCompletes, WaitIsArmed, WaitsTyped
<1>12. CASE handle_error
  <2>1. resyncs' = resyncs /\ waiters' = waiters
    BY <1>12 DEF handle_error
  <2>2. state' = "inactive" \/ UNCHANGED <<state, session, callbacks>>
    BY <1>12 DEF handle_error, EnterInactive
  <2>3. CASE state' = "inactive"
    BY <2>3 DEF WaitIsArmed
  <2>4. CASE UNCHANGED <<state, session, callbacks>>
    BY <2>1, <2>4 DEF WaitIsArmed, WaitsTyped
  <2> QED BY <2>2, <2>3, <2>4
<1>13. CASE access_token_expired
  BY <1>13 DEF access_token_expired, WaitIsArmed
<1>14. CASE cancel_pending_waits
  BY <1>14 DEF cancel_pending_waits, Call, WaitIsArmed
<1>15. CASE ResyncBegins
  BY <1>15 DEF ResyncBegins, WaitIsArmed
<1>16. CASE ResyncRestores
  BY <1>16, NoResyncWhenManual DEF ResyncRestores, WaitIsArmed
<1>17. CASE ServerAcknowledges
  BY <1>17 DEF ServerAcknowledges, WaitIsArmed
<1>18. CASE \E e \in Errors, fatal \in BOOLEAN : ErrorArrives(e, fatal)
  BY <1>18 DEF ErrorArrives, WaitIsArmed
<1>19. CASE ActiveRefreshes
  BY <1>19 DEF ActiveRefreshes, WaitIsArmed
<1> QED
  BY <1>3, <1>4, <1>5, <1>6, <1>7, <1>8, <1>9, <1>10, <1>11,
     <1>12, <1>13, <1>14, <1>15, <1>16, <1>17, <1>18, <1>19
  DEF Next, Binding, ErrorStep

\* No wait is dropped and none is answered twice.
LEMMA LostStep ==
  ASSUME SessionInv, Next
  PROVE  NoWaitLostWithoutResync' /\ NothingAside'
<1>1. TypeOK /\ WaitsTyped /\ NoWaitLostWithoutResync /\ NothingAside /\ StepsAhead
  BY DEF SessionInv, SessionInOrder, WaitsKept, TypeOK
<1>2. config \in Configs /\ config' = config
  BY DEF SessionInv, Next
<1> USE <1>1, <1>2, ConfigTyped, ConfigKept
<1>3. CASE Revive \/ ResyncRevives
  BY <1>3 DEF Revive, ResyncRevives, revive_if_needed, WaitingRevives, DyingRevives,
     InactiveRevives, EnterActive, NoWaitLostWithoutResync, NoWaitLost, NothingAside,
     WaitsTyped
<1>4. CASE refresh_access_token
  BY <1>4 DEF refresh_access_token, create_sync_session, EnterActive,
     NoWaitLostWithoutResync, NoWaitLost, NothingAside, WaitsTyped
<1>5. CASE log_out \/ StopAfterError
  BY <1>5 DEF log_out, StopAfterError, EnterInactive, Call, NoWaitLostWithoutResync,
     NoWaitLost, NothingAside, WaitsTyped
<1>6. CASE close
  BY <1>6 DEF close, WaitingCloses, ActiveCloses, CloseNow, EnterInactive, Call,
     NoWaitLostWithoutResync, NoWaitLost, NothingAside, WaitsTyped
<1>7. CASE nonsync_transact_notify
  BY <1>7 DEF nonsync_transact_notify, NoWaitLostWithoutResync, NoWaitLost,
     NothingAside, WaitsTyped
<1>8. CASE \E w \in Waits : wait_for_completion(w)
  BY <1>8 DEF wait_for_completion, NoWaitLostWithoutResync, NoWaitLost, NothingAside,
     WaitsTyped
<1>9. CASE \E a \in Addresses : override_server(a)
  BY <1>9 DEF override_server, NoWaitLostWithoutResync, NoWaitLost, NothingAside,
     WaitsTyped
<1>10. CASE Die
  BY <1>10 DEF Die, DeathHandlerRuns, EnterInactive, Call, NoWaitLostWithoutResync,
     NoWaitLost, NothingAside, WaitsTyped
<1>11. CASE Answer("upload") \/ Answer("download")
  BY <1>11 DEF Answer, WaitCompletes, Call, NoWaitLostWithoutResync, NoWaitLost,
     NothingAside, WaitsTyped
<1>12. CASE handle_error
  BY <1>12 DEF handle_error, EnterInactive, Call, NoWaitLostWithoutResync, NoWaitLost,
     NothingAside, WaitsTyped
<1>13. CASE access_token_expired
  BY <1>13 DEF access_token_expired, NoWaitLostWithoutResync, NoWaitLost, NothingAside,
     WaitsTyped
<1>14. CASE cancel_pending_waits
  BY <1>14 DEF cancel_pending_waits, Call, NoWaitLostWithoutResync, NoWaitLost,
     NothingAside, WaitsTyped
<1>15. CASE ResyncBegins
  BY <1>15, NoResyncWhenManual DEF ResyncBegins, NoWaitLostWithoutResync, NothingAside
<1>16. CASE ResyncRestores
  BY <1>16, NoResyncWhenManual DEF ResyncRestores, NoWaitLostWithoutResync, NothingAside
<1>17. CASE ServerAcknowledges
  BY <1>17 DEF ServerAcknowledges, NoWaitLostWithoutResync, NoWaitLost, NothingAside,
     WaitsTyped
<1>18. CASE \E e \in Errors, fatal \in BOOLEAN : ErrorArrives(e, fatal)
  BY <1>18 DEF ErrorArrives, NoWaitLostWithoutResync, NoWaitLost, NothingAside,
     WaitsTyped
<1>19. CASE ActiveRefreshes
  BY <1>19 DEF ActiveRefreshes, NoWaitLostWithoutResync, NoWaitLost, NothingAside,
     WaitsTyped
<1> QED
  BY <1>3, <1>4, <1>5, <1>6, <1>7, <1>8, <1>9, <1>10, <1>11,
     <1>12, <1>13, <1>14, <1>15, <1>16, <1>17, <1>18, <1>19
  DEF Next, Binding, ErrorStep

\* What a step does to the work of handle_error.
LEMMA TodoSummary ==
  ASSUME SessionInv, Next
  PROVE  \/ UNCHANGED <<todo, resyncs>>
         \/ todo # <<>> /\ todo' \in {<<>>, Tail(todo)} /\ resyncs' = resyncs
         \/ At("resync") /\ todo' = Tail(todo) /\ resyncs' = resyncs + 1
         \/ \E e \in Errors, fatal \in BOOLEAN : ErrorArrives(e, fatal)
<1>1. TypeOK
  BY DEF SessionInv, SessionInOrder, WaitsKept, TypeOK
<1>2. config \in Configs /\ config' = config
  BY DEF SessionInv, Next
<1> USE <1>1, <1>2, ConfigTyped, ConfigKept
<1>3. CASE Revive \/ ResyncRevives
  <2>1. CASE Revive
    BY <2>1 DEF Revive, revive_if_needed
  <2>2. CASE ResyncRevives
    BY <2>2 DEF ResyncRevives, revive_if_needed, At
  <2> QED BY <1>3, <2>1, <2>2
<1>4. CASE refresh_access_token
  BY <1>4 DEF refresh_access_token, create_sync_session, EnterActive
<1>5. CASE log_out \/ StopAfterError
  BY <1>5 DEF log_out, StopAfterError, At
<1>6. CASE close
  BY <1>6 DEF close
<1>7. CASE nonsync_transact_notify
  BY <1>7 DEF nonsync_transact_notify
<1>8. CASE \E w \in Waits : wait_for_completion(w)
  BY <1>8 DEF wait_for_completion
<1>9. CASE \E a \in Addresses : override_server(a)
  BY <1>9 DEF override_server
<1>10. CASE Die
  BY <1>10 DEF Die, DeathHandlerRuns, EnterInactive, Call
<1>11. CASE Answer("upload") \/ Answer("download")
  BY <1>11 DEF Answer, WaitCompletes, Call
<1>12. CASE handle_error
  BY <1>12 DEF handle_error, At
<1>13. CASE access_token_expired
  BY <1>13 DEF access_token_expired, At
<1>14. CASE cancel_pending_waits
  BY <1>14 DEF cancel_pending_waits, At
<1>15. CASE ResyncBegins
  BY <1>15 DEF ResyncBegins
<1>16. CASE ResyncRestores
  BY <1>16 DEF ResyncRestores, At
<1>17. CASE ServerAcknowledges
  BY <1>17 DEF ServerAcknowledges
<1>18. CASE \E e \in Errors, fatal \in BOOLEAN : ErrorArrives(e, fatal)
  BY <1>18
<1>19. CASE ActiveRefreshes
  BY <1>19 DEF ActiveRefreshes
<1> QED
  BY <1>3, <1>4, <1>5, <1>6, <1>7, <1>8, <1>9, <1>10, <1>11,
     <1>12, <1>13, <1>14, <1>15, <1>16, <1>17, <1>18, <1>19
  DEF Next, Binding, ErrorStep

\* What handle_error still has to do stays in order.
LEMMA AheadStep ==
  ASSUME SessionInv, Next
  PROVE  (todo \in Seq(Steps) /\ StepsAhead)'
<1>1. TypeOK /\ StepsAhead
  BY DEF SessionInv, SessionInOrder
<1>2. config \in Configs /\ config' = config
  BY DEF SessionInv, Next
<1>3. todo \in Seq(Steps) /\ resyncs \in Nat /\ MaxResyncs \in Nat
  BY <1>1, <1>2, ConfigTyped DEF TypeOK, CountsTyped
<1> USE <1>1, <1>2, <1>3, ConfigKept
<1>4. CASE UNCHANGED <<todo, resyncs>>
  BY <1>4 DEF StepsAhead
<1>5. CASE todo # <<>> /\ todo' \in {<<>>, Tail(todo)} /\ resyncs' = resyncs
  <2>1. CASE todo' = <<>>
    BY <2>1 DEF StepsAhead
  <2>2. CASE todo' = Tail(todo)
    BY <1>5, <2>2, StepDone DEF StepsAhead
  <2> QED BY <1>5, <2>1, <2>2
<1>6. CASE At("resync") /\ todo' = Tail(todo) /\ resyncs' = resyncs + 1
  <2>1. todo # <<>> /\ todo[1] = "resync"
    BY <1>6, StepDone DEF At
  <2>2. \A i \in 1..Len(Tail(todo)) : Tail(todo)[i] # "resync"
    BY <2>1, StepDone DEF StepsAhead
  <2> QED BY <1>6, <2>1, <2>2, StepDone DEF StepsAhead
<1>7. CASE \E e \in Errors, fatal \in BOOLEAN : ErrorArrives(e, fatal)
  <2>1. PICK e \in Errors, fatal \in BOOLEAN : ErrorArrives(e, fatal)
    BY <1>7
  <2>2. /\ todo' \in Seq(Steps) /\ Len(todo') \in Nat
        /\ \A i \in 1..Len(todo') : todo'[i] = "resync" => i = 2 /\ e = "reset"
        /\ ResyncMode = "Manual" =>
             \A i \in 1..Len(todo') : todo'[i] \notin {"resync", "restore"}
    BY <2>1, ErrorSteps DEF ErrorArrives
  <2>3. resyncs' = resyncs /\ (e = "reset" => resyncs < MaxResyncs)
    BY <2>1 DEF ErrorArrives
  <2> QED BY <2>2, <2>3 DEF StepsAhead
<1> QED BY <1>4, <1>5, <1>6, <1>7, TodoSummary

\* Handlers from before a client resync stay on older sync::Sessions.
LEMMA HandlersStep ==
  ASSUME SessionInv, Next
  PROVE  /\ (ResyncSeparatesSessions /\ OldHandlersOnOldSessions)'
         /\ (RenewedIsOld /\ DeathHandlerCurrent)'
<1>1. /\ CountsTyped /\ WaitsTyped /\ StateOwnsSession /\ config \in Configs
      /\ ResyncSeparatesSessions /\ OldHandlersOnOldSessions
      /\ RenewedIsOld /\ DeathHandlerCurrent
  BY DEF SessionInv, SessionInOrder, TypeOK
<1>2. CountsTyped' /\ WaitsTyped'
  BY CountsStep, WaitsStep
<1>3. /\ session \in Nat /\ made \in Nat /\ resyncs \in Nat /\ deaths \in Nat
      /\ session <= made /\ renewed \in Nat /\ renewed <= made
      /\ \A r \in waiters : r.on \in 1..made /\ r.tag \in Nat
  BY <1>1, ConfigTyped DEF CountsTyped, WaitsTyped
<1>4. OldHandlersOnOldSessions'
  BY <1>1, <1>3, StepSummary DEF OldHandlersOnOldSessions
<1>5. ResyncSeparatesSessions'
  BY <1>1, <1>3, StepSummary DEF OldHandlersOnOldSessions, ResyncSeparatesSessions
<1>6. DeathHandlerCurrent'
  BY <1>1, <1>3, StepSummary DEF DeathHandlerCurrent
<1>7. RenewedIsOld'
  BY <1>1, <1>3, StepSummary DEF RenewedIsOld, OldHandlersOnOldSessions
<1> QED BY <1>4, <1>5, <1>6, <1>7

\* The flags stay flags.
LEMMA FlagsStep ==
  ASSUME SessionInv, Next PROVE (deferredClose \in BOOLEAN /\ connected \in BOOLEAN)'
<1>1. deferredClose \in BOOLEAN /\ connected \in BOOLEAN
  BY DEF SessionInv, SessionInOrder, TypeOK
<1> QED
  BY <1>1, Zenon DEF Next, Binding, Revive, ResyncRevives, revive_if_needed,
     WaitingRevives,
     DyingRevives, InactiveRevives, refresh_access_token, ActiveRefreshes, log_out,
     close, WaitingCloses,
     ActiveCloses, CloseNow, nonsync_transact_notify, wait_for_completion,
     override_server,
     Die, DeathHandlerRuns, Answer, WaitCompletes, ErrorStep, handle_error,
     access_token_expired, cancel_pending_waits, StopAfterError, ResyncBegins,
     ResyncRestores, ServerAcknowledges, ErrorArrives

-----------------------------------------------------------------------------
(* The theorems                                                            *)

\* SessionInv is kept by every step.
LEMMA SessionInvStep == SessionInv /\ [Next]_vars => SessionInv'
<1>1. ASSUME SessionInv, Next PROVE SessionInv'
  <2>1. config' \in Configs
    BY <1>1 DEF SessionInv, Next
  <2>2. TypeOK'
    BY <1>1, CountsStep, WaitsStep, StateStep, AheadStep, FlagsStep, Zenon DEF
       TypeOK
  <2> QED
    BY <1>1, <2>1, <2>2, StateStep, HandlersStep, ArmedStep, LostStep, AheadStep
    DEF SessionInv, SessionInOrder, WaitsKept
<1>2. ASSUME SessionInv, UNCHANGED vars PROVE SessionInv'
  <2>1. config \in Configs /\ UNCHANGED config
    BY <1>2 DEF SessionInv, vars
  <2>2. TypeOK'
    BY <1>2, <2>1, ConfigKept DEF SessionInv, SessionInOrder, TypeOK, CountsTyped,
       WaitsTyped, vars
  <2> QED
    BY <1>2, <2>1, <2>2, ConfigKept
    DEF SessionInv, SessionInOrder, WaitsKept, StateOwnsSession, OverrideReachesSession,
     ResyncSeparatesSessions, NoWaitLostWithoutResync, NoWaitLost, WaitIsArmed,
     DeferredIsNewer, OldHandlersOnOldSessions, RenewedIsOld,
     DeathHandlerCurrent, StepsAhead, NothingAside, vars
<1> QED BY <1>1, <1>2

\* The inductive invariant holds.
THEOREM SessionInvariant == Spec => []SessionInv
BY InitSessionInv, SessionInvStep, PTL DEF Spec

\* A session keeps its types, its state agrees with the sync::Session it owns, which
\* uses the server that override_server named last, and a client resync separates
\* the sync::Sessions (m_client_resync_counter in add_completion_callback).
THEOREM SessionStaysInOrder == Spec => []SessionInOrder
<1>1. SessionInv => SessionInOrder
  BY DEF SessionInv
<1> QED BY <1>1, SessionInvariant, PTL

\* Without a client resync every wait is answered exactly once, and has a handler on
\* the current sync::Session while there is one (wait_for_upload_completion,
\* wait_for_download_completion, Active::enter_state).
THEOREM NoWaitIsLost == Spec => []WaitsKept
<1>1. SessionInv => WaitsKept
  BY DEF SessionInv
<1> QED BY <1>1, SessionInvariant, PTL

\* A commit that nonsync_transact_notify had to defer is known to the sync::Session
\* as soon as refresh_access_token has made it active.
THEOREM DeferredCommitIsAnnounced == Spec => DeferredCommitReachesSession
<1>1. SessionInv /\ [Next]_vars =>
        [state = "waiting" /\ state' \in {"active", "dying"} /\ deferredCommit # 0
           => announced' >= deferredCommit]_vars
  <2> SUFFICES ASSUME SessionInv, Next, state = "waiting", state' \in {"active", "dying"},
                      deferredCommit # 0
               PROVE  announced' >= deferredCommit
    OBVIOUS
  <2>1. CountsTyped /\ config \in Configs
    BY DEF SessionInv, SessionInOrder, TypeOK
  <2>2. refresh_access_token
    BY DEF Next, Binding, Revive, ResyncRevives, revive_if_needed, WaitingRevives,
     DyingRevives, InactiveRevives, ActiveRefreshes, log_out, close,
     WaitingCloses, ActiveCloses, CloseNow, nonsync_transact_notify, wait_for_completion,
     override_server,
     Die, DeathHandlerRuns, Answer, WaitCompletes, ErrorStep, handle_error,
     access_token_expired, cancel_pending_waits, StopAfterError, ResyncBegins,
     ResyncRestores, ServerAcknowledges, ErrorArrives, EnterInactive
  <2> QED BY <2>1, <2>2, ConfigTyped DEF refresh_access_token, CountsTyped
<1> QED BY <1>1, SessionInvariant, PTL DEF Spec, DeferredCommitReachesSession

\* Dying::enter_state ends the session only when all that was announced is uploaded:
\* the death count keeps the handlers of earlier deaths from ending it.
THEOREM DyingWaitsForUpload == Spec => DeathAfterUpload
<1>1. SessionInv /\ [Next]_vars =>
        [state = "dying" /\ state' = "inactive" /\ waiters' # waiters
           => uploaded >= announced]_vars
  <2> SUFFICES ASSUME SessionInv, Next, state = "dying", state' = "inactive",
                      waiters' # waiters
               PROVE  uploaded >= announced
    OBVIOUS
  <2>1. CountsTyped /\ WaitsTyped /\ config \in Configs /\ DeathHandlerCurrent
    BY DEF SessionInv, SessionInOrder, TypeOK
  <2>2. PICK r \in waiters : DeathHandlerRuns(r)
    BY DEF Next, Binding, Revive, ResyncRevives, revive_if_needed, WaitingRevives,
     DyingRevives, InactiveRevives, refresh_access_token, ActiveRefreshes, log_out,
     close, WaitingCloses,
     ActiveCloses, CloseNow, nonsync_transact_notify, wait_for_completion,
     override_server,
     Die, Answer, WaitCompletes, ErrorStep, handle_error,
     access_token_expired, cancel_pending_waits, StopAfterError, ResyncBegins,
     ResyncRestores, ServerAcknowledges, ErrorArrives, EnterInactive
  <2>3. DiesNow(r) /\ r.for = "death"
    BY <2>2 DEF DeathHandlerRuns
  <2>4. r.on = session /\ r.upto = announced
    BY <2>1, <2>3 DEF DiesNow, DeathHandlerCurrent
  <2> QED BY <2>2, <2>3, <2>4 DEF DeathHandlerRuns, MayComplete
<1> QED BY <1>1, SessionInvariant, PTL DEF Spec, DeathAfterUpload

\* A handler is only gone once it has run.
LEMMA OnlyHandlersLeave ==
  ASSUME Next, NEW r \in waiters \ waiters'
  PROVE  Die \/ Answer("upload") \/ Answer("download")
BY DEF Next, Binding, Revive, ResyncRevives, revive_if_needed, WaitingRevives,
   DyingRevives, InactiveRevives, EnterActive, refresh_access_token, ActiveRefreshes,
   log_out, close, WaitingCloses, ActiveCloses, CloseNow, nonsync_transact_notify,
   wait_for_completion, override_server, ErrorStep, handle_error,
   access_token_expired, cancel_pending_waits, StopAfterError, ResyncBegins,
   ResyncRestores, ServerAcknowledges, ErrorArrives

\* A client resync is transparent to whoever waits: the handlers left on the
\* sync::Sessions from before it find m_client_resync_counter changed
\* (add_completion_callback) and call nobody.
THEOREM OldSessionsStaySilent == Spec => OldSessionsAnswerNobody
<1>1. SessionInv /\ [Next]_vars =>
        [\A r \in waiters \ waiters' :
           r.for \in Directions /\ r.on <= renewed => outcome' = outcome]_vars
  <2> SUFFICES ASSUME SessionInv, Next, NEW r \in waiters \ waiters',
                      r.for \in Directions, r.on <= renewed
               PROVE  outcome' = outcome
    OBVIOUS
  <2>1. RenewedIsOld /\ WaitsTyped /\ CountsTyped /\ config \in Configs
    BY DEF SessionInv, SessionInOrder, TypeOK
  <2>2. ~Die
    BY DEF Die, DeathHandlerRuns
  <2>3. \E q \in waiters, result \in {"done", "aborted"} : WaitCompletes(q, result)
    BY <2>2, OnlyHandlersLeave DEF Answer
  <2>4. PICK result \in {"done", "aborted"} : WaitCompletes(r, result)
    BY <2>3 DEF WaitCompletes
  <2>5. r.tag # resyncs
    BY <2>1, ConfigTyped DEF RenewedIsOld, CountsTyped, WaitsTyped
  <2>6. outcome' = [w \in Waits |-> outcome[w]]
    BY <2>4, <2>5 DEF WaitCompletes, Call
  <2> QED BY <2>1, <2>6 DEF WaitsTyped
<1> QED BY <1>1, SessionInvariant, PTL DEF Spec, OldSessionsAnswerNobody

-----------------------------------------------------------------------------
(* The progress callbacks                                                  *)

Reports == [uploadable : Nat, downloadable : Nat, uploaded : Nat, downloaded : Nat,
            snapshot : Nat, download_version : Nat]
Packages == [captured : Nat, snapshot : Nat, streaming : BOOLEAN, download : BOOLEAN]
Invocations == [token : ProgressTokens, done : Nat, goal : Nat]

\* What the client reports: each transaction it has seen is a byte to upload.
Reported(r) ==
  /\ r \in Reports
  /\ r.uploadable = r.snapshot /\ r.snapshot <= MaxCommits /\ r.downloadable <= MaxDown

ProgressTyped ==
  /\ version \in 0 .. MaxCommits /\ local \in Nat
  /\ Reported(client) /\ client.snapshot <= version
  /\ current = NoProgress \/ Reported(current)
  /\ progress_token \in 1 .. MaxRegistered + 1
  /\ asked \in Seq([package : Packages, unregistered : BOOLEAN])
  /\ Len(asked) = progress_token - 1
  /\ DOMAIN packages \subseteq DOMAIN asked
  /\ \A t \in DOMAIN packages : packages[t] \in Packages
  /\ invocations \subseteq Invocations /\ own \subseteq Invocations
  /\ told \in [ProgressTokens -> [goals : SUBSET Nat, reached : Nat]]

\* A package is what was asked for, but for the number to reach.
PackagesAsAsked ==
  \A t \in DOMAIN packages :
    /\ packages[t].streaming = asked[t].package.streaming
    /\ packages[t].download = asked[t].package.download
    /\ packages[t].snapshot = asked[t].package.snapshot
    /\ ~asked[t].unregistered

\* the callback was told to reach g, or a call is under way that will
HasGoal(t, g) ==
  g \in told[t].goals \/ \E i \in invocations \cup own : i.token = t /\ i.goal = g

\* No number is given before it is captured, and none but that one.
GoalIsCaptured ==
  \A t \in DOMAIN packages : ~packages[t].streaming =>
    /\ \A g \in Nat : HasGoal(t, g) => packages[t].captured = g /\ g # NoCapture
    /\ packages[t].captured # NoCapture /\ ~packages[t].download =>
         packages[t].captured >= packages[t].snapshot

OneGoal ==
  \A t \in DOMAIN asked : ~asked[t].package.streaming =>
    /\ \A g, h \in Nat : HasGoal(t, g) /\ HasGoal(t, h) => g = h
    /\ ~asked[t].package.download =>
         \A g \in Nat : HasGoal(t, g) => g >= asked[t].package.snapshot

\* Nobody is called who has not registered yet.
NoneYet ==
  \A t \in ProgressTokens \ DOMAIN asked :
    /\ told[t] = [goals |-> {}, reached |-> 0]
    /\ \A i \in invocations \cup own : i.token # t

IsFinal(i, t) == i.token = t /\ i.done >= i.goal

\* The call that tells t that the number is reached: there is none, or one, which is
\* made already, or with the client's thread, or with the one that registered.
NoneFinal(t) ==
  told[t].reached = 0 /\ \A i \in invocations \cup own : ~IsFinal(i, t)
OneFinal(t) ==
  \/ told[t].reached = 1 /\ \A i \in invocations \cup own : ~IsFinal(i, t)
  \/ /\ told[t].reached = 0 /\ \A i \in own : ~IsFinal(i, t)
     /\ \E i \in invocations : IsFinal(i, t) /\ \A j \in invocations : IsFinal(j, t) => j = i
  \/ /\ told[t].reached = 0 /\ \A i \in invocations : ~IsFinal(i, t)
     /\ \E i \in own : IsFinal(i, t) /\ \A j \in own : IsFinal(j, t) => j = i

\* Whoever is no longer kept, and did not leave, has that call.
ToldAtTheEnd ==
  \A t \in DOMAIN asked : ~asked[t].package.streaming =>
    IF t \in DOMAIN packages \/ asked[t].unregistered THEN NoneFinal(t) ELSE OneFinal(t)

\* The inductive invariant of the progress callbacks.
ProgressInv ==
  /\ ProgressTyped /\ PackagesAsAsked /\ GoalIsCaptured /\ OneGoal /\ NoneYet
  /\ ToldAtTheEnd

-----------------------------------------------------------------------------
(* create_invocation                                                       *)

LEMMA ReportsInNumbers ==
  ASSUME ProgressAssumption, NEW p \in Packages, NEW r, Reported(r)
  PROVE  /\ Transferred(p, r) \in Nat /\ Transferrable(p, r) \in Nat
         /\ Transferrable(p, r) # NoCapture
         /\ NoCapture \in Nat
BY DEF ProgressAssumption, Packages, Reported, Reports, Transferred, Transferrable,
   NoCapture

\* What Captures does to a package, and what it leaves alone.
LEMMA CapturedOnce ==
  ASSUME ProgressAssumption, NEW p \in Packages, NEW r, Reported(r)
  PROVE  LET q == Captures(p, r)
         IN /\ q \in Packages
            /\ q.streaming = p.streaming /\ q.download = p.download
            /\ q.snapshot = p.snapshot
            /\ p.captured # NoCapture => q.captured = p.captured
            /\ p.captured = NoCapture /\ q.captured # NoCapture /\ ~p.download =>
                 q.captured >= p.snapshot
<1>1. Transferrable(p, r) \in Nat /\ Transferrable(p, r) # NoCapture
  BY ReportsInNumbers
<1>2. p \in [captured : Nat, snapshot : Nat, streaming : BOOLEAN, download : BOOLEAN]
  BY DEF Packages
<1>3. CASE p.streaming \/ p.captured # NoCapture
           \/ (~p.download /\ p.snapshot > r.snapshot)
  BY <1>2, <1>3 DEF Captures, Packages
<1>4. CASE ~(p.streaming \/ p.captured # NoCapture
             \/ (~p.download /\ p.snapshot > r.snapshot))
  <2>1. Captures(p, r) = [p EXCEPT !.captured = Transferrable(p, r)]
    BY <1>4 DEF Captures
  <2>2. ~p.download => Transferrable(p, r) >= p.snapshot
    BY <1>2, <1>4 DEF Transferrable, Reported, Reports
  <2> QED BY <1>1, <1>2, <1>4, <2>1, <2>2 DEF Packages
<1> QED BY <1>3, <1>4

\* The call made for a package.
LEMMA InvocationTyped ==
  ASSUME ProgressAssumption, NEW t \in ProgressTokens, NEW p \in Packages, NEW r, Reported(r)
  PROVE  /\ Invocation(t, p, r) \in Invocations
         /\ Invocation(t, p, r).token = t
         /\ ~p.streaming => Invocation(t, p, r).goal = p.captured
         /\ ~p.streaming /\ Called(p) =>
              (IsExpired(p, r) <=> IsFinal(Invocation(t, p, r), t))
<1>1. p.captured \in Nat /\ p.streaming \in BOOLEAN
  BY DEF Packages
<1> QED
  BY <1>1, ReportsInNumbers DEF Invocation, Invocations, Goal, Called, IsExpired, IsFinal

-----------------------------------------------------------------------------
(* Every step keeps the invariant                                          *)

LEMMA InitProgressInv ==
  ASSUME ProgressAssumption, ProgressInit
  PROVE  ProgressInv
<1>1. ProgressTyped
  BY DEF ProgressAssumption, ProgressInit, ProgressTyped, Reported, Reports, Zero
<1> QED
  BY <1>1 DEF ProgressInit, ProgressInv, PackagesAsAsked, GoalIsCaptured, OneGoal,
     NoneYet, ToldAtTheEnd

\* The client's work and the local transactions do not touch the callbacks.
LEMMA ClientKeepsInv ==
  ASSUME ProgressAssumption, ProgressInv, Commit \/ set_local_version \/ ClientWorks
  PROVE  ProgressInv'
<1>1. UNCHANGED <<current, packages, progress_token, invocations, own, told, asked>>
  BY DEF Commit, set_local_version, ClientWorks
<1>2. /\ version' \in 0 .. MaxCommits /\ local' \in Nat
      /\ Reported(client') /\ client'.snapshot <= version'
  <2>1. CASE Commit
    BY <2>1 DEF Commit, ProgressInv, ProgressTyped, ProgressAssumption, Reported, Reports
  <2>2. CASE set_local_version
    BY <2>2 DEF set_local_version, ProgressInv, ProgressTyped, ProgressAssumption
  <2>3. CASE ClientWorks
    <3> DEFINE c == client
    <3>1. /\ c \in Reports /\ c.uploadable = c.snapshot /\ c.snapshot <= version
          /\ version \in 0 .. MaxCommits /\ local \in Nat
          /\ c.downloadable <= MaxDown /\ c.snapshot <= MaxCommits
          /\ MaxCommits \in Nat /\ MaxDown \in Nat
      BY DEF ProgressInv, ProgressTyped, ProgressAssumption, Reported
    <3>2. UNCHANGED <<version, local>>
      BY <2>3 DEF ClientWorks
    <3>3. /\ c.uploadable \in Nat /\ c.downloadable \in Nat /\ c.uploaded \in Nat
          /\ c.downloaded \in Nat /\ c.snapshot \in Nat /\ c.download_version \in Nat
      BY <3>1 DEF Reports
    <3>4. /\ client' \in Reports
          /\ client'.uploadable = client'.snapshot /\ client'.snapshot <= version
          /\ client'.downloadable <= MaxDown
      <4>1. CASE c.snapshot < version /\
                 client' = [c EXCEPT !.snapshot = @ + 1, !.uploadable = @ + 1]
        <5> DEFINE d == [c EXCEPT !.snapshot = c.snapshot + 1]
        <5>1. /\ d \in Reports
              /\ d.snapshot = c.snapshot + 1 /\ d.uploadable = c.uploadable
              /\ d.downloadable = c.downloadable
          BY <3>1, <3>3 DEF Reports
        <5>2. client' = [d EXCEPT !.uploadable = d.uploadable + 1]
          BY <3>1, <3>3, <4>1 DEF Reports
        <5> HIDE DEF d
        <5>3. d.uploadable + 1 \in Nat
          BY <3>3, <5>1
        <5>4. /\ client' \in Reports
              /\ client'.snapshot = d.snapshot /\ client'.uploadable = d.uploadable + 1
              /\ client'.downloadable = d.downloadable
          BY <5>1, <5>2, <5>3 DEF Reports
        <5> QED BY <3>1, <3>3, <4>1, <5>1, <5>4
      <4>2. CASE client' = [c EXCEPT !.uploaded = @ + 1]
        BY <3>1, <3>3, <4>2 DEF Reports
      <4>3. CASE client' = [c EXCEPT !.download_version = 1]
        BY <3>1, <3>3, <4>3 DEF Reports
      <4>4. CASE c.downloadable < MaxDown /\ client' = [c EXCEPT !.downloadable = @ + 1]
        BY <3>1, <3>3, <4>4 DEF Reports
      <4>5. CASE client' = [c EXCEPT !.downloaded = @ + 1]
        BY <3>1, <3>3, <4>5 DEF Reports
      <4>6. CASE c.downloadable > c.downloaded /\
                 client' = [c EXCEPT !.downloadable = @ - 1, !.download_version = @ + 1]
        <5> DEFINE d == [c EXCEPT !.downloadable = c.downloadable - 1]
        <5>1. /\ d \in Reports
              /\ d.snapshot = c.snapshot /\ d.uploadable = c.uploadable
              /\ d.downloadable = c.downloadable - 1
              /\ d.download_version = c.download_version
          BY <3>1, <3>3, <4>6 DEF Reports
        <5>2. client' = [d EXCEPT !.download_version = d.download_version + 1]
          BY <3>1, <3>3, <4>6 DEF Reports
        <5> HIDE DEF d
        <5>3. d.download_version + 1 \in Nat
          BY <3>3, <5>1
        <5>4. /\ client' \in Reports
              /\ client'.snapshot = d.snapshot /\ client'.uploadable = d.uploadable
              /\ client'.downloadable = d.downloadable
          BY <5>1, <5>2, <5>3 DEF Reports
        <5> QED BY <3>1, <3>3, <4>6, <5>1, <5>4
      <4> QED BY <2>3, <4>1, <4>2, <4>3, <4>4, <4>5, <4>6 DEF ClientWorks
    <3>5. client'.snapshot <= MaxCommits
      BY <3>1, <3>4 DEF Reports
    <3> QED BY <3>1, <3>2, <3>4, <3>5 DEF Reported
  <2> QED BY <2>1, <2>2, <2>3
<1>3. ProgressTyped'
  BY <1>1, <1>2 DEF ProgressInv, ProgressTyped, Reported
<1> QED
  BY <1>1, <1>3 DEF ProgressInv, PackagesAsAsked, GoalIsCaptured, OneGoal, NoneYet,
     ToldAtTheEnd, HasGoal, NoneFinal, OneFinal

LEMMA UnregisterKeepsInv ==
  ASSUME ProgressAssumption, ProgressInv, NEW t \in ProgressTokens, unregister_callback(t)
  PROVE  ProgressInv'
<1>1. UNCHANGED <<version, local, client, current, progress_token, invocations, own, told>>
  BY DEF unregister_callback
<1>2. /\ DOMAIN packages' = DOMAIN packages \ {t}
      /\ \A u \in DOMAIN packages' : packages'[u] = packages[u]
      /\ t \in DOMAIN packages /\ t \in DOMAIN asked
  BY DEF unregister_callback, ProgressInv, ProgressTyped
<1>3. /\ asked' \in Seq([package : Packages, unregistered : BOOLEAN])
      /\ Len(asked') = Len(asked) /\ DOMAIN asked' = DOMAIN asked
      /\ asked'[t].unregistered
      /\ \A u \in DOMAIN asked : asked'[u].package = asked[u].package
      /\ \A u \in DOMAIN asked : u # t => asked'[u] = asked[u]
  <2> DEFINE R == [package : Packages, unregistered : BOOLEAN]
  <2>1. asked \in Seq(R) /\ t \in 1 .. Len(asked) /\ Len(asked) \in Nat
    BY <1>2 DEF ProgressInv, ProgressTyped
  <2>2. /\ asked[t] \in R
        /\ asked' = [asked EXCEPT ![t] = [asked[t] EXCEPT !.unregistered = TRUE]]
    <3>1. asked[t] \in R
      <4> HIDE DEF R
      <4> QED BY <2>1
    <3> QED BY <3>1 DEF unregister_callback
  <2>3. /\ [asked[t] EXCEPT !.unregistered = TRUE] \in R
        /\ [asked[t] EXCEPT !.unregistered = TRUE].package = asked[t].package
        /\ [asked[t] EXCEPT !.unregistered = TRUE].unregistered
    BY <2>2
  <2> HIDE DEF R
  <2>4. asked' \in Seq(R) /\ Len(asked') = Len(asked) /\ DOMAIN asked' = DOMAIN asked
    BY <2>1, <2>2, <2>3
  <2>5. \A u \in DOMAIN asked :
          asked'[u] = IF u = t THEN [asked[t] EXCEPT !.unregistered = TRUE] ELSE asked[u]
    BY <2>1, <2>2
  <2> QED BY <1>2, <2>3, <2>4, <2>5 DEF R
<1>4. ProgressTyped'
  BY <1>1, <1>2, <1>3 DEF ProgressInv, ProgressTyped, Reported
<1>5. PackagesAsAsked'
  BY <1>2, <1>3 DEF ProgressInv, ProgressTyped, PackagesAsAsked
<1>6. GoalIsCaptured' /\ OneGoal' /\ NoneYet'
  <2>1. \A u, g : HasGoal(u, g)' <=> HasGoal(u, g)
    BY <1>1 DEF HasGoal
  <2>2. GoalIsCaptured'
    BY <1>2, <2>1 DEF ProgressInv, GoalIsCaptured
  <2>3. OneGoal'
    BY <1>3, <2>1 DEF ProgressInv, OneGoal
  <2> QED BY <1>1, <1>3, <2>2, <2>3 DEF ProgressInv, NoneYet
<1>7. ToldAtTheEnd'
  BY <1>1, <1>2, <1>3 DEF ProgressInv, ToldAtTheEnd, NoneFinal, OneFinal
<1> QED BY <1>4, <1>5, <1>6, <1>7 DEF ProgressInv

\* A call that is made takes its number with it, and its being the last one.
LEMMA InvokeKeepsInv ==
  ASSUME ProgressAssumption, ProgressInv, NEW i \in invocations \cup own, Invoke(i)
  PROVE  ProgressInv'
<1>1. UNCHANGED <<version, local, client, current, packages, progress_token, asked>>
  BY DEF Invoke
<1>2. \/ i \in invocations /\ invocations' = invocations \ {i} /\ own' = own
      \/ i \notin invocations /\ i \in own /\ own' = own \ {i} /\ invocations' = invocations
  BY DEF Invoke
<1>3. i \in Invocations /\ i.token \in ProgressTokens /\ i.done \in Nat /\ i.goal \in Nat
  BY DEF ProgressInv, ProgressTyped, Invocations
<1>4. /\ told' \in [ProgressTokens -> [goals : SUBSET Nat, reached : Nat]]
      /\ \A u \in ProgressTokens : u # i.token => told'[u] = told[u]
      /\ told'[i.token].goals = told[i.token].goals \cup {i.goal}
      /\ told'[i.token].reached = IF i.done >= i.goal THEN told[i.token].reached + 1
                                                     ELSE told[i.token].reached
  <2> DEFINE T == [goals : SUBSET Nat, reached : Nat]
             r == told[i.token]
             v == [r EXCEPT !.goals = r.goals \cup {i.goal}]
             n == IF i.done >= i.goal THEN v.reached + 1 ELSE v.reached
             w == [v EXCEPT !.reached = n]
             half == [told EXCEPT ![i.token] = v]
  <2>1. told \in [ProgressTokens -> T] /\ r \in T
    BY <1>3 DEF ProgressInv, ProgressTyped
  <2>2. v \in T /\ v.goals = r.goals \cup {i.goal} /\ v.reached = r.reached
    BY <1>3, <2>1
  <2>3. n \in Nat
    BY <2>2
  <2>4. w \in T /\ w.goals = v.goals /\ w.reached = n
    <3> HIDE DEF v, n
    <3> QED BY <2>2, <2>3
  <2>5. half[i.token] = v
    BY <1>3, <2>1
  <2>6. told' = [half EXCEPT ![i.token] = w]
    <3>1. told' = [half EXCEPT ![i.token] = [half[i.token] EXCEPT !.reached =
                     IF i.done >= i.goal THEN half[i.token].reached + 1
                                         ELSE half[i.token].reached]]
      BY DEF Invoke
    <3> QED BY <2>5, <3>1
  <2>7. half \in [ProgressTokens -> T] /\ \A u \in ProgressTokens : u # i.token => half[u] = told[u]
    <3> HIDE DEF T, v
    <3> QED BY <1>3, <2>1, <2>2
  <2>8. /\ told' \in [ProgressTokens -> T] /\ told'[i.token] = w
        /\ \A u \in ProgressTokens : u # i.token => told'[u] = told[u]
    <3> HIDE DEF T, w, half
    <3> QED BY <1>3, <2>4, <2>6, <2>7
  <2> QED BY <2>2, <2>4, <2>8
<1>5. ProgressTyped'
  BY <1>1, <1>2, <1>4 DEF ProgressInv, ProgressTyped, Reported
<1>6. DOMAIN asked \subseteq ProgressTokens /\ i.token \in DOMAIN asked
  BY <1>3 DEF ProgressInv, ProgressTyped, ProgressAssumption, NoneYet, ProgressTokens
<1>7. \A u \in ProgressTokens, g \in Nat : HasGoal(u, g)' => HasGoal(u, g)
  BY <1>2, <1>3, <1>4 DEF HasGoal
<1>8. PackagesAsAsked' /\ GoalIsCaptured' /\ OneGoal'
  <2>1. PackagesAsAsked'
    BY <1>1 DEF ProgressInv, PackagesAsAsked
  <2>2. GoalIsCaptured'
    BY <1>1, <1>6, <1>7 DEF ProgressInv, ProgressTyped, GoalIsCaptured
  <2>3. OneGoal'
    BY <1>1, <1>6, <1>7 DEF ProgressInv, OneGoal
  <2> QED BY <2>1, <2>2, <2>3
<1>9. NoneYet'
  BY <1>1, <1>2, <1>4, <1>6 DEF ProgressInv, NoneYet
<1>10. ToldAtTheEnd'
  <2> SUFFICES ASSUME NEW t \in DOMAIN asked, ~asked[t].package.streaming
               PROVE  IF t \in DOMAIN packages \/ asked[t].unregistered
                      THEN NoneFinal(t)' ELSE OneFinal(t)'
    BY <1>1 DEF ToldAtTheEnd
  <2>1. IF t \in DOMAIN packages \/ asked[t].unregistered
        THEN NoneFinal(t) ELSE OneFinal(t)
    BY DEF ProgressInv, ToldAtTheEnd
  <2>2. CASE ~IsFinal(i, t)
    <3>1. told'[t].reached = told[t].reached
      BY <1>4, <1>6, <2>2 DEF IsFinal
    <3>2. /\ \A j \in invocations : IsFinal(j, t) => j \in invocations'
          /\ \A j \in own : IsFinal(j, t) => j \in own'
          /\ invocations' \subseteq invocations /\ own' \subseteq own
      BY <1>2, <2>2
    <3> QED BY <2>1, <3>1, <3>2 DEF NoneFinal, OneFinal
  <2>3. CASE IsFinal(i, t)
    <3>1. told'[t].reached = told[t].reached + 1
      BY <1>4, <1>6, <2>3 DEF IsFinal
    <3>2. OneFinal(t) /\ ~(t \in DOMAIN packages \/ asked[t].unregistered)
      BY <2>1, <2>3 DEF NoneFinal
    <3>3. told[t].reached = 0 /\ \A j \in invocations' \cup own' : ~IsFinal(j, t)
      BY <1>2, <2>3, <3>2 DEF OneFinal
    <3> QED BY <3>1, <3>2, <3>3 DEF OneFinal
  <2> QED BY <2>2, <2>3
<1> QED BY <1>5, <1>8, <1>9, <1>10 DEF ProgressInv

\* update() gives every package its call, and drops those whose number is reached.
LEMMA UpdateKeepsInv ==
  ASSUME ProgressAssumption, ProgressInv, update
  PROVE  ProgressInv'
<1> DEFINE seen == [t \in DOMAIN packages |-> Captures(packages[t], client)]
<1>1. /\ UNCHANGED <<version, local, client, progress_token, own, told, asked>>
      /\ invocations = {} /\ current' = client
      /\ invocations' = {Invocation(t, seen[t], client) :
                       t \in {u \in DOMAIN seen : Called(seen[u])}}
      /\ packages' = [t \in {u \in DOMAIN seen : ~IsExpired(seen[u], client)} |-> seen[t]]
  BY DEF update
<1>2. /\ \A t \in DOMAIN packages : packages[t] \in Packages
      /\ Reported(client) /\ DOMAIN packages \subseteq DOMAIN asked
      /\ DOMAIN asked \subseteq ProgressTokens
  BY DEF ProgressInv, ProgressTyped, ProgressAssumption, ProgressTokens
<1>3. \A t \in DOMAIN packages :
        /\ seen[t] \in Packages
        /\ seen[t].streaming = packages[t].streaming
        /\ seen[t].download = packages[t].download
        /\ seen[t].snapshot = packages[t].snapshot
        /\ packages[t].captured # NoCapture => seen[t].captured = packages[t].captured
        /\ /\ packages[t].captured = NoCapture /\ seen[t].captured # NoCapture
           /\ ~packages[t].download
           => seen[t].captured >= packages[t].snapshot
  BY <1>2, CapturedOnce
<1>4. DOMAIN seen = DOMAIN packages
  OBVIOUS
<1> HIDE DEF seen
<1>5. /\ DOMAIN packages' \subseteq DOMAIN packages
      /\ \A t \in DOMAIN packages' : packages'[t] = seen[t]
      /\ \A t \in DOMAIN packages : t \in DOMAIN packages' <=> ~IsExpired(seen[t], client)
  BY <1>1, <1>4
<1>6. \A j \in invocations' : \E t \in DOMAIN packages :
        Called(seen[t]) /\ j = Invocation(t, seen[t], client)
  BY <1>1, <1>4
<1>7. \A t \in DOMAIN packages : Called(seen[t]) => Invocation(t, seen[t], client) \in invocations'
  BY <1>1, <1>4
<1>8. \A t \in DOMAIN packages :
        /\ Invocation(t, seen[t], client) \in Invocations
        /\ Invocation(t, seen[t], client).token = t
        /\ ~seen[t].streaming =>
             /\ Invocation(t, seen[t], client).goal = seen[t].captured
             /\ Called(seen[t]) =>
                  (IsExpired(seen[t], client) <=> IsFinal(Invocation(t, seen[t], client), t))
  BY <1>2, <1>3, InvocationTyped
<1>9. \A j \in invocations' :
        /\ j \in Invocations /\ j.token \in DOMAIN packages /\ Called(seen[j.token])
        /\ j = Invocation(j.token, seen[j.token], client)
        /\ ~seen[j.token].streaming => j.goal = seen[j.token].captured
  BY <1>6, <1>8
<1>10. ProgressTyped'
  BY <1>1, <1>2, <1>3, <1>5, <1>9 DEF ProgressInv, ProgressTyped, Reported
<1>11. PackagesAsAsked'
  BY <1>1, <1>3, <1>5 DEF ProgressInv, PackagesAsAsked
<1>12. \A t \in DOMAIN asked, g \in Nat : HasGoal(t, g)' =>
         \/ HasGoal(t, g)
         \/ /\ t \in DOMAIN packages /\ Called(seen[t])
            /\ ~seen[t].streaming => g = seen[t].captured
  BY <1>1, <1>9 DEF HasGoal
<1>13. \A t \in DOMAIN packages : ~packages[t].streaming =>
         /\ \A g \in Nat : HasGoal(t, g)' => seen[t].captured = g /\ g # NoCapture
         /\ seen[t].captured # NoCapture /\ ~packages[t].download =>
              seen[t].captured >= packages[t].snapshot
  BY <1>2, <1>3, <1>12 DEF ProgressInv, GoalIsCaptured, Called
<1>14. GoalIsCaptured'
  BY <1>3, <1>5, <1>13 DEF GoalIsCaptured
<1>15. OneGoal'
  <2> SUFFICES ASSUME NEW t \in DOMAIN asked, ~asked[t].package.streaming
               PROVE  /\ \A g, h \in Nat : HasGoal(t, g)' /\ HasGoal(t, h)' => g = h
                      /\ ~asked[t].package.download =>
                           \A g \in Nat : HasGoal(t, g)' => g >= asked[t].package.snapshot
    BY <1>1 DEF OneGoal
  <2>1. CASE t \in DOMAIN packages
    BY <1>13, <2>1 DEF ProgressInv, PackagesAsAsked
  <2>2. CASE t \notin DOMAIN packages
    BY <1>12, <2>2 DEF ProgressInv, OneGoal
  <2> QED BY <2>1, <2>2
<1>16. NoneYet'
  BY <1>1, <1>2, <1>9 DEF ProgressInv, NoneYet
<1>17. ToldAtTheEnd'
  <2> SUFFICES ASSUME NEW t \in DOMAIN asked, ~asked[t].package.streaming
               PROVE  IF t \in DOMAIN packages' \/ asked[t].unregistered
                      THEN NoneFinal(t)' ELSE OneFinal(t)'
    BY <1>1 DEF ToldAtTheEnd
  <2>1. IF t \in DOMAIN packages \/ asked[t].unregistered
        THEN NoneFinal(t) ELSE OneFinal(t)
    BY DEF ProgressInv, ToldAtTheEnd
  <2>2. CASE t \notin DOMAIN packages
    <3>1. \A j \in invocations' : ~IsFinal(j, t)
      BY <1>9, <2>2 DEF IsFinal
    <3> QED BY <1>1, <1>5, <2>1, <2>2, <3>1 DEF NoneFinal, OneFinal
  <2>3. CASE t \in DOMAIN packages
    <3>1. ~seen[t].streaming /\ ~asked[t].unregistered
      BY <1>3, <2>3 DEF ProgressInv, PackagesAsAsked
    <3>2. \A j \in invocations' : IsFinal(j, t) => j = Invocation(t, seen[t], client)
      BY <1>9 DEF IsFinal
    <3>3. NoneFinal(t)
      BY <2>1, <2>3
    <3>4. CASE IsExpired(seen[t], client)
      <4>1. Called(seen[t]) /\ IsFinal(Invocation(t, seen[t], client), t)
        BY <1>8, <2>3, <3>1, <3>4 DEF IsExpired
      <4>2. OneFinal(t)'
        BY <1>1, <1>7, <2>3, <3>2, <3>3, <4>1 DEF NoneFinal, OneFinal
      <4> QED BY <1>5, <2>3, <3>1, <3>4, <4>2
    <3>5. CASE ~IsExpired(seen[t], client)
      <4>1. \A j \in invocations' : ~IsFinal(j, t)
        BY <1>8, <1>9, <2>3, <3>1, <3>2, <3>5 DEF IsFinal
      <4>2. NoneFinal(t)'
        BY <1>1, <3>3, <4>1 DEF NoneFinal
      <4> QED BY <1>5, <2>3, <3>5, <4>2
    <3> QED BY <3>4, <3>5
  <2> QED BY <2>2, <2>3
<1> QED BY <1>10, <1>11, <1>14, <1>15, <1>16, <1>17 DEF ProgressInv

\* A callback that registers is kept, or called by its own thread, or both.
LEMMA RegisterKeepsInv ==
  ASSUME ProgressAssumption, ProgressInv, NEW download \in BOOLEAN,
         NEW streaming \in BOOLEAN, register_callback(download, streaming)
  PROVE  ProgressInv'
<1>0. SUFFICES ASSUME NEW CONSTANT t, t = progress_token
               PROVE  ProgressInv'
  OBVIOUS
<1> DEFINE p == [captured |-> NoCapture, snapshot |-> local, streaming |-> streaming,
                 download |-> download]
           q == Captures(p, current)
           entry == [package |-> p, unregistered |-> FALSE]
           stored == IF current = NoProgress THEN p ELSE q
           kept == current = NoProgress \/ ~IsExpired(q, current)
           call == Invocation(t, q, current)
           added == IF current # NoProgress /\ Called(q) THEN {call} ELSE {}
<1>1. /\ t \in ProgressTokens /\ progress_token' = t + 1 /\ asked' = Append(asked, entry)
      /\ UNCHANGED <<version, local, client, current, invocations, told>>
      /\ own' = own \cup added
  BY <1>0 DEF register_callback, ProgressInv, ProgressTyped, ProgressTokens
<1>2. packages' = IF kept
                  THEN [u \in DOMAIN packages \cup {t} |->
                          IF u = t THEN stored ELSE packages[u]]
                  ELSE packages
  BY <1>0 DEF register_callback
<1>3. /\ asked \in Seq([package : Packages, unregistered : BOOLEAN])
      /\ t = Len(asked) + 1 /\ DOMAIN asked = 1 .. Len(asked) /\ Len(asked) \in Nat
      /\ DOMAIN packages \subseteq DOMAIN asked
      /\ t \notin DOMAIN asked /\ t \notin DOMAIN packages
      /\ DOMAIN asked \subseteq ProgressTokens
  BY <1>0, <1>1 DEF ProgressInv, ProgressTyped, ProgressAssumption, ProgressTokens
<1>4. p \in Packages /\ p.captured = NoCapture
  BY DEF ProgressInv, ProgressTyped, Packages, ProgressAssumption, NoCapture
<1>5. current # NoProgress => Reported(current)
  BY DEF ProgressInv, ProgressTyped
<1>6. /\ stored \in Packages /\ stored.streaming = streaming
      /\ stored.download = download /\ stored.snapshot = local
      /\ stored.captured # NoCapture /\ ~download => stored.captured >= local
  BY <1>4, <1>5, CapturedOnce
<1>7. entry \in [package : Packages, unregistered : BOOLEAN] /\ entry.package = p
      /\ ~entry.unregistered
  BY <1>4
<1>8. /\ asked' \in Seq([package : Packages, unregistered : BOOLEAN])
      /\ Len(asked') = t /\ DOMAIN asked' = DOMAIN asked \cup {t}
      /\ asked'[t] = entry /\ \A u \in DOMAIN asked : asked'[u] = asked[u]
  <2> HIDE DEF entry
  <2> QED BY <1>1, <1>3, <1>7
<1>9. /\ p.streaming = streaming /\ p.download = download /\ p.snapshot = local
  OBVIOUS
<1>10. \A j \in added :
         /\ current # NoProgress /\ Called(q) /\ j = call
         /\ j \in Invocations /\ j.token = t
         /\ ~streaming => /\ j.goal = stored.captured /\ stored.captured # NoCapture
                          /\ kept <=> ~IsFinal(j, t)
  BY <1>1, <1>5, <1>6, InvocationTyped DEF Called
<1>11. ~streaming /\ ~kept => added = {call} /\ IsFinal(call, t)
  BY <1>1, <1>5, <1>6, InvocationTyped DEF IsExpired
<1> HIDE DEF entry, stored, kept, call, added, p, q
<1>12. /\ DOMAIN packages' = IF kept THEN DOMAIN packages \cup {t} ELSE DOMAIN packages
       /\ kept => packages'[t] = stored
       /\ \A u \in DOMAIN packages : packages'[u] = packages[u]
  BY <1>2, <1>3
<1>13. ProgressTyped'
  <2>1. own' \subseteq Invocations
    BY <1>1, <1>10 DEF ProgressInv, ProgressTyped
  <2>2. progress_token' \in 1 .. MaxRegistered + 1 /\ Len(asked') = progress_token' - 1
    BY <1>1, <1>3, <1>8 DEF ProgressInv, ProgressTyped, ProgressAssumption, ProgressTokens
  <2>3. /\ DOMAIN packages' \subseteq DOMAIN asked'
        /\ \A u \in DOMAIN packages' : packages'[u] \in Packages
    BY <1>3, <1>6, <1>8, <1>12 DEF ProgressInv, ProgressTyped
  <2> QED BY <1>1, <1>8, <2>1, <2>2, <2>3 DEF ProgressInv, ProgressTyped, Reported
<1>14. PackagesAsAsked'
  <2> SUFFICES ASSUME NEW u \in DOMAIN packages'
               PROVE  /\ packages'[u].streaming = asked'[u].package.streaming
                      /\ packages'[u].download = asked'[u].package.download
                      /\ packages'[u].snapshot = asked'[u].package.snapshot
                      /\ ~asked'[u].unregistered
    BY DEF PackagesAsAsked
  <2>1. CASE u = t
    BY <1>3, <1>6, <1>7, <1>8, <1>9, <1>12, <2>1
  <2>2. CASE u # t
    BY <1>3, <1>8, <1>12, <2>2 DEF ProgressInv, PackagesAsAsked
  <2> QED BY <2>1, <2>2
<1>15. /\ told[t] = [goals |-> {}, reached |-> 0]
       /\ \A i \in invocations \cup own : i.token # t
  BY <1>1, <1>3 DEF ProgressInv, NoneYet
<1>16. \A u \in DOMAIN asked, g \in Nat : HasGoal(u, g)' => HasGoal(u, g)
  BY <1>1, <1>3, <1>10 DEF HasGoal
<1>17. ~streaming => \A g \in Nat : HasGoal(t, g)' => g = stored.captured /\ g # NoCapture
  BY <1>1, <1>10, <1>15 DEF HasGoal
<1>18. GoalIsCaptured'
  <2> SUFFICES ASSUME NEW u \in DOMAIN packages', ~packages'[u].streaming
               PROVE  /\ \A g \in Nat :
                           HasGoal(u, g)' => packages'[u].captured = g /\ g # NoCapture
                      /\ packages'[u].captured # NoCapture /\ ~packages'[u].download =>
                           packages'[u].captured >= packages'[u].snapshot
    BY DEF GoalIsCaptured
  <2>1. CASE u = t
    BY <1>3, <1>6, <1>12, <1>17, <2>1
  <2>2. CASE u # t
    BY <1>3, <1>12, <1>16, <2>2 DEF ProgressInv, GoalIsCaptured
  <2> QED BY <2>1, <2>2
<1>19. OneGoal'
  <2> SUFFICES ASSUME NEW u \in DOMAIN asked', ~asked'[u].package.streaming
               PROVE  /\ \A g, h \in Nat : HasGoal(u, g)' /\ HasGoal(u, h)' => g = h
                      /\ ~asked'[u].package.download =>
                           \A g \in Nat : HasGoal(u, g)' => g >= asked'[u].package.snapshot
    BY DEF OneGoal
  <2>1. CASE u = t
    BY <1>6, <1>7, <1>8, <1>9, <1>17, <2>1
  <2>2. CASE u # t
    BY <1>8, <1>16, <2>2 DEF ProgressInv, OneGoal
  <2> QED BY <2>1, <2>2
<1>20. NoneYet'
  BY <1>1, <1>8, <1>10 DEF ProgressInv, NoneYet
<1>21. ToldAtTheEnd'
  <2> SUFFICES ASSUME NEW u \in DOMAIN asked', ~asked'[u].package.streaming
               PROVE  IF u \in DOMAIN packages' \/ asked'[u].unregistered
                      THEN NoneFinal(u)' ELSE OneFinal(u)'
    BY DEF ToldAtTheEnd
  <2>1. CASE u = t
    <3>1. ~streaming /\ ~asked'[u].unregistered
      BY <1>7, <1>8, <1>9, <2>1
    <3>2. told'[t].reached = 0 /\ \A j \in invocations' \cup own : ~IsFinal(j, t)
      BY <1>1, <1>15 DEF IsFinal
    <3>3. CASE kept
      <4>1. NoneFinal(t)'
        BY <1>1, <1>10, <3>1, <3>2, <3>3 DEF NoneFinal
      <4> QED BY <1>12, <2>1, <3>3, <4>1
    <3>4. CASE ~kept
      <4>1. added = {call} /\ IsFinal(call, t)
        BY <1>11, <3>1, <3>4
      <4>2. OneFinal(t)'
        BY <1>1, <3>2, <4>1 DEF OneFinal
      <4> QED BY <1>3, <1>12, <2>1, <3>1, <3>4, <4>2
    <3> QED BY <3>3, <3>4
  <2>2. CASE u # t
    <3>1. u \in DOMAIN asked /\ asked'[u] = asked[u]
          /\ (u \in DOMAIN packages' <=> u \in DOMAIN packages)
      BY <1>8, <1>12, <2>2
    <3>2. \A j \in added : ~IsFinal(j, u)
      BY <1>10, <2>2 DEF IsFinal
    <3>3. IF u \in DOMAIN packages \/ asked[u].unregistered
          THEN NoneFinal(u) ELSE OneFinal(u)
      BY <3>1 DEF ProgressInv, ToldAtTheEnd
    <3>4. NoneFinal(u) => NoneFinal(u)'
      BY <1>1, <3>2 DEF NoneFinal
    <3>5. OneFinal(u) => OneFinal(u)'
      BY <1>1, <3>2 DEF OneFinal
    <3> QED BY <3>1, <3>3, <3>4, <3>5
  <2> QED BY <2>1, <2>2
<1> QED BY <1>13, <1>14, <1>18, <1>19, <1>20, <1>21 DEF ProgressInv

LEMMA ProgressInvStep ==
  ASSUME ProgressAssumption, ProgressInv, [ProgressNext]_progressVars
  PROVE  ProgressInv'
<1>1. CASE ProgressNext
  BY <1>1, ClientKeepsInv, UnregisterKeepsInv, InvokeKeepsInv, UpdateKeepsInv,
     RegisterKeepsInv DEF ProgressNext
<1>2. CASE UNCHANGED progressVars
  BY <1>2 DEF progressVars, ProgressInv, ProgressTyped, PackagesAsAsked, GoalIsCaptured,
     OneGoal, NoneYet, ToldAtTheEnd, HasGoal, NoneFinal, OneFinal, Reported
<1> QED BY <1>1, <1>2

\* The inductive invariant of SyncProgressNotifier holds throughout.
THEOREM ProgressInvariant == ProgressAssumption /\ ProgressSpec => []ProgressInv
<1> SUFFICES ASSUME ProgressAssumption PROVE ProgressSpec => []ProgressInv
  OBVIOUS
<1> QED BY InitProgressInv, ProgressInvStep, PTL DEF ProgressSpec

\* The final calls counted by Finals are those of NoneFinal and OneFinal.
LEMMA FinalsCounted ==
  ASSUME NEW t \in ProgressTokens, told[t].reached \in Nat
  PROVE  /\ NoneFinal(t) => Finals(t) = 0
         /\ OneFinal(t) => Finals(t) = 1
<1>1. /\ Final(invocations, t) = {i \in invocations : IsFinal(i, t)}
      /\ Final(own, t) = {i \in own : IsFinal(i, t)}
  BY DEF Final, IsFinal
<1>2. Cardinality({}) = 0 /\ \A x : Cardinality({x}) = 1
  BY FS_EmptySet, FS_Singleton
<1>3. ASSUME NoneFinal(t) PROVE Finals(t) = 0
  <2>1. Final(invocations, t) = {} /\ Final(own, t) = {}
    BY <1>1, <1>3 DEF NoneFinal
  <2> QED BY <1>2, <1>3, <2>1 DEF NoneFinal, Finals
<1>4. ASSUME OneFinal(t) PROVE Finals(t) = 1
  <2>1. CASE told[t].reached = 1 /\ \A i \in invocations \cup own : ~IsFinal(i, t)
    <3>1. Final(invocations, t) = {} /\ Final(own, t) = {}
      BY <1>1, <2>1
    <3> QED BY <1>2, <2>1, <3>1 DEF Finals
  <2>2. CASE /\ told[t].reached = 0 /\ \A i \in own : ~IsFinal(i, t)
             /\ \E i \in invocations :
                  IsFinal(i, t) /\ \A j \in invocations : IsFinal(j, t) => j = i
    <3>1. PICK i \in invocations : IsFinal(i, t) /\ \A j \in invocations : IsFinal(j, t) => j = i
      BY <2>2
    <3>2. Final(invocations, t) = {i} /\ Final(own, t) = {}
      BY <1>1, <2>2, <3>1
    <3>3. Cardinality(Final(invocations, t)) = 1 /\ Cardinality(Final(own, t)) = 0
      BY <1>2, <3>2
    <3> QED BY <2>2, <3>3 DEF Finals
  <2>3. CASE /\ told[t].reached = 0 /\ \A i \in invocations : ~IsFinal(i, t)
             /\ \E i \in own : IsFinal(i, t) /\ \A j \in own : IsFinal(j, t) => j = i
    <3>1. PICK i \in own : IsFinal(i, t) /\ \A j \in own : IsFinal(j, t) => j = i
      BY <2>3
    <3>2. Final(invocations, t) = {} /\ Final(own, t) = {i}
      BY <1>1, <2>3, <3>1
    <3>3. Cardinality(Final(invocations, t)) = 0 /\ Cardinality(Final(own, t)) = 1
      BY <1>2, <3>2
    <3> QED BY <2>3, <3>3 DEF Finals
  <2> QED BY <1>4, <2>1, <2>2, <2>3 DEF OneFinal
<1> QED BY <1>3, <1>4

\* However the client works, reports, and callbacks register and leave: one that does
\* not stream is given one number to reach, which covers what was announced before it
\* registered, and is told exactly once that it is reached.
THEOREM ProgressIsExact == ProgressAssumption /\ ProgressSpec => []ProgressExact
<1> SUFFICES ASSUME ProgressAssumption PROVE ProgressSpec => []ProgressExact
  OBVIOUS
<1>1. ASSUME ProgressInv PROVE ProgressExact
  <2> SUFFICES ASSUME NEW t \in DOMAIN asked, ~asked[t].package.streaming
               PROVE  /\ \A g, h \in told[t].goals : g = h
                      /\ ~asked[t].package.download =>
                           \A g \in told[t].goals : g >= asked[t].package.snapshot
                      /\ Finals(t) <= 1
                      /\ t \notin DOMAIN packages /\ ~asked[t].unregistered => Finals(t) = 1
                      /\ t \in DOMAIN packages => Finals(t) = 0
    BY DEF ProgressExact
  <2>1. t \in ProgressTokens /\ told[t].goals \subseteq Nat /\ told[t].reached \in Nat
    <3>1. t \in ProgressTokens /\ told[t] \in [goals : SUBSET Nat, reached : Nat]
      BY <1>1 DEF ProgressInv, ProgressTyped, ProgressAssumption, ProgressTokens
    <3> QED BY <3>1
  <2>2. \A g \in told[t].goals : g \in Nat /\ HasGoal(t, g)
    BY <2>1 DEF HasGoal
  <2>3. IF t \in DOMAIN packages \/ asked[t].unregistered
        THEN NoneFinal(t) ELSE OneFinal(t)
    BY <1>1 DEF ProgressInv, ToldAtTheEnd
  <2>4. NoneFinal(t) => Finals(t) = 0
    BY <2>1, FinalsCounted
  <2>5. OneFinal(t) => Finals(t) = 1
    BY <2>1, FinalsCounted
  <2> QED BY <1>1, <2>2, <2>3, <2>4, <2>5 DEF ProgressInv, OneGoal
<1> QED BY <1>1, ProgressInvariant, PTL
=============================================================================
