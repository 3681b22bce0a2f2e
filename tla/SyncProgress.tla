---------------------------- MODULE SyncProgress ----------------------------
(***************************************************************************)
(* SyncProgressNotifier (sync_session.cpp): callbacks that are told how    *)
(* many bytes have been transferred.  Packages are kept under m_mutex; the *)
(* calls made for them run after it has been released, those of update()   *)
(* on the sync client's thread and that of register_callback() on the      *)
(* caller's.                                                               *)
(*                                                                         *)
(* The sync client is modelled by what it reports: it works through the    *)
(* local transactions, each of which adds one byte to upload; of its       *)
(* numbers only the bytes left to download may fall again (client.hpp).    *)
(***************************************************************************)
EXTENDS Naturals, Sequences, FiniteSets

CONSTANTS MaxCommits,   \* bound: local transactions
          MaxDown,      \* bound: bytes to download, and how often their number falls
          MaxRegistered     \* bound: callbacks registered

ProgressAssumption == MaxCommits \in Nat /\ MaxDown \in Nat /\ MaxRegistered \in Nat

ProgressTokens == 1 .. MaxRegistered

VARIABLES
  version,           \* the latest local transaction
  local,             \* m_local_transaction_version
  client,            \* what the sync client has got to: a Progress
  current,           \* m_current_progress
  packages,          \* m_packages: NotifierPackages by token
  progress_token,        \* m_progress_notifier_token
  invocations,           \* calls that the client's thread is about to make
  own,               \* calls that registering threads are about to make
  told,              \* for each callback the numbers it was given to reach, and how
                     \* often it was told that it is reached
  asked              \* the packages as they were registered, and unregistered

progressVars == <<version, local, client, current, packages, progress_token, invocations,
                  own, told, asked>>

Zero == [uploadable |-> 0, downloadable |-> 0, uploaded |-> 0, downloaded |-> 0, snapshot |-> 0,
         download_version |-> 0]
NoProgress == [Zero EXCEPT !.snapshot = MaxCommits + 1]
NoCapture == MaxCommits + MaxDown + 1

ProgressInit ==
  /\ version = 0 /\ local = 0
  /\ client = Zero /\ current = NoProgress
  /\ packages = <<>> /\ progress_token = 1
  /\ invocations = {} /\ own = {}
  /\ told = [t \in ProgressTokens |-> [goals |-> {}, reached |-> 0]]
  /\ asked = <<>>

----------------------------------------------------------------------------
(* The application and the sync client                                     *)

\* a local commit; nonsync_transact_notify calls set_local_version after it
Commit ==
  /\ version < MaxCommits
  /\ version' = version + 1
  /\ UNCHANGED <<local, client, current, packages, progress_token, invocations, own, told, asked>>

set_local_version ==
  /\ local < version
  /\ local' = version
  /\ UNCHANGED <<version, client, current, packages, progress_token, invocations, own, told, asked>>

ClientWorks ==
  /\ \/ client.snapshot < version
        /\ client' = [client EXCEPT !.snapshot = @ + 1, !.uploadable = @ + 1]
     \/ client.uploaded < client.uploadable
        /\ client' = [client EXCEPT !.uploaded = @ + 1]
     \/ client.download_version = 0
        /\ client' = [client EXCEPT !.download_version = 1]
     \/ client.download_version > 0 /\ client.downloadable < MaxDown
        /\ client' = [client EXCEPT !.downloadable = @ + 1]
     \/ client.downloadable > client.downloaded   \* compaction, or our own changesets
        /\ client.download_version \in 1 .. MaxDown
        /\ client' = [client EXCEPT !.downloadable = @ - 1, !.download_version = @ + 1]
     \/ client.downloaded < client.downloadable
        /\ client' = [client EXCEPT !.downloaded = @ + 1]
  /\ UNCHANGED <<version, local, current, packages, progress_token, invocations, own, told, asked>>

----------------------------------------------------------------------------
(* create_invocation                                                       *)

Transferred(p, progress) == IF p.download THEN progress.downloaded ELSE progress.uploaded
Transferrable(p, progress) == IF p.download THEN progress.downloadable ELSE progress.uploadable

\* mutant: the number to reach is taken before the client has seen the commits
CapturesEarly(p, progress) ==
  IF p.streaming \/ p.captured # NoCapture THEN p
  ELSE [p EXCEPT !.captured = Transferrable(p, progress)]

\* what is to be transferred is fixed once the client has seen all that was local
Captures(p, progress) ==
  IF p.streaming \/ p.captured # NoCapture
     \/ (~p.download /\ p.snapshot > progress.snapshot) THEN p
  ELSE [p EXCEPT !.captured = Transferrable(p, progress)]

Called(p) == p.streaming \/ p.captured # NoCapture

Goal(p, progress) == IF p.streaming THEN Transferrable(p, progress) ELSE p.captured

IsExpired(p, progress) ==
  ~p.streaming /\ Called(p) /\ Transferred(p, progress) >= p.captured

Invocation(t, p, progress) ==
  [token |-> t, done |-> Transferred(p, progress), goal |-> Goal(p, progress)]

----------------------------------------------------------------------------

register_callback(download, streaming) ==
  LET t == progress_token
      p == [captured |-> NoCapture, snapshot |-> local, streaming |-> streaming,
            download |-> download]
      q == Captures(p, current)
  IN
  /\ t <= MaxRegistered
  /\ progress_token' = t + 1
  /\ asked' = Append(asked, [package |-> p, unregistered |-> FALSE])
  /\ \/ /\ current = NoProgress
        /\ packages' = [u \in DOMAIN packages \cup {t} |-> IF u = t THEN p ELSE packages[u]]
        /\ UNCHANGED own
     \/ /\ current # NoProgress
        /\ own' = IF Called(q) THEN own \cup {Invocation(t, q, current)} ELSE own
        /\ packages' = IF IsExpired(q, current) THEN packages
                       ELSE [u \in DOMAIN packages \cup {t} |->
                               IF u = t THEN q ELSE packages[u]]
  /\ UNCHANGED <<version, local, client, current, invocations, told>>

unregister_callback(t) ==
  /\ t \in DOMAIN packages
  /\ packages' = [u \in DOMAIN packages \ {t} |-> packages[u]]
  /\ asked' = [asked EXCEPT ![t].unregistered = TRUE]
  /\ UNCHANGED <<version, local, client, current, progress_token, invocations, own, told>>

\* ignored before the first DOWNLOAD message; the calls are made one after the other
update ==
  LET seen == [t \in DOMAIN packages |-> Captures(packages[t], client)]
  IN
  /\ invocations = {} /\ client.download_version > 0 /\ client # current
  /\ current' = client
  /\ invocations' = {Invocation(t, seen[t], client) : t \in {u \in DOMAIN seen : Called(seen[u])}}
  /\ packages' = [t \in {u \in DOMAIN seen : ~IsExpired(seen[u], client)} |-> seen[t]]
  /\ UNCHANGED <<version, local, client, progress_token, own, told, asked>>

Invoke(i) ==
  /\ i \in invocations \/ i \in own
  /\ IF i \in invocations THEN invocations' = invocations \ {i} /\ UNCHANGED own
                      ELSE own' = own \ {i} /\ UNCHANGED invocations
  /\ told' = [told EXCEPT ![i.token].goals = @ \cup {i.goal},
                         ![i.token].reached = IF i.done >= i.goal THEN @ + 1 ELSE @]
  /\ UNCHANGED <<version, local, client, current, packages, progress_token, asked>>

ProgressNext ==
  \/ Commit \/ set_local_version \/ ClientWorks \/ update
  \/ \E download \in BOOLEAN, streaming \in BOOLEAN : register_callback(download, streaming)
  \/ \E t \in ProgressTokens : unregister_callback(t)
  \/ \E i \in invocations \cup own : Invoke(i)

ProgressSpec == ProgressInit /\ [][ProgressNext]_progressVars

----------------------------------------------------------------------------
(* Properties                                                              *)

Final(calls, t) == {i \in calls : i.token = t /\ i.done >= i.goal}
Finals(t) == told[t].reached + Cardinality(Final(invocations, t)) + Cardinality(Final(own, t))

\* A callback that does not stream is given one number to reach, which for an
\* upload covers every transaction announced before it was registered; it is told
\* once that the number is reached, never twice, and is not forgotten before it
\* has been, unless it was unregistered.  This is so although the client works
\* through the transactions, reports, and callbacks are registered in any order.
ProgressExact ==
  \A t \in DOMAIN asked :
    LET p == asked[t].package
    IN ~p.streaming =>
         /\ \A g, h \in told[t].goals : g = h
         /\ ~p.download => \A g \in told[t].goals : g >= p.snapshot
         /\ Finals(t) <= 1
         /\ t \notin DOMAIN packages /\ ~asked[t].unregistered => Finals(t) = 1
         /\ t \in DOMAIN packages => Finals(t) = 0
=============================================================================
