---------------------------- MODULE FriendsFetch ----------------------------
(***************************************************************************)
(* RealmOperations.fetchFriendsFromRealm: every call puts a chain of three *)
(* operations on the queue.  GetDataOperation is the contract it           *)
(* implements (FetchContract); ParseDataOperation reads its data when the  *)
(* queue calls it finished, SaveDataOperation then replaces the stored     *)
(* friends in one write transaction.  Chains of several calls run at the   *)
(* same time.  An exception that Realm raises inside a transaction is not  *)
(* a Swift error: no catch sees it and the process ends.  iOS may also end *)
(* the process at any moment; the next launch finds what was committed.    *)
(***************************************************************************)
EXTENDS Naturals, Sequences, FetchContract, RealmStore

CONSTANTS
  Ids,          \* FriendItem.id
  Items         \* the ids that a body decodes to, for the bodies that decode

ASSUME ItemsAssumption ==
  /\ DOMAIN Items \subseteq Bodies
  /\ \A b \in DOMAIN Items : Items[b] \in Seq(Ids)

ASSUME ClientsAreOps == Clients = Ops

VARIABLES
  parse,        \* ParseDataOperation of each chain: "waiting", "done"
  output,       \* the body it decoded into outputData; NoData is nil
  save,         \* where SaveDataOperation.main is
  next,         \* index of the next element realm.add(outputData) will add
  process       \* "running", "exception" or "killed"

chainVars == <<parse, output, save, next>>
friendsVars == <<fetchVars, storeVars, chainVars, process>>

FriendItem(b, i) == [id |-> Items[b][i], from |-> b, at |-> i]
Friends == [id : Ids, from : Bodies, at : Nat]
RowsOf(b) == {FriendItem(b, i) : i \in DOMAIN Items[b]}

FriendsInit ==
  /\ FetchInit
  /\ StoreInit
  /\ parse = [o \in Ops |-> "waiting"]
  /\ output = [o \in Ops |-> NoData]
  /\ save = [o \in Ops |-> "waiting"]
  /\ next = [o \in Ops |-> 1]
  /\ process = "running"

-----------------------------------------------------------------------------
(* The fetch                                                               *)

fetchFriendsFromRealm(o) ==
  /\ process = "running"
  /\ Submit(o)
  /\ UNCHANGED <<storeVars, chainVars, process>>

Fetched(o) ==
  /\ process = "running"
  /\ \/ \E b \in Bodies \cup {NoData} : Answer(o, b)
     \/ Finish(o)
     \/ Cancel(o)
  /\ UNCHANGED <<storeVars, chainVars, process>>

-----------------------------------------------------------------------------
(* ParseDataOperation.main: no data, or data that does not decode, leaves  *)
(* outputData nil.                                                         *)

ParseMain(o) ==
  /\ process = "running"
  /\ status[o] = "finished"
  /\ parse[o] = "waiting"
  /\ output' = [output EXCEPT ![o] = IF data[o] \in DOMAIN Items
                                       THEN data[o] ELSE NoData]
  /\ parse' = [parse EXCEPT ![o] = "done"]
  /\ UNCHANGED <<fetchVars, storeVars, save, next, process>>

-----------------------------------------------------------------------------
(* SaveDataOperation.main                                                  *)

SaveAt(o, step) ==
  /\ process = "running"
  /\ parse[o] = "done"
  /\ save[o] = step

SaveGoto(o, step) ==
  /\ save' = [save EXCEPT ![o] = step]
  /\ UNCHANGED <<fetchVars, parse, output, process>>

\* nothing was parsed
SaveSkips(o) ==
  /\ SaveAt(o, "waiting")
  /\ output[o] = NoData
  /\ SaveGoto(o, "done")
  /\ UNCHANGED <<storeVars, next>>

\* try Realm() throws; the error is printed
SaveOpenFails(o) ==
  /\ SaveAt(o, "waiting")
  /\ output[o] # NoData
  /\ SaveGoto(o, "done")
  /\ UNCHANGED <<storeVars, next>>

SaveOpens(o) ==
  /\ SaveAt(o, "waiting")
  /\ output[o] # NoData
  /\ SaveGoto(o, "opened")
  /\ UNCHANGED <<storeVars, next>>

SaveBegins(o) ==
  /\ SaveAt(o, "opened")
  /\ beginWrite(o)
  /\ SaveGoto(o, "delete")
  /\ UNCHANGED next

\* mutant: the old friends stay
SaveKeepsOld(o) ==
  /\ SaveAt(o, "delete")
  /\ delete(o, {})
  /\ SaveGoto(o, "add")
  /\ UNCHANGED next

\* oldValues is a live query: inside the transaction it is the whole table
SaveDeletes(o) ==
  /\ SaveAt(o, "delete")
  /\ delete(o, working)
  /\ SaveGoto(o, "add")
  /\ UNCHANGED next

\* mutant: every object is added in a transaction of its own
SaveAddsOneByOne(o) ==
  /\ SaveAt(o, "add")
  /\ next[o] <= Len(Items[output[o]])
  /\ ~Clash(Items[output[o]][next[o]])
  /\ working' = working \cup {FriendItem(output[o], next[o])}
  /\ committed' = working'
  /\ next' = [next EXCEPT ![o] = @ + 1]
  /\ UNCHANGED writer
  /\ SaveGoto(o, "add")

SaveAdds(o) ==
  /\ SaveAt(o, "add")
  /\ next[o] <= Len(Items[output[o]])
  /\ add(o, FriendItem(output[o], next[o]))
  /\ next' = [next EXCEPT ![o] = @ + 1]
  /\ SaveGoto(o, "add")

\* Object::create throws; the process dies and its write lock with it
SaveAddThrows(o) ==
  /\ SaveAt(o, "add")
  /\ next[o] <= Len(Items[output[o]])
  /\ Clash(Items[output[o]][next[o]])
  /\ rollback(o)
  /\ process' = "exception"
  /\ UNCHANGED <<fetchVars, chainVars>>

\* mutant: the loop stops one object early
SaveCommitsEarly(o) ==
  /\ SaveAt(o, "add")
  /\ next[o] >= Len(Items[output[o]])
  /\ commitWrite(o)
  /\ SaveGoto(o, "done")
  /\ UNCHANGED next

SaveCommits(o) ==
  /\ SaveAt(o, "add")
  /\ next[o] > Len(Items[output[o]])
  /\ commitWrite(o)
  /\ SaveGoto(o, "done")
  /\ UNCHANGED next

\* commitWrite throws; the error is printed and the Realm is still open
SaveCommitFails(o) ==
  /\ SaveAt(o, "add")
  /\ next[o] > Len(Items[output[o]])
  /\ SaveGoto(o, "failed")
  /\ UNCHANGED <<storeVars, next>>

\* mutant: the Realm outlives main() and its transaction stays open
SaveLeaksRealm(o) ==
  /\ SaveAt(o, "failed")
  /\ SaveGoto(o, "done")
  /\ UNCHANGED <<storeVars, next>>

\* main() returned: the Realm is deallocated inside its transaction
SaveReleasesRealm(o) ==
  /\ SaveAt(o, "failed")
  /\ rollback(o)
  /\ SaveGoto(o, "done")
  /\ UNCHANGED next

SaveStep(o) ==
  \/ SaveSkips(o)
  \/ SaveOpenFails(o)
  \/ SaveOpens(o)
  \/ SaveBegins(o)
  \/ SaveDeletes(o)
  \/ SaveAdds(o)
  \/ SaveAddThrows(o)
  \/ SaveCommits(o)
  \/ SaveCommitFails(o)
  \/ SaveReleasesRealm(o)

-----------------------------------------------------------------------------
(* The process ends and is launched again (external: iOS; beginWrite       *)
(* raising an exception on an I/O error ends it in the same way)           *)

Killed ==
  /\ process = "running"
  /\ process' = "killed"
  /\ writer' = NoClient
  /\ UNCHANGED <<fetchVars, chainVars, committed, working>>

\* everything but the store starts anew
Relaunched ==
  /\ process # "running"
  /\ status' = [o \in Ops |-> "new"]
  /\ answered' = {}
  /\ data' = [o \in Ops |-> NoData]
  /\ cancelled' = {}
  /\ parse' = [o \in Ops |-> "waiting"]
  /\ output' = [o \in Ops |-> NoData]
  /\ save' = [o \in Ops |-> "waiting"]
  /\ next' = [o \in Ops |-> 1]
  /\ process' = "running"
  /\ UNCHANGED storeVars

FriendsNext ==
  \/ \E o \in Ops :
        fetchFriendsFromRealm(o) \/ Fetched(o) \/ ParseMain(o) \/ SaveStep(o)
  \/ Killed
  \/ Relaunched

FriendsSpec == FriendsInit /\ [][FriendsNext]_friendsVars

\* The queue runs ready operations, and the holder of the write lock goes on.
FriendsFairness ==
  \A o \in Ops : WF_friendsVars(ParseMain(o) \/ SaveStep(o))

FairFriendsSpec == FriendsSpec /\ FriendsFairness

-----------------------------------------------------------------------------
(* Properties                                                              *)

Repeats(b) == \E i, j \in DOMAIN Items[b] : i < j /\ Items[b][i] = Items[b][j]

\* "add" and "failed" are inside the transaction with "delete"
Saving(o) == save[o] \in {"delete", "add", "failed"}

FriendsTypeOK ==
  /\ FetchTypeOK
  /\ committed \subseteq Friends
  /\ working \subseteq Friends
  /\ writer \in Clients \cup {NoClient}
  /\ parse \in [Ops -> {"waiting", "done"}]
  /\ output \in [Ops -> (DOMAIN Items) \cup {NoData}]
  /\ save \in [Ops -> {"waiting", "opened", "delete", "add", "failed", "done"}]
  /\ next \in [Ops -> Nat \ {0}]
  /\ process \in {"running", "exception", "killed"}

\* The stored friends are exactly the objects of one reply, or none: neither
\* concurrent saves, nor a failed commit, nor a crash in the middle of a save
\* leaves a mixture of two replies or a part of one.
StoreIsOneReply ==
  committed = {} \/ \E b \in DOMAIN Items : committed = RowsOf(b)

\* The table never holds two friends with one id, although add() is called
\* without an update policy.
OneFriendPerId == OnePerKey(committed) /\ OnePerKey(working)

\* The exception that ends the process is raised only when a reply names one
\* friend twice: what earlier fetches stored never causes it.
ThrowsOnlyOnRepeat ==
  process = "exception" =>
    \E o \in Ops : output[o] \in DOMAIN Items /\ Repeats(output[o])

\* the objects of o's reply that realm.add has added so far
Added(o) == {FriendItem(output[o], i) : i \in 1 .. next[o] - 1}

\* Exactly the chain inside a transaction holds the lock, what it has written
\* is a prefix of its own reply, and that reply is final.
ChainInv(o) ==
  /\ writer = o => process = "running" /\ Saving(o)
  /\ process = "running" /\ Saving(o) => writer = o
  /\ save[o] = "opened" \/ Saving(o) =>
       parse[o] = "done" /\ output[o] \in DOMAIN Items
  /\ save[o] \in {"waiting", "opened", "delete"} => next[o] = 1
  /\ save[o] = "add" => next[o] <= Len(Items[output[o]]) + 1
  /\ writer = o /\ save[o] = "add" => working = Added(o)
  /\ parse[o] = "done" => status[o] = "finished"
  /\ parse[o] = "waiting" => output[o] = NoData
  /\ status[o] = "new" => o \notin cancelled
  /\ status[o] = "finished" => o \in answered \cup cancelled
  /\ output[o] # NoData /\ o \notin cancelled => data[o] = output[o]

\* The inductive invariant behind the safety properties above.
FriendsInv ==
  /\ FriendsTypeOK
  /\ StoreIsOneReply
  /\ OneFriendPerId
  /\ ThrowsOnlyOnRepeat
  /\ \A o \in Ops : ChainInv(o)

\* The friends change only to the reply of a fetch that the queue has let
\* through; without cancel() that is the reply its GetDataOperation holds.
CommitsDeliveredReply ==
  [][committed' # committed =>
       \E o \in Ops :
         /\ status[o] = "finished"
         /\ output[o] \in DOMAIN Items
         /\ committed' = RowsOf(output[o])
         /\ o \in cancelled \/ data[o] = output[o]]_friendsVars

\* A chain whose fetch is finished ends, whatever fails on the way and
\* whoever else holds the write lock, unless the process ends first.
SaveEnds ==
  \A o \in Ops :
    status[o] = "finished" ~> save[o] = "done" \/ process # "running"
=============================================================================
