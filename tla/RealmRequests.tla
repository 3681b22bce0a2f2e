--------------------------- MODULE RealmRequests ---------------------------
(***************************************************************************)
(* RealmRequestService: commitObjects and deleteObjects, called on several *)
(* threads.  deleteObjects retrieves the objects first and begins the      *)
(* write transaction afterwards; another thread may commit in between.     *)
(*                                                                         *)
(* An object is a primary key and the call that added it.  An exception    *)
(* that Realm raises is not caught and ends the process.                   *)
(***************************************************************************)
EXTENDS Naturals, RealmStore

CONSTANTS Keys,       \* primary keys
          MaxCalls    \* bound: calls in all

VARIABLES
  at,         \* where the call of each thread is
  adding,     \* the objects that its commitObjects has still to add
  retrieved,  \* the objects that its deleteObjects retrieved
  calls,      \* calls so far
  ended       \* an exception ended the process

requestVars == <<storeVars, at, adding, retrieved, calls, ended>>

RequestInit ==
  /\ StoreInit
  /\ at = [c \in Clients |-> "idle"]
  /\ adding = [c \in Clients |-> {}]
  /\ retrieved = [c \in Clients |-> {}]
  /\ calls = 0
  /\ ended = FALSE

Goes(c, from, to) ==
  /\ ~ended
  /\ at[c] = from
  /\ at' = [at EXCEPT ![c] = to]

Quiet == UNCHANGED <<calls, ended>>

\* the call; try Realm() may throw, which is printed
commitObjects(c, keys) ==
  /\ calls < MaxCalls
  /\ calls' = calls + 1
  /\ Goes(c, "idle", "opened")
  /\ adding' = [adding EXCEPT ![c] = {[id |-> k, by |-> calls + 1] : k \in keys}]
  /\ UNCHANGED <<storeVars, retrieved, ended>>

CommitOpenFails(c) ==
  /\ Goes(c, "opened", "idle")
  /\ adding' = [adding EXCEPT ![c] = {}]
  /\ Quiet /\ UNCHANGED <<storeVars, retrieved>>

CommitBegins(c) ==
  /\ Goes(c, "opened", "adding")
  /\ beginWrite(c)
  /\ Quiet /\ UNCHANGED <<adding, retrieved>>

\* realm.add(objects), one after the other
CommitAdds(c) ==
  /\ Goes(c, "adding", "adding")
  /\ \E object \in adding[c] :
       /\ add(c, object)
       /\ adding' = [adding EXCEPT ![c] = @ \ {object}]
  /\ Quiet /\ UNCHANGED retrieved

\* a primary key that is there already: no update policy is given
CommitThrows(c) ==
  /\ ~ended /\ at[c] = "adding"
  /\ \E object \in adding[c] : Clash(object.id)
  /\ ended' = TRUE
  /\ rollback(c)
  /\ UNCHANGED <<at, adding, retrieved, calls>>

\* objects(type).map, on a Realm at the latest version; a call that cannot open the
\* Realm prints and has done nothing
deleteObjects(c) ==
  /\ calls < MaxCalls
  /\ calls' = calls + 1
  /\ Goes(c, "idle", "retrieved")
  /\ retrieved' = [retrieved EXCEPT ![c] = committed]
  /\ UNCHANGED <<storeVars, adding, ended>>

\* beginWrite advances the Realm past what others committed
DeleteBegins(c) ==
  /\ Goes(c, "retrieved", "deleting")
  /\ beginWrite(c)
  /\ Quiet /\ UNCHANGED <<adding, retrieved>>

\* mutant: whatever is in the table
DeleteAll(c) ==
  /\ Goes(c, "deleting", "commit")
  /\ delete(c, working)
  /\ Quiet /\ UNCHANGED <<adding, retrieved>>

\* realm.delete(objects): an object that is gone is left out; one that was added
\* anew under the same primary key may have got the same object key
Deletes(c) ==
  /\ Goes(c, "deleting", "commit")
  /\ \E same \in SUBSET {r \in working \ retrieved[c] : \E s \in retrieved[c] : r.id = s.id} :
       delete(c, retrieved[c] \cup same)
  /\ Quiet /\ UNCHANGED <<adding, retrieved>>

Added(c) ==
  /\ adding[c] = {}
  /\ Goes(c, "adding", "commit")
  /\ Quiet /\ UNCHANGED <<storeVars, adding, retrieved>>

\* mutant: the transaction stays open when the commit throws
CommitLeaks(c) ==
  /\ Goes(c, "commit", "idle")
  /\ commitWrite(c) \/ UNCHANGED storeVars
  /\ retrieved' = [retrieved EXCEPT ![c] = {}]
  /\ Quiet /\ UNCHANGED adding

\* a commit that throws is printed; the Realm goes and takes its transaction along
Commits(c) ==
  /\ Goes(c, "commit", "idle")
  /\ commitWrite(c) \/ rollback(c)
  /\ retrieved' = [retrieved EXCEPT ![c] = {}]
  /\ Quiet /\ UNCHANGED adding

ServiceStep(c) ==
  \/ CommitOpenFails(c) \/ CommitBegins(c) \/ CommitAdds(c) \/ CommitThrows(c)
  \/ Added(c) \/ DeleteBegins(c) \/ Deletes(c) \/ Commits(c)

RequestNext ==
  \E c \in Clients :
    \/ ServiceStep(c) \/ deleteObjects(c)
    \/ \E keys \in SUBSET Keys \ {{}} : commitObjects(c, keys)

RequestSpec == RequestInit /\ [][RequestNext]_requestVars

\* a thread that can go on does
RequestFairness == \A c \in Clients : WF_requestVars(ServiceStep(c))

----------------------------------------------------------------------------
(* Properties                                                              *)

\* What is left when deleteObjects commits was not there when it retrieved the
\* objects: however the calls interleave, nothing older survives.
SurvivorsAreNew ==
  \A c \in Clients :
    writer = c /\ committed' # committed => committed' \cap retrieved[c] = {}

\* deleteObjects takes no object along whose primary key it had not retrieved.
DeletesOnlyRetrieved ==
  \A c \in Clients :
    writer = c => \A r \in committed \ committed' : \E s \in retrieved[c] : r.id = s.id

\* RealmRequestService.deleteObjects, whatever other threads commit between its
\* retrieval and its transaction: nothing it retrieved survives, and it deletes no
\* primary key it had not retrieved.
DeletionExact == [][SurvivorsAreNew /\ DeletesOnlyRetrieved]_requestVars

\* Every call returns, although commits fail and threads wait for each other,
\* unless a repeated primary key ends the process.
CallsReturn == \A c \in Clients : at[c] # "idle" ~> at[c] = "idle" \/ ended
=============================================================================
