--------------------------- MODULE FetchContract ---------------------------
(***************************************************************************)
(* What a chain of dependent operations may rely on when its first link is *)
(* a GetDataOperation.  An operation is put on the queue, is answered at   *)
(* most once, and is finished at most once; unless somebody calls cancel() *)
(* it is answered before it is finished, so the data a dependent reads     *)
(* after the queue released it is final.  After cancel() the answer may    *)
(* still arrive at any time.  GetDataOperation.tla implements this; the    *)
(* chain in FriendsFetch.tla is built on it.                               *)
(***************************************************************************)
CONSTANTS
  Ops,          \* the GetDataOperation objects
  Bodies,       \* response bodies the server can send
  NoData,       \* the nil of GetDataOperation.data
  Cancellable   \* the operations somebody may call cancel() on

ASSUME FetchAssumption == NoData \notin Bodies /\ Cancellable \subseteq Ops

VARIABLES
  status,       \* the queue's view: "new", "pending", "finished"
  answered,     \* operations whose completion block has stored its result
  data,         \* GetDataOperation.data
  cancelled     \* operations on which cancel() has been called

fetchVars == <<status, answered, data, cancelled>>

FetchInit ==
  /\ status = [o \in Ops |-> "new"]
  /\ answered = {}
  /\ data = [o \in Ops |-> NoData]
  /\ cancelled = {}

Submit(o) ==
  /\ status[o] = "new"
  /\ status' = [status EXCEPT ![o] = "pending"]
  /\ UNCHANGED <<answered, data, cancelled>>

\* b is NoData when the request failed
Answer(o, b) ==
  /\ status[o] = "pending" \/ o \in cancelled
  /\ o \notin answered
  /\ answered' = answered \cup {o}
  /\ data' = [data EXCEPT ![o] = b]
  /\ UNCHANGED <<status, cancelled>>

Finish(o) ==
  /\ status[o] = "pending"
  /\ o \in answered \cup cancelled
  /\ status' = [status EXCEPT ![o] = "finished"]
  /\ UNCHANGED <<answered, data, cancelled>>

Cancel(o) ==
  /\ o \in Cancellable
  /\ status[o] # "new"
  /\ o \notin cancelled
  /\ cancelled' = cancelled \cup {o}
  /\ UNCHANGED <<status, answered, data>>

FetchNext ==
  \E o \in Ops :
     \/ Submit(o)
     \/ \E b \in Bodies \cup {NoData} : Answer(o, b)
     \/ Finish(o)
     \/ Cancel(o)

FetchSpec == FetchInit /\ [][FetchNext]_fetchVars

FetchTypeOK ==
  /\ status \in [Ops -> {"new", "pending", "finished"}]
  /\ answered \subseteq Ops
  /\ data \in [Ops -> Bodies \cup {NoData}]
  /\ cancelled \subseteq Ops
=============================================================================
