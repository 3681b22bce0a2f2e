-------------------------- MODULE GetDataOperation --------------------------
(***************************************************************************)
(* AsyncOperation and its subclass GetDataOperation, run by an             *)
(* OperationQueue.  Three threads touch one operation without a lock:      *)
(*   worker      the queue's thread, inside start();                       *)
(*   completion  the block that the URLSession completion handler puts on  *)
(*               the global dispatch queue;                                *)
(*   canceller   whoever calls cancel().                                   *)
(* Assigning the property `state` is two steps.  The store is one; didSet  *)
(* is the other, and it reads `state` again before it tells the queue,     *)
(* which believes an operation finished only when a notification arrives   *)
(* while isFinished reads TRUE.  willSet is left out: nobody acts on it.   *)
(***************************************************************************)
CONSTANTS
  Ops,          \* the GetDataOperation objects
  Bodies,       \* response bodies the server can send
  NoData,       \* nil
  Cancellable   \* the operations somebody may call cancel() on

ASSUME GetDataAssumption == NoData \notin Bodies /\ Cancellable \subseteq Ops

VARIABLES
  state,        \* AsyncOperation.state
  isCancelled,  \* Operation.isCancelled
  data,         \* GetDataOperation.data
  task,         \* the URLSessionTask
  reply,        \* what the task handed to its completion handler
  queue,        \* the queue's record of the operation
  pc            \* where each thread is in its call

vars == <<state, isCancelled, data, task, reply, queue, pc>>

Threads == {"worker", "completion", "canceller"}
States == {"ready", "executing", "finished"}
Steps == {"idle", "start", "main", "block", "super", "execute", "finish",
          "notify", "done"}

Goto(o, t, s) == pc' = [pc EXCEPT ![o][t] = s]

Init ==
  /\ state = [o \in Ops |-> "ready"]
  /\ isCancelled = [o \in Ops |-> FALSE]
  /\ data = [o \in Ops |-> NoData]
  /\ task = [o \in Ops |-> "none"]
  /\ reply = [o \in Ops |-> NoData]
  /\ queue = [o \in Ops |-> "new"]
  /\ pc = [o \in Ops |-> [t \in Threads |-> "idle"]]

-----------------------------------------------------------------------------
(* The operation queue (Foundation).                                       *)

addOperation(o) ==
  /\ queue[o] = "new"
  /\ queue' = [queue EXCEPT ![o] = "queued"]
  /\ UNCHANGED <<state, isCancelled, data, task, reply, pc>>

\* isReady: a GetDataOperation has no dependency of its own
isReady(o) == state[o] = "ready"

\* the queue picks a ready operation and calls start() on a thread of its own
Dispatch(o) ==
  /\ queue[o] = "queued"
  /\ isReady(o)
  /\ queue' = [queue EXCEPT ![o] = "starting"]
  /\ Goto(o, "worker", "start")
  /\ UNCHANGED <<state, isCancelled, data, task, reply>>

-----------------------------------------------------------------------------
(* `state = ...`: the store, then the notification of didSet.              *)

SetState(o, t) ==
  /\ pc[o][t] \in {"execute", "finish"}
  /\ state' = [state EXCEPT ![o] = IF pc[o][t] = "execute" THEN "executing"
                                                           ELSE "finished"]
  /\ Goto(o, t, "notify")
  /\ UNCHANGED <<isCancelled, data, task, reply, queue>>

\* mutant: didSet announces only the key of oldValue
DidSetOldKeyOnly(o, t) ==
  /\ pc[o][t] = "notify"
  /\ Goto(o, t, "done")
  /\ UNCHANGED <<state, isCancelled, data, task, reply, queue>>

DidSet(o, t) ==
  /\ pc[o][t] = "notify"
  /\ queue' = IF state[o] = "finished" THEN [queue EXCEPT ![o] = "finished"]
                                       ELSE queue
  /\ Goto(o, t, "done")
  /\ UNCHANGED <<state, isCancelled, data, task, reply>>

-----------------------------------------------------------------------------
(* worker: start()                                                         *)

Start(o) ==
  /\ pc[o]["worker"] = "start"
  /\ Goto(o, "worker", IF isCancelled[o] THEN "finish" ELSE "main")
  /\ UNCHANGED <<state, isCancelled, data, task, reply, queue>>

\* mutant: the operation declares itself finished when main() returns
MainFinishes(o) ==
  /\ pc[o]["worker"] = "main"
  /\ task' = [task EXCEPT ![o] = "running"]
  /\ Goto(o, "worker", "finish")
  /\ UNCHANGED <<state, isCancelled, data, reply, queue>>

\* mutant: the data task is never resumed and so never answers
MainForgetsResume(o) ==
  /\ pc[o]["worker"] = "main"
  /\ Goto(o, "worker", "execute")
  /\ UNCHANGED <<state, isCancelled, data, task, reply, queue>>

\* main() resumes the task and returns; only then is `state` set to executing
Main(o) ==
  /\ pc[o]["worker"] = "main"
  /\ task' = [task EXCEPT ![o] = "running"]
  /\ Goto(o, "worker", "execute")
  /\ UNCHANGED <<state, isCancelled, data, reply, queue>>

-----------------------------------------------------------------------------
(* URLSession and the completion block                                     *)

\* a cancelled request ends with an error, and so does one that times out
TaskEnds(o) ==
  /\ task[o] \in {"running", "cancelling"}
  /\ \E b \in (IF task[o] = "running" THEN Bodies ELSE {}) \cup {NoData} :
        reply' = [reply EXCEPT ![o] = b]
  /\ task' = [task EXCEPT ![o] = "ended"]
  /\ Goto(o, "completion", "block")
  /\ UNCHANGED <<state, isCancelled, data, queue>>

\* mutant: the error path returns without setting state = .finished
StoreDataErrorReturns(o) ==
  /\ pc[o]["completion"] = "block"
  /\ data' = [data EXCEPT ![o] = reply[o]]
  /\ Goto(o, "completion", IF reply[o] = NoData THEN "done" ELSE "finish")
  /\ UNCHANGED <<state, isCancelled, task, reply, queue>>

\* mutant: state = .finished is set before the data is stored
StoreDataLast(o) ==
  /\ pc[o]["completion"] = "block"
  /\ data' = [data EXCEPT ![o] = IF state[o] = "finished" THEN reply[o] ELSE @]
  /\ state' = [state EXCEPT ![o] = "finished"]
  /\ Goto(o, "completion", IF state[o] = "finished" THEN "notify" ELSE "block")
  /\ UNCHANGED <<isCancelled, task, reply, queue>>

\* on an error nothing is stored: data keeps its nil
StoreData(o) ==
  /\ pc[o]["completion"] = "block"
  /\ data' = [data EXCEPT ![o] = reply[o]]
  /\ Goto(o, "completion", "finish")
  /\ UNCHANGED <<state, isCancelled, task, reply, queue>>

-----------------------------------------------------------------------------
(* canceller: task?.cancel(), Operation.cancel(), state = .finished        *)

CancelTask(o) ==
  /\ o \in Cancellable
  /\ queue[o] # "new"
  /\ pc[o]["canceller"] = "idle"
  /\ task' = [task EXCEPT ![o] = IF @ = "running" THEN "cancelling" ELSE @]
  /\ Goto(o, "canceller", "super")
  /\ UNCHANGED <<state, isCancelled, data, reply, queue>>

\* Operation.cancel() does nothing to an operation that is finished
SuperCancel(o) ==
  /\ pc[o]["canceller"] = "super"
  /\ isCancelled' = [isCancelled EXCEPT ![o] = @ \/ state[o] # "finished"]
  /\ Goto(o, "canceller", "finish")
  /\ UNCHANGED <<state, data, task, reply, queue>>

-----------------------------------------------------------------------------
ThreadStep(o, t) == SetState(o, t) \/ DidSet(o, t)

\* everything that happens without being asked for again
Progress(o) ==
  \/ Dispatch(o)
  \/ Start(o)
  \/ Main(o)
  \/ TaskEnds(o)
  \/ StoreData(o)
  \/ SuperCancel(o)
  \/ \E t \in Threads : ThreadStep(o, t)

Next == \E o \in Ops : addOperation(o) \/ CancelTask(o) \/ Progress(o)

Spec == Init /\ [][Next]_vars

\* Worker threads and the dispatch queue run what they are given, and a
\* request ends: timeoutIntervalForRequest is 30 seconds.  Nobody must cancel.
Fairness ==
  \A o \in Ops :
    /\ WF_vars(Dispatch(o)) /\ WF_vars(Start(o)) /\ WF_vars(Main(o))
    /\ WF_vars(TaskEnds(o)) /\ WF_vars(StoreData(o)) /\ WF_vars(SuperCancel(o))
    /\ \A t \in Threads : WF_vars(ThreadStep(o, t))

FairSpec == Spec /\ Fairness

-----------------------------------------------------------------------------
(* Properties                                                              *)

TypeOK ==
  /\ state \in [Ops -> States]
  /\ isCancelled \in [Ops -> BOOLEAN]
  /\ data \in [Ops -> Bodies \cup {NoData}]
  /\ task \in [Ops -> {"none", "running", "cancelling", "ended"}]
  /\ reply \in [Ops -> Bodies \cup {NoData}]
  /\ queue \in [Ops -> {"new", "queued", "starting", "finished"}]
  /\ pc \in [Ops -> [Threads -> Steps]]

\* When the queue lets the dependents of an operation start, the request has
\* ended and data is what it answered, unless cancel() was called: what
\* ParseDataOperation reads is never half a result.
FinishedMeansDelivered ==
  \A o \in Ops :
    queue[o] = "finished" /\ pc[o]["canceller"] = "idle"
      => task[o] = "ended" /\ data[o] = reply[o]

\* An operation whose completion block has run and that the queue still holds
\* was overtaken: start() stored .executing over .finished before didSet read
\* the property again, or cancel() has since stored .finished once more and is
\* about to announce it.  No other interleaving loses the end of a request.
HangOnlyByOverwrite ==
  \A o \in Ops :
    pc[o]["completion"] = "done" /\ queue[o] # "finished"
      => \/ state[o] = "executing" /\ pc[o]["worker"] \in {"notify", "done"}
         \/ state[o] = "finished" /\ pc[o]["canceller"] = "notify"

\* Where the three threads of an operation can be relative to one another, and
\* what they have stored by then.
ThreadInv(o) ==
  LET worker == pc[o]["worker"]
      completion == pc[o]["completion"]
      canceller == pc[o]["canceller"]
  IN  /\ queue[o] \in {"new", "queued"} => worker = "idle"
      /\ queue[o] = "new" => canceller = "idle"
      /\ worker \in {"idle", "start", "main", "finish"} => task[o] = "none"
      /\ worker = "execute" => task[o] # "none"
      /\ worker \in {"idle", "start", "main", "execute", "finish"}
           => state[o] # "executing"
      /\ completion = "idle" <=> task[o] # "ended"
      /\ completion \in {"idle", "block"} => data[o] = NoData
      /\ completion \in {"finish", "notify", "done"} => data[o] = reply[o]
      /\ completion \in {"notify", "done"} => state[o] # "ready"
      /\ worker \in {"idle", "start", "main", "execute", "finish", "notify", "done"}
      /\ completion \in {"idle", "block", "finish", "notify", "done"}
      /\ canceller \in {"idle", "super", "finish", "notify", "done"}
      /\ canceller = "idle" =>
           /\ ~isCancelled[o]
           /\ worker # "finish"
           /\ completion \in {"idle", "block", "finish"} => state[o] # "finished"
           /\ queue[o] = "finished" => completion \in {"notify", "done"}

\* The inductive invariant behind FinishedMeansDelivered, HangOnlyByOverwrite
\* and ImplementsContract: no thread is ahead of what the others have stored.
OperationInv == TypeOK /\ HangOnlyByOverwrite /\ \A o \in Ops : ThreadInv(o)

\* the completion block's .finished was overwritten and every thread is gone
Hung(o) ==
  /\ state[o] = "executing"
  /\ queue[o] # "finished"
  /\ \A t \in {"worker", "completion"} : pc[o][t] = "done"
  /\ pc[o]["canceller"] \in {"idle", "done"}

\* Every operation on the queue is finished or is left hung by start()
\* storing .executing last: there is no third outcome, whatever is cancelled.
EveryFetchEnds ==
  \A o \in Ops : queue[o] = "queued" ~> queue[o] = "finished" \/ Hung(o)

\* A request that is still running when start() has stored .executing always
\* releases the chain, whether it succeeds, fails or is cancelled.
ReturnedStartEnds ==
  \A o \in Ops :
    task[o] \in {"running", "cancelling"} /\ pc[o]["worker"] = "done"
      ~> queue[o] = "finished"

\* What the operation chain takes for granted: an operation put on the queue
\* is finished some day, so that its dependents run.
ChainProceeds ==
  \A o \in Ops : queue[o] = "queued" ~> queue[o] = "finished"

\* Three unlocked threads implement the contract the chain is built on: one
\* answer, one end, and no end before the answer unless cancel() was called.
Contract ==
  INSTANCE FetchContract WITH
    status <- [o \in Ops |-> IF queue[o] \in {"new", "finished"}
                                THEN queue[o] ELSE "pending"],
    answered <- {o \in Ops :
                   pc[o]["completion"] \in {"finish", "notify", "done"}},
    cancelled <- {o \in Ops : pc[o]["canceller"] # "idle"}

ImplementsContract == Contract!FetchSpec
=============================================================================
