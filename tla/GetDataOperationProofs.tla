----------------------- MODULE GetDataOperationProofs -----------------------
(***************************************************************************)
(* OperationInv is an inductive invariant of GetDataOperation, for any     *)
(* number of operations, any set of bodies and any operations cancelled.   *)
(***************************************************************************)
EXTENDS GetDataOperation, TLAPS

\* In the initial state no thread has started and nothing is stored.
LEMMA InitOperationInv == Init => OperationInv
BY DEF Init, OperationInv, TypeOK, HangOnlyByOverwrite, ThreadInv, Threads,
       States, Steps

-----------------------------------------------------------------------------
(* Every step is a step of one operation, and leaves the others alone.     *)

\* the two steps of assigning `state`
LEMMA StateStepInv ==
  ASSUME OperationInv, NEW o \in Ops, NEW t \in Threads, ThreadStep(o, t)
  PROVE  OperationInv'
<1> USE GetDataAssumption DEF OperationInv, TypeOK, HangOnlyByOverwrite,
        ThreadInv, Goto, Threads, States, Steps
<1>1. CASE SetState(o, t)
  <2>1. CASE t = "worker"
    BY <1>1, <2>1 DEF SetState
  <2>2. CASE t = "completion"
    BY <1>1, <2>2 DEF SetState
  <2>3. CASE t = "canceller"
    BY <1>1, <2>3 DEF SetState
  <2> QED BY <2>1, <2>2, <2>3
<1>2. CASE DidSet(o, t)
  <2>1. CASE t = "worker"
    BY <1>2, <2>1 DEF DidSet
  <2>2. CASE t = "completion"
    BY <1>2, <2>2 DEF DidSet
  <2>3. CASE t = "canceller"
    BY <1>2, <2>3 DEF DidSet
  <2> QED BY <2>1, <2>2, <2>3
<1> QED BY <1>1, <1>2 DEF ThreadStep

\* No step of the queue or of one of the three threads breaks the invariant.
LEMMA NextOperationInv == OperationInv /\ [Next]_vars => OperationInv'
<1> SUFFICES ASSUME OperationInv, [Next]_vars
             PROVE  OperationInv'
  OBVIOUS
<1>1. CASE UNCHANGED vars
  BY <1>1 DEF vars, OperationInv, TypeOK, HangOnlyByOverwrite, ThreadInv
<1>2. ASSUME NEW o \in Ops, addOperation(o) \/ CancelTask(o) \/ Progress(o)
      PROVE  OperationInv'
  <2>0. CASE \E t \in Threads : ThreadStep(o, t)
    BY <2>0, StateStepInv
  <2> USE GetDataAssumption DEF OperationInv, TypeOK, HangOnlyByOverwrite,
          ThreadInv, Goto, Threads, States, Steps
  <2>1. CASE addOperation(o)
    BY <2>1 DEF addOperation
  <2>2. CASE CancelTask(o)
    BY <2>2 DEF CancelTask
  <2>3. CASE Dispatch(o)
    BY <2>3 DEF Dispatch, isReady
  <2>4. CASE Start(o)
    BY <2>4 DEF Start
  <2>5. CASE Main(o)
    BY <2>5 DEF Main
  <2>6. CASE TaskEnds(o)
    BY <2>6 DEF TaskEnds
  <2>7. CASE StoreData(o)
    BY <2>7 DEF StoreData
  <2>8. CASE SuperCancel(o)
    BY <2>8 DEF SuperCancel
  <2> HIDE DEF OperationInv
  <2> QED
    BY <1>2, <2>0, <2>1, <2>2, <2>3, <2>4, <2>5, <2>6, <2>7, <2>8 DEF Progress
<1> QED BY <1>1, <1>2 DEF Next

\* The inductive invariant holds in every reachable state.
THEOREM OperationInvariant == Spec => []OperationInv
BY InitOperationInv, NextOperationInv, PTL DEF Spec

\* What ParseDataOperation reads is the final answer of the request.
THEOREM DeliveryInvariant == Spec => []FinishedMeansDelivered
<1>1. OperationInv => FinishedMeansDelivered
  BY DEF OperationInv, TypeOK, ThreadInv, FinishedMeansDelivered, Threads, Steps
<1> QED BY <1>1, OperationInvariant, PTL

\* start() overwriting .finished is the only way the end of a request is lost.
THEOREM HangInvariant == Spec => []HangOnlyByOverwrite
<1>1. OperationInv => HangOnlyByOverwrite
  BY DEF OperationInv
<1> QED BY <1>1, OperationInvariant, PTL

-----------------------------------------------------------------------------
(* The refinement.  The mapping is over one operation at a time, so every  *)
(* step maps to the contract's step of the same operation, or to a stutter.*)

\* The initial states of the operation are initial states of the contract.
LEMMA InitImplements == Init => Contract!FetchInit
BY DEF Init, Contract!FetchInit, Threads

\* A step of the queue or of a thread is a step of the contract or invisible.
LEMMA StepImplements ==
  OperationInv /\ [Next]_vars => [Contract!FetchNext]_(Contract!fetchVars)
<1> SUFFICES ASSUME OperationInv, [Next]_vars
             PROVE  [Contract!FetchNext]_(Contract!fetchVars)
  OBVIOUS
<1> USE DEF Contract!fetchVars
<1>1. CASE UNCHANGED vars
  BY <1>1 DEF vars
<1>2. ASSUME NEW o \in Ops, addOperation(o) \/ CancelTask(o) \/ Progress(o)
      PROVE  [Contract!FetchNext]_(Contract!fetchVars)
  <2> USE GetDataAssumption DEF OperationInv, TypeOK, ThreadInv, Goto, Threads,
          States, Steps
  <2>1. CASE addOperation(o)
    <3>1. Contract!Submit(o)
      BY <2>1, ZenonT(30) DEF addOperation, Contract!Submit
    <3> QED BY <3>1 DEF Contract!FetchNext
  <2>2. CASE CancelTask(o)
    <3>1. Contract!Cancel(o)
      BY <2>2 DEF CancelTask, Contract!Cancel
    <3> QED BY <3>1 DEF Contract!FetchNext
  <2>3. CASE StoreData(o)
    <3>1. PICK b \in Bodies \cup {NoData} : b = reply[o]
      OBVIOUS
    <3>2. Contract!Answer(o, b)
      BY <2>3, <3>1 DEF StoreData, Contract!Answer
    <3> QED BY <3>2 DEF Contract!FetchNext
  <2>4. ASSUME NEW t \in Threads, DidSet(o, t)
        PROVE  [Contract!FetchNext]_(Contract!fetchVars)
    <3>1. CASE state[o] = "finished" /\ queue[o] # "finished"
      <4>1. queue[o] # "new"
        BY <2>4, <3>1 DEF DidSet
      <4>2. pc[o]["completion"] \in {"finish", "notify", "done"}
              \/ pc[o]["canceller"] # "idle"
        BY <2>4, <3>1 DEF DidSet
      <4>3. queue' = [queue EXCEPT ![o] = "finished"] /\ UNCHANGED data
        BY <2>4, <3>1 DEF DidSet
      <4>4. \A p \in Ops :
              /\ pc[p]["completion"] \in {"finish", "notify", "done"}
                   <=> pc'[p]["completion"] \in {"finish", "notify", "done"}
              /\ pc[p]["canceller"] = "idle" <=> pc'[p]["canceller"] = "idle"
        BY <2>4 DEF DidSet
      <4> DEFINE status == [p \in Ops |-> IF queue[p] \in {"new", "finished"}
                                            THEN queue[p] ELSE "pending"]
                 answered == {p \in Ops : pc[p]["completion"]
                                            \in {"finish", "notify", "done"}}
                 cancelled == {p \in Ops : pc[p]["canceller"] # "idle"}
      <4>5. status[o] = "pending" /\ o \in answered \cup cancelled
        BY <3>1, <4>1, <4>2
      <4>6. \A p \in Ops : status'[p] = IF p = o THEN "finished" ELSE status[p]
        BY <4>3
      <4>7. status' = [status EXCEPT ![o] = "finished"]
        BY <4>6
      <4>8. UNCHANGED <<answered, data, cancelled>>
        BY <4>3, <4>4
      <4>9. Contract!Finish(o)
        BY <4>5, <4>7, <4>8 DEF Contract!Finish
      <4> QED BY <4>9 DEF Contract!FetchNext
    <3>2. CASE ~(state[o] = "finished" /\ queue[o] # "finished")
      BY <2>4, <3>2 DEF DidSet
    <3> QED BY <3>1, <3>2
  <2>5. ASSUME NEW t \in Threads, SetState(o, t)
        PROVE  UNCHANGED Contract!fetchVars
    BY <2>5 DEF SetState
  <2>6. CASE Dispatch(o)
    BY <2>6 DEF Dispatch
  <2>7. CASE Start(o)
    BY <2>7 DEF Start
  <2>8. CASE Main(o)
    BY <2>8 DEF Main
  <2>9. CASE TaskEnds(o)
    BY <2>9 DEF TaskEnds
  <2>10. CASE SuperCancel(o)
    BY <2>10 DEF SuperCancel
  <2> HIDE DEF OperationInv, Contract!fetchVars
  <2> QED
    BY <1>2, <2>1, <2>2, <2>3, <2>4, <2>5, <2>6, <2>7, <2>8, <2>9, <2>10
       DEF Progress, ThreadStep
<1> QED BY <1>1, <1>2 DEF Next

\* The three unlocked threads implement the contract of the operation chain.
THEOREM Refinement == Spec => ImplementsContract
BY InitImplements, StepImplements, OperationInvariant, PTL
   DEF Spec, ImplementsContract, Contract!FetchSpec
=============================================================================
