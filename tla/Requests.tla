------------------------------ MODULE Requests ------------------------------
(***************************************************************************)
(* The requests that do not go through an operation:                       *)
(* PromiseNetworkService.VKRequestPromise,                                 *)
(* VKRequestService.loadFriendPhoto, VKNewsService.loadNews and            *)
(* GetDataRequest with its delegate.  URLSession calls back on a queue of  *)
(* its own (the main queue for the delegate); the closures pass the work   *)
(* on to the global or to the main queue.                                  *)
(***************************************************************************)
EXTENDS Naturals, Sequences

\* The requests and how each is made: "promise", "photo", "news" or "delegate".
CONSTANT Way

VARIABLES
  phase,      \* of each request: "new", "called", "resumed", "answered", "settled",
              \* or "silent" when it is over and its caller not told
  answer,     \* what came back: an error, nothing, or a body that decodes or does not
  mainQueue,  \* requests whose block waits on the main queue
  handlers,   \* GetDataRequestDelegate.handlers
  received,   \* GetDataRequestDelegate.data: requests that have an entry
  trapped     \* a force-unwrapped nil ended the process

requestsVars == <<phase, answer, mainQueue, handlers, received, trapped>>

RequestsInit ==
  /\ phase = [r \in DOMAIN Way |-> "new"]
  /\ answer = [r \in DOMAIN Way |-> "none"]
  /\ mainQueue = <<>>
  /\ handlers = {} /\ received = {}
  /\ trapped = FALSE

Enters(r, from, to) ==
  /\ ~trapped
  /\ phase[r] = from
  /\ phase' = [phase EXCEPT ![r] = to]

\* loadNews makes its task on the global queue and does not resume it
loadNews(r) ==
  /\ Way[r] = "news"
  /\ Enters(r, "new", "called")
  /\ UNCHANGED <<answer, mainQueue, handlers, received, trapped>>

\* task?.resume(); getData also appends the handler
Resume(r) ==
  /\ Way[r] # "news"
  /\ Enters(r, "new", "resumed")
  /\ handlers' = IF Way[r] = "delegate" THEN handlers \cup {r} ELSE handlers
  /\ UNCHANGED <<answer, mainQueue, received, trapped>>

\* didReceive: data[taskIdentifier]!.append(data), and nothing makes the entry
DidReceive(r) ==
  /\ Way[r] = "delegate"
  /\ Enters(r, "resumed", "resumed")
  /\ r \notin received
  /\ trapped' = TRUE
  /\ UNCHANGED <<answer, mainQueue, handlers, received>>

\* the session's completion closure; URLSession gives up after 30 seconds
Completes(r, a) ==
  /\ Way[r] # "delegate"
  /\ Enters(r, "resumed", "answered")
  /\ answer' = [answer EXCEPT ![r] = a]
  /\ mainQueue' = IF Way[r] = "photo" THEN Append(mainQueue, r) ELSE mainQueue
  /\ UNCHANGED <<handlers, received, trapped>>

\* didCompleteWithError: the guard returns before the handler is called or removed
DidComplete(r, a) ==
  /\ Way[r] = "delegate"
  /\ a \in {"undecodable", "decodable"} => r \in received
  /\ Enters(r, "resumed", IF r \in received /\ a # "error" THEN "settled" ELSE "silent")
  /\ answer' = [answer EXCEPT ![r] = a]
  /\ handlers' = IF r \in received THEN handlers \ {r} ELSE handlers
  /\ UNCHANGED <<mainQueue, received, trapped>>

\* mutant: an error is only printed
SettlePrintsError(r) ==
  /\ Way[r] = "promise" /\ answer[r] # "nothing"
  /\ Enters(r, "answered", IF answer[r] = "decodable" THEN "settled" ELSE "silent")
  /\ UNCHANGED <<answer, mainQueue, handlers, received, trapped>>

\* on the global queue; a body that does not decode is printed
Settle(r) ==
  /\ Way[r] = "promise" /\ answer[r] # "nothing"
  /\ Enters(r, "answered", IF answer[r] = "undecodable" THEN "silent" ELSE "settled")
  /\ UNCHANGED <<answer, mainQueue, handlers, received, trapped>>

\* neither data nor an error: "No data" as! Error, and a String is no Error
SettleNothing(r) ==
  /\ Way[r] = "promise" /\ answer[r] = "nothing"
  /\ Enters(r, "answered", "silent")
  /\ trapped' = TRUE
  /\ UNCHANGED <<answer, mainQueue, handlers, received>>

\* on the main queue; only a photo that comes with neither is not answered
RunMain ==
  /\ mainQueue # <<>>
  /\ LET r == Head(mainQueue)
     IN Enters(r, "answered", IF answer[r] = "nothing" THEN "silent" ELSE "settled")
  /\ mainQueue' = Tail(mainQueue)
  /\ UNCHANGED <<answer, handlers, received, trapped>>

Answers == {"error", "nothing", "undecodable", "decodable"}

RequestsNext ==
  \/ RunMain
  \/ \E r \in DOMAIN Way :
       \/ Resume(r) \/ loadNews(r) \/ DidReceive(r)
       \/ Settle(r) \/ SettleNothing(r)
       \/ \E a \in Answers : Completes(r, a) \/ DidComplete(r, a)

\* URLSession answers or times out, and queues run their blocks
RequestsFairness ==
  /\ WF_requestsVars(RunMain)
  /\ \A r \in DOMAIN Way :
       /\ WF_requestsVars(Settle(r) \/ SettleNothing(r))
       /\ WF_requestsVars(\E a \in Answers : Completes(r, a) \/ DidComplete(r, a))

----------------------------------------------------------------------------
(* Properties                                                              *)

\* The requests whose callers never hear anything.
Unheard(r) ==
  \/ Way[r] \in {"news", "delegate"}
  \/ Way[r] = "promise" /\ answer[r] = "undecodable"
  \/ Way[r] = "photo" /\ answer[r] = "nothing"

\* Which callers are told, exactly: those of a photo or a promise, unless the promise's
\* body does not decode or the photo comes without one.  Nobody is told news, and
\* nobody is told anything by the delegate, with or without a body.  The process ends
\* before they are only at a delegate's first chunk or a promise without a body.
CallersTold ==
  /\ \A r \in DOMAIN Way :
       /\ [](Unheard(r) => phase[r] # "settled")
       /\ phase[r] # "new" ~> phase[r] = "settled" \/ Unheard(r) \/ trapped
  /\ [](trapped => \E r \in DOMAIN Way :
           \/ Way[r] = "delegate" /\ phase[r] = "resumed"
           \/ Way[r] = "promise" /\ answer[r] = "nothing")
=============================================================================
