------------------------------- MODULE MCApp -------------------------------
(***************************************************************************)
(* The application's parts that share no state, checked side by side: the  *)
(* interactive navigation, RealmRequestService, the requests outside the   *)
(* operation chain, and the first operation of that chain, run twice and   *)
(* cancelled once.  A behaviour is about one part; the others stay as they *)
(* are at first.                                                           *)
(***************************************************************************)
EXTENDS SwipeNavigation, RealmRequests, Requests, GetDataOperation, TLC

CONSTANTS root, c1, c2, t1, t2, o1, o2, body

VARIABLE part

MCControllers == {root, c1, c2}
MCWay == "a" :> "promise" @@ "b" :> "photo" @@ "c" :> "photo" @@ "d" :> "delegate"
            @@ "e" :> "news"

MCOps == {o1, o2}
MCBodies == {body}
MCCancelOne == {o1}

appVars == <<part, navigationVars, requestVars, requestsVars, vars>>

AppInit ==
  /\ part \in {"navigation", "realm", "requests", "operation"}
  /\ NavigationInit /\ RequestInit /\ RequestsInit /\ Init

AppNext ==
  /\ UNCHANGED part
  /\ \/ /\ part = "navigation" /\ NavigationNext
        /\ UNCHANGED <<requestVars, requestsVars, vars>>
     \/ /\ part = "realm" /\ RequestNext
        /\ UNCHANGED <<navigationVars, requestsVars, vars>>
     \/ /\ part = "requests" /\ RequestsNext
        /\ UNCHANGED <<navigationVars, requestVars, vars>>
     \/ /\ part = "operation" /\ Next
        /\ UNCHANGED <<navigationVars, requestVars, requestsVars>>

AppSpec ==
  /\ AppInit /\ [][AppNext]_appVars
  /\ NavigationFairness /\ RequestFairness /\ RequestsFairness /\ Fairness
=============================================================================
