----------------------------- MODULE AppProofs -----------------------------
(***************************************************************************)
(* The interactive navigation, RealmRequestService and ImageService, for   *)
(* any controllers, callers, objects, URLs, file names, rows and numbers   *)
(* of downloads.  The three share no state: NavigationInv is an inductive  *)
(* invariant of SwipeNavigation, RequestInv of RealmRequests and ImageInv  *)
(* of ImageService.                                                        *)
(***************************************************************************)
EXTENDS SwipeNavigation, RealmRequests, ImageService, SequenceTheorems, TLAPS

-----------------------------------------------------------------------------
(* Navigation                                                              *)

OnStack(c, s) == \E k \in 1 .. Len(s) : s[k] = c

\* A stack has the root at its bottom and nowhere else, and every controller above
\* it has been given a recognizer; r counts them.
IsStack(s, r) ==
  /\ s \in Seq(Controllers) /\ Len(s) > 0
  /\ s[1] = Root
  /\ \A k \in 2 .. Len(s) : s[k] # Root /\ r[s[k]] > 0

Transitions == [to : Seq(Controllers), push : BOOLEAN, interactive : BOOLEAN,
                state : {"none", "running", "finished", "cancelled"}]

NavigationTyped ==
  /\ transition \in Transitions
  /\ viewController \in Controllers
  /\ recognizers \in [Controllers -> Nat]
  /\ IsStack(stack, recognizers)

\* hasStarted is taken back with the finger.
FingerKnown == gesture = "none" => hasStarted = FALSE

\* What a transition leads to is a stack; a push is not driven by a finger; and one
\* that a finger drives is decided when the finger is lifted.
TransitionSound ==
  transition = Still \/
    /\ IsStack(transition.to, recognizers)
    /\ transition.push => Len(transition.to) > 1 /\ ~transition.interactive
    /\ ~transition.interactive => transition.state = "running"

\* While a finger is there, nothing has been decided.
Undecided == gesture # "none" => transition.state # "finished"

\* The delegate's controller can be found where the transition leads, and, for a
\* pop that is called off, where it came from.
ControllerFound ==
  IF transition = Still
  THEN Len(stack) > 1 => interrupted \/ OnStack(viewController, stack)
  ELSE /\ Len(transition.to) > 1 => OnStack(viewController, transition.to)
       /\ ~transition.push => interrupted \/ OnStack(viewController, stack)

\* The inductive invariant of the navigation.
NavigationInv ==
  /\ NavigationTyped /\ FingerKnown /\ TransitionSound /\ Undecided /\ ControllerFound
  /\ recognizers[Root] = 0
  /\ InteractiveIsDriven

\* Lemmas about stacks.
LEMMA CountedStack ==
  ASSUME NEW r \in [Controllers -> Nat], NEW c \in Controllers, NEW s, IsStack(s, r)
  PROVE  IsStack(s, [r EXCEPT ![c] = @ + 1])
BY DEF IsStack

LEMMA PushedStack ==
  ASSUME NEW r \in [Controllers -> Nat], NEW c \in Controllers, c # Root,
         NEW s, IsStack(s, r)
  PROVE  /\ IsStack(Append(s, c), [r EXCEPT ![c] = @ + 1])
         /\ Len(Append(s, c)) = Len(s) + 1 /\ Append(s, c)[Len(s) + 1] = c
<1> DEFINE u == Append(s, c)
           q == [r EXCEPT ![c] = @ + 1]
<1>1. /\ u \in Seq(Controllers) /\ Len(u) = Len(s) + 1 /\ u[Len(s) + 1] = c
      /\ \A k \in 1 .. Len(s) : u[k] = s[k]
  BY DEF IsStack
<1>2. q[c] > 0 /\ \A d \in Controllers : r[d] > 0 => q[d] > 0
  OBVIOUS
<1>3. \A k \in 1 .. Len(s) : s[k] \in Controllers
  BY DEF IsStack
<1> QED BY <1>1, <1>2, <1>3 DEF IsStack

LEMMA PoppedStack ==
  ASSUME NEW r, NEW s, IsStack(s, r), NEW d \in 1 .. Len(s)
  PROVE  /\ IsStack(SubSeq(s, 1, d), r)
         /\ Len(SubSeq(s, 1, d)) = d
         /\ \A k \in 1 .. d : SubSeq(s, 1, d)[k] = s[k]
<1>1. s \in Seq(Controllers) /\ Len(s) \in Nat
  BY DEF IsStack
<1>2. SubSeq(s, 1, d) \in Seq(Controllers) /\ Len(SubSeq(s, 1, d)) = d
  BY <1>1, SubSeqProperties
<1>3. \A k \in 1 .. d : SubSeq(s, 1, d)[k] = s[k]
  BY <1>1, SubSeqProperties
<1>4. /\ s[1] = Root
      /\ \A k \in 2 .. d : s[k] # Root /\ r[s[k]] > 0
  BY <1>1 DEF IsStack
<1>5. IsStack(SubSeq(s, 1, d), r)
  <2> DEFINE t == SubSeq(s, 1, d)
  <2>1. t[1] = Root /\ \A k \in 2 .. d : t[k] # Root /\ r[t[k]] > 0
    BY <1>3, <1>4, 1 \in 1 .. d, \A k \in 2 .. d : k \in 1 .. d
  <2>2. t \in Seq(Controllers) /\ Len(t) = d
    BY <1>2
  <2> HIDE DEF t
  <2> QED BY <2>1, <2>2 DEF IsStack
<1> QED BY <1>2, <1>3, <1>5

LEMMA OneOrMore ==
  ASSUME NEW n \in Nat, n > 0
  PROVE  n = 1 \/ n > 1
OBVIOUS

\* What the delegate does when a transition to a lower stack begins.
LEMMA PopAnimated ==
  ASSUME NavigationTyped, recognizers[Root] = 0,
         NEW to, IsStack(to, recognizers), animationControllerFor(to, FALSE)
  PROVE  /\ viewController' \in Controllers /\ recognizers' \in [Controllers -> Nat]
         /\ recognizers'[Root] = 0
         /\ IsStack(to, recognizers') /\ IsStack(stack, recognizers')
         /\ Len(to) > 1 => viewController' = to[Len(to)]
         /\ Len(to) = 1 => viewController' = viewController
<1>1. /\ to \in Seq(Controllers) /\ Len(to) \in Nat /\ Len(to) > 0
      /\ to[Len(to)] \in Controllers
  BY DEF IsStack
<1>2. CASE Len(to) = 1
  <2>1. to[Len(to)] = Root
    BY <1>2 DEF IsStack
  <2>2. UNCHANGED <<viewController, recognizers>>
    BY <2>1 DEF animationControllerFor
  <2> QED BY <1>2, <2>2 DEF NavigationTyped
<1>3. CASE Len(to) > 1
  <2>1. to[Len(to)] # Root
    BY <1>1, <1>3 DEF IsStack
  <2>2. /\ viewController' = to[Len(to)]
        /\ recognizers' = [recognizers EXCEPT ![to[Len(to)]] = @ + 1]
    BY <2>1 DEF animationControllerFor, SetViewController
  <2>3. IsStack(to, recognizers') /\ IsStack(stack, recognizers')
    BY <1>1, <2>2, CountedStack DEF NavigationTyped
  <2>4. recognizers' \in [Controllers -> Nat] /\ recognizers'[Root] = 0
    BY <1>1, <2>1, <2>2, NavigationAssumption DEF NavigationTyped
  <2> QED BY <1>1, <1>3, <2>2, <2>3, <2>4
<1>4. Len(to) \in Nat /\ Len(to) > 0
  BY <1>1
<1>5. Len(to) = 1 \/ Len(to) > 1
  BY <1>4, OneOrMore
<1> QED BY <1>2, <1>3, <1>5

\* A pop that begins, by the back button or by a swipe.
LEMMA PopBegins ==
  ASSUME NavigationTyped, recognizers[Root] = 0, NEW d \in 1 .. Len(stack) - 1,
         NEW started \in BOOLEAN,
         interrupted \/ OnStack(viewController, stack),
         StartTransition(SubSeq(stack, 1, d), FALSE, started),
         UNCHANGED <<stack, interrupted>>
  PROVE  /\ NavigationTyped' /\ recognizers'[Root] = 0 /\ ControllerFound'
         /\ transition' = [to |-> SubSeq(stack, 1, d), push |-> FALSE,
                           interactive |-> started, state |-> "running"]
         /\ IsStack(transition'.to, recognizers')
<1> DEFINE to == SubSeq(stack, 1, d)
<1>1. Len(stack) \in Nat /\ d \in 1 .. Len(stack)
  BY DEF NavigationTyped, IsStack
<1>2. IsStack(to, recognizers) /\ Len(to) = d /\ \A k \in 1 .. d : to[k] = stack[k]
  BY <1>1, PoppedStack DEF NavigationTyped
<1>3. transition' = [to |-> to, push |-> FALSE, interactive |-> started, state |-> "running"]
  BY DEF StartTransition
<1> HIDE DEF to
<1>4. /\ viewController' \in Controllers /\ recognizers' \in [Controllers -> Nat]
      /\ recognizers'[Root] = 0
      /\ IsStack(to, recognizers') /\ IsStack(stack, recognizers')
      /\ Len(to) > 1 => viewController' = to[Len(to)]
      /\ Len(to) = 1 => viewController' = viewController
  <2>1. animationControllerFor(to, FALSE)
    BY DEF StartTransition, to
  <2> QED BY <1>2, <2>1, PopAnimated
<1>5. /\ transition' # Still /\ transition'.to = to /\ ~transition'.push
      /\ transition' \in Transitions
  BY <1>2, <1>3 DEF Still, Transitions, IsStack
<1>6. Len(to) > 1 => OnStack(viewController', to) /\ OnStack(viewController', stack)
  BY <1>1, <1>2, <1>4 DEF OnStack
<1>7. interrupted \/ OnStack(viewController', stack)
  BY <1>1, <1>2, <1>4, <1>6
<1> QED
  BY <1>3, <1>4, <1>5, <1>6, <1>7 DEF NavigationTyped, ControllerFound, to

LEMMA PushStep ==
  ASSUME NavigationInv, NEW c \in Controllers \ {Root}, Push(c)
  PROVE  NavigationInv'
<1> DEFINE to == Append(stack, c)
           r == [recognizers EXCEPT ![c] = @ + 1]
<1>1. NavigationTyped /\ transition = Still /\ gesture = "none" /\ hasStarted = FALSE
  BY DEF NavigationInv, FingerKnown, Push
<1>2. IsStack(to, r) /\ IsStack(stack, r) /\ Len(to) = Len(stack) + 1 /\ to[Len(to)] = c
  <2>1. c # Root /\ recognizers \in [Controllers -> Nat] /\ IsStack(stack, recognizers)
    BY <1>1 DEF NavigationTyped
  <2>2. IsStack(to, r) /\ Len(to) = Len(stack) + 1 /\ to[Len(stack) + 1] = c
    BY <2>1, PushedStack
  <2>3. IsStack(stack, r)
    BY <2>1, CountedStack
  <2> QED BY <2>2, <2>3
<1>3. r \in [Controllers -> Nat] /\ r[Root] = 0 /\ Len(stack) \in Nat /\ Len(stack) > 0
  BY <1>1, NavigationAssumption DEF NavigationTyped, NavigationInv, IsStack
<1>4. /\ transition' = [to |-> to, push |-> TRUE, interactive |-> FALSE, state |-> "running"]
      /\ UNCHANGED <<stack, hasStarted, shouldFinish, gesture>> /\ interrupted' = FALSE
      /\ viewController' = c /\ recognizers' = r
  BY <1>1, <1>2 DEF Push, StartTransition, animationControllerFor, SetViewController
<1> HIDE DEF to, r
<1>5. /\ transition' # Still /\ transition'.to = to /\ transition'.push
      /\ ~transition'.interactive /\ transition'.state = "running"
      /\ transition' \in Transitions
  BY <1>2, <1>4 DEF Still, Transitions, IsStack
<1>6. OnStack(c, to)
  BY <1>2, <1>3 DEF OnStack
<1>7. NavigationTyped' /\ recognizers'[Root] = 0 /\ ControllerFound'
  BY <1>2, <1>3, <1>4, <1>5, <1>6 DEF NavigationTyped, ControllerFound
<1>8. TransitionSound' /\ Undecided' /\ InteractiveIsDriven'
  BY <1>2, <1>3, <1>4, <1>5 DEF TransitionSound, Undecided, InteractiveIsDriven
<1>9. FingerKnown'
  BY <1>1, <1>4 DEF FingerKnown
<1> QED BY <1>7, <1>8, <1>9 DEF NavigationInv

LEMMA PopStep ==
  ASSUME NavigationInv, NEW depth \in 1 .. MaxDepth, Pop(depth)
  PROVE  NavigationInv'
<1>1. /\ NavigationTyped /\ transition = Still /\ gesture = "none" /\ hasStarted = FALSE
      /\ recognizers[Root] = 0
  BY DEF NavigationInv, FingerKnown, Pop
<1>2. Len(stack) \in Nat /\ depth \in 1 .. Len(stack) - 1
  BY <1>1, NavigationAssumption DEF Pop, NavigationTyped, IsStack
<1>3. interrupted \/ OnStack(viewController, stack)
  BY <1>1, <1>2 DEF NavigationInv, ControllerFound
<1>4. /\ StartTransition(SubSeq(stack, 1, depth), FALSE, FALSE)
      /\ UNCHANGED <<stack, hasStarted, shouldFinish, gesture, interrupted>>
  BY <1>1 DEF Pop
<1>5. /\ NavigationTyped' /\ recognizers'[Root] = 0 /\ ControllerFound'
      /\ transition' = [to |-> SubSeq(stack, 1, depth), push |-> FALSE,
                        interactive |-> FALSE, state |-> "running"]
      /\ IsStack(transition'.to, recognizers')
  BY <1>1, <1>2, <1>3, <1>4, PopBegins
<1>6. ~transition'.push /\ ~transition'.interactive /\ transition'.state = "running"
  BY <1>5
<1>7. TransitionSound' /\ Undecided' /\ InteractiveIsDriven'
  BY <1>5, <1>6 DEF TransitionSound, Undecided, InteractiveIsDriven
<1>8. FingerKnown'
  BY <1>1, <1>4 DEF FingerKnown
<1> QED BY <1>5, <1>7, <1>8 DEF NavigationInv

LEMMA SwipeBeganStep ==
  ASSUME NavigationInv, SwipeBegan
  PROVE  NavigationInv'
<1>1. /\ NavigationTyped /\ transition = Still /\ recognizers[Root] = 0
      /\ gesture' = "began" /\ UNCHANGED <<stack, shouldFinish, interrupted>>
  BY DEF NavigationInv, SwipeBegan
<1>2. FingerKnown'
  BY <1>1 DEF FingerKnown
<1>3. CASE Len(stack) > 1 /\ \E k \in DOMAIN stack : stack[k] = viewController
  <2>1. Len(stack) - 1 \in 1 .. Len(stack) - 1 /\ OnStack(viewController, stack)
    BY <1>1, <1>3 DEF NavigationTyped, IsStack, OnStack
  <2>2. StartTransition(SubSeq(stack, 1, Len(stack) - 1), FALSE, TRUE)
    BY <1>3 DEF SwipeBegan
  <2>3. /\ NavigationTyped' /\ recognizers'[Root] = 0 /\ ControllerFound'
        /\ transition' = [to |-> SubSeq(stack, 1, Len(stack) - 1), push |-> FALSE,
                          interactive |-> TRUE, state |-> "running"]
        /\ IsStack(transition'.to, recognizers')
    BY <1>1, <2>1, <2>2, PopBegins
  <2>4. ~transition'.push /\ transition'.interactive /\ transition'.state = "running"
    BY <2>3
  <2>5. TransitionSound' /\ Undecided' /\ InteractiveIsDriven'
    BY <1>1, <2>3, <2>4 DEF TransitionSound, Undecided, InteractiveIsDriven
  <2> QED BY <1>2, <2>3, <2>5 DEF NavigationInv
<1>4. CASE ~(Len(stack) > 1 /\ \E k \in DOMAIN stack : stack[k] = viewController)
  <2>1. UNCHANGED <<transition, viewController, recognizers>>
    BY <1>4 DEF SwipeBegan
  <2>2. NavigationTyped' /\ ControllerFound' /\ TransitionSound'
    BY <1>1, <2>1 DEF NavigationInv, NavigationTyped, ControllerFound, TransitionSound
  <2>3. Undecided' /\ InteractiveIsDriven'
    BY <1>1, <2>1 DEF Undecided, InteractiveIsDriven, Still
  <2> QED BY <1>1, <1>2, <2>1, <2>2, <2>3 DEF NavigationInv
<1> QED BY <1>3, <1>4

LEMMA SwipeChangedStep ==
  ASSUME NavigationInv, NEW beyond \in BOOLEAN, SwipeChanged(beyond)
  PROVE  NavigationInv'
BY DEF SwipeChanged, NavigationInv, NavigationTyped, FingerKnown, TransitionSound,
   Undecided,
   ControllerFound, InteractiveIsDriven

\* finish() and cancel() change nothing but the state of an interactive transition.
LEMMA Driven ==
  ASSUME transition \in Transitions, NEW s \in {"finished", "cancelled"}, Drive(s)
  PROVE  /\ transition' \in Transitions
         /\ transition'.to = transition.to /\ transition'.push = transition.push
         /\ transition'.interactive = transition.interactive
         /\ IF transition.interactive /\ transition.state = "running"
            THEN transition'.state = s ELSE transition' = transition
BY DEF Drive, Transitions

LEMMA SwipeEndsStep ==
  ASSUME NavigationInv, SwipeEnds
  PROVE  NavigationInv'
<1>1. /\ transition \in Transitions /\ gesture # "none" /\ gesture' = "none"
      /\ hasStarted' = FALSE
      /\ UNCHANGED <<stack, viewController, recognizers, shouldFinish, interrupted>>
  BY DEF NavigationInv, NavigationTyped, SwipeEnds
<1>2. PICK s \in {"finished", "cancelled"} : Drive(s)
  BY DEF SwipeEnds
<1>3. /\ transition' \in Transitions
      /\ transition'.to = transition.to /\ transition'.push = transition.push
      /\ transition'.interactive = transition.interactive
      /\ IF transition.interactive /\ transition.state = "running"
         THEN transition'.state = s ELSE transition' = transition
  BY <1>1, <1>2, Driven
<1>4. NavigationTyped' /\ FingerKnown' /\ Undecided' /\ recognizers'[Root] = 0
  BY <1>1, <1>3 DEF NavigationInv, NavigationTyped, FingerKnown, Undecided
<1>5. InteractiveIsDriven'
  BY <1>1, <1>2, <1>3 DEF InteractiveIsDriven
<1>6. transition' = Still <=> transition = Still
  BY <1>1, <1>2, <1>3 DEF Still, NavigationInv, TransitionSound
<1>7. ControllerFound'
  BY <1>1, <1>3, <1>6 DEF NavigationInv, ControllerFound
<1>8. TransitionSound'
  BY <1>1, <1>3, <1>6 DEF NavigationInv, TransitionSound
<1> QED BY <1>4, <1>5, <1>7, <1>8 DEF NavigationInv

LEMMA CompleteStep ==
  ASSUME NavigationInv, NEW finished \in BOOLEAN, CompleteTransition(finished)
  PROVE  NavigationInv'
<1>1. /\ NavigationTyped /\ TransitionSound /\ ControllerFound
      /\ transition # Still /\ transition' = Still
      /\ UNCHANGED <<viewController, recognizers, hasStarted, shouldFinish, gesture>>
  BY DEF NavigationInv, CompleteTransition
<1>2. stack' = transition.to \/ stack' = stack
  BY DEF CompleteTransition
<1>3. Still \in Transitions
  BY DEF Still, Transitions
<1>4. NavigationTyped' /\ recognizers'[Root] = 0
  BY <1>1, <1>2, <1>3 DEF NavigationInv, NavigationTyped, TransitionSound
<1>5. FingerKnown' /\ Undecided' /\ TransitionSound' /\ InteractiveIsDriven'
  BY <1>1 DEF NavigationInv, FingerKnown, Undecided, TransitionSound,
     InteractiveIsDriven, Still
<1>6. ASSUME stack' = transition.to PROVE ControllerFound'
  BY <1>1, <1>6 DEF ControllerFound
<1>7. ASSUME stack' = stack, stack # transition.to PROVE ControllerFound'
  <2>1. CASE transition.push
    <3>1. transition.state = "running"
      BY <1>1, <2>1 DEF TransitionSound
    <3>2. ~finished /\ interrupted'
      BY <1>7, <2>1, <3>1 DEF CompleteTransition
    <3> QED BY <1>1, <3>2 DEF ControllerFound
  <2>2. CASE ~transition.push
    <3>1. interrupted => interrupted'
      BY DEF CompleteTransition
    <3> QED BY <1>1, <1>7, <2>2, <3>1 DEF ControllerFound
  <2> QED BY <2>1, <2>2
<1> QED BY <1>2, <1>4, <1>5, <1>6, <1>7 DEF NavigationInv

LEMMA InitNavigationInv == NavigationInit => NavigationInv
<1> SUFFICES ASSUME NavigationInit PROVE NavigationInv
  OBVIOUS
<1>1. Still \in Transitions /\ transition = Still
  BY DEF Still, Transitions, NavigationInit
<1>2. IsStack(<<Root>>, recognizers) /\ Len(<<Root>>) = 1
  BY NavigationAssumption DEF IsStack
<1>3. NavigationTyped
  BY <1>1, <1>2, NavigationAssumption DEF NavigationInit, NavigationTyped
<1>4. FingerKnown /\ TransitionSound /\ Undecided /\ InteractiveIsDriven
  BY <1>1 DEF NavigationInit, FingerKnown, TransitionSound, Undecided,
     InteractiveIsDriven, Still
<1>5. ControllerFound /\ recognizers[Root] = 0
  BY <1>1, <1>2, NavigationAssumption DEF NavigationInit, ControllerFound
<1> QED BY <1>3, <1>4, <1>5 DEF NavigationInv

LEMMA NavigationInvStep ==
  ASSUME NavigationInv, [NavigationNext]_navigationVars
  PROVE  NavigationInv'
<1>1. CASE NavigationNext
  BY <1>1, PushStep, PopStep, SwipeBeganStep, SwipeChangedStep, SwipeEndsStep,
     CompleteStep
  DEF NavigationNext
<1>2. CASE UNCHANGED navigationVars
  BY <1>2 DEF navigationVars, NavigationInv, NavigationTyped, FingerKnown,
     TransitionSound,
     Undecided, ControllerFound, InteractiveIsDriven
<1> QED BY <1>1, <1>2

\* The inductive invariant of the navigation holds throughout.
THEOREM NavigationInvariant == NavigationSpec => []NavigationInv
<1> QED BY InitNavigationInv, NavigationInvStep, PTL DEF NavigationSpec

\* However pushes, pops and swipes follow each other, are cancelled or called off:
\* no transition waits for a finger that is not there, every controller above the
\* root can be swiped away, and the root cannot.
THEOREM NavigationStaysInOrder == NavigationSpec => []NavigationInOrder
<1>1. ASSUME NavigationInv PROVE NavigationInOrder
  <2>1. ASSUME transition = Still, Len(stack) > 1
        PROVE  /\ recognizers[Top] > 0
               /\ interrupted \/ \E k \in DOMAIN stack : stack[k] = viewController
    <3>1. stack \in Seq(Controllers) /\ Len(stack) \in 2 .. Len(stack)
      BY <1>1, <2>1 DEF NavigationInv, NavigationTyped, IsStack
    <3>2. recognizers[Top] > 0
      BY <1>1, <3>1 DEF NavigationInv, NavigationTyped, IsStack, Top
    <3>3. interrupted \/ OnStack(viewController, stack)
      BY <1>1, <2>1 DEF NavigationInv, ControllerFound
    <3> QED BY <3>1, <3>2, <3>3 DEF OnStack
  <2> QED BY <1>1, <2>1 DEF NavigationInOrder, NavigationInv, SwipeReachesStack
<1> QED BY <1>1, NavigationInvariant, PTL

-----------------------------------------------------------------------------
(* RealmRequestService                                                     *)

RequestTyped ==
  /\ at \in [Clients -> {"idle", "opened", "adding", "retrieved", "deleting", "commit"}]
  /\ DOMAIN adding = Clients /\ DOMAIN retrieved = Clients

\* Unless an exception ended the process, whoever is inside a transaction has the
\* write lock.
WriterInside ==
  ~ended => \A c \in Clients : at[c] \in {"adding", "deleting", "commit"} => writer = c

\* Only a call of deleteObjects has retrieved anything.
RetrievedByDelete ==
  \A c \in Clients : at[c] \in {"idle", "opened", "adding"} => retrieved[c] = {}

\* What the version being written lacks: nothing at first, and at the commit only
\* what has a primary key that was retrieved, but all that was retrieved.
WorkingJustified ==
  ~ended => \A c \in Clients :
    /\ at[c] \in {"adding", "deleting"} => committed \subseteq working
    /\ at[c] = "commit" =>
         /\ working \cap retrieved[c] = {}
         /\ \A r \in committed \ working : \E s \in retrieved[c] : r.id = s.id

\* The inductive invariant of RealmRequestService.
RequestInv ==
  /\ RequestTyped /\ WriterInside /\ RetrievedByDelete /\ WorkingJustified

\* Every call is somewhere.
LEMMA RequestTypedStep ==
  ASSUME RequestInv, RequestNext
  PROVE  RequestTyped'
<1>1. RequestTyped
  BY DEF RequestInv
<1> USE <1>1 DEF storeVars
<1>2. ASSUME NEW c \in Clients, NEW keys \in SUBSET Keys \ {{}}, commitObjects(c, keys)
      PROVE  RequestTyped'
  BY <1>2 DEF commitObjects, Goes, RequestTyped
<1>3. ASSUME NEW c \in Clients, CommitOpenFails(c) PROVE RequestTyped'
  BY <1>3 DEF CommitOpenFails, Goes, Quiet, RequestTyped
<1>4. ASSUME NEW c \in Clients, CommitBegins(c) PROVE RequestTyped'
  BY <1>4 DEF CommitBegins, Goes, beginWrite, Quiet, RequestTyped
<1>5. ASSUME NEW c \in Clients, CommitAdds(c) PROVE RequestTyped'
  BY <1>5 DEF CommitAdds, Goes, add, Quiet, RequestTyped
<1>6. ASSUME NEW c \in Clients, CommitThrows(c) PROVE RequestTyped'
  BY <1>6 DEF CommitThrows, rollback, RequestTyped
<1>7. ASSUME NEW c \in Clients, deleteObjects(c) PROVE RequestTyped'
  BY <1>7 DEF deleteObjects, Goes, RequestTyped
<1>8. ASSUME NEW c \in Clients, DeleteBegins(c) PROVE RequestTyped'
  BY <1>8 DEF DeleteBegins, Goes, beginWrite, Quiet, RequestTyped
<1>9. ASSUME NEW c \in Clients, Deletes(c) PROVE RequestTyped'
  BY <1>9 DEF Deletes, Goes, delete, Quiet, RequestTyped
<1>10. ASSUME NEW c \in Clients, Added(c) PROVE RequestTyped'
  BY <1>10 DEF Added, Goes, Quiet, RequestTyped
<1>11. ASSUME NEW c \in Clients, Commits(c) PROVE RequestTyped'
  BY <1>11 DEF Commits, Goes, commitWrite, rollback, Quiet, RequestTyped
<1> QED
  BY <1>2, <1>3, <1>4, <1>5, <1>6, <1>7, <1>8, <1>9, <1>10, <1>11
  DEF RequestNext, ServiceStep

\* The write lock keeps the others out.
LEMMA WriterStep ==
  ASSUME RequestInv, RequestNext
  PROVE  WriterInside'
<1>1. RequestTyped /\ WriterInside
  BY DEF RequestInv
<1> USE <1>1 DEF storeVars
<1>2. ASSUME NEW c \in Clients, NEW keys \in SUBSET Keys \ {{}}, commitObjects(c, keys)
      PROVE  WriterInside'
  BY <1>2, StoreAssumption DEF commitObjects, Goes, RequestTyped, WriterInside
<1>3. ASSUME NEW c \in Clients, CommitOpenFails(c) PROVE WriterInside'
  BY <1>3, StoreAssumption DEF CommitOpenFails, Goes, Quiet, RequestTyped, WriterInside
<1>4. ASSUME NEW c \in Clients, CommitBegins(c) PROVE WriterInside'
  BY <1>4, StoreAssumption DEF CommitBegins, Goes, beginWrite, Quiet, RequestTyped,
     WriterInside
<1>5. ASSUME NEW c \in Clients, CommitAdds(c) PROVE WriterInside'
  BY <1>5, StoreAssumption DEF CommitAdds, Goes, add, Quiet, RequestTyped, WriterInside
<1>6. ASSUME NEW c \in Clients, CommitThrows(c) PROVE WriterInside'
  BY <1>6, StoreAssumption DEF CommitThrows, rollback, RequestTyped, WriterInside
<1>7. ASSUME NEW c \in Clients, deleteObjects(c) PROVE WriterInside'
  BY <1>7, StoreAssumption DEF deleteObjects, Goes, RequestTyped, WriterInside
<1>8. ASSUME NEW c \in Clients, DeleteBegins(c) PROVE WriterInside'
  BY <1>8, StoreAssumption DEF DeleteBegins, Goes, beginWrite, Quiet, RequestTyped,
     WriterInside
<1>9. ASSUME NEW c \in Clients, Deletes(c) PROVE WriterInside'
  BY <1>9, StoreAssumption DEF Deletes, Goes, delete, Quiet, RequestTyped, WriterInside
<1>10. ASSUME NEW c \in Clients, Added(c) PROVE WriterInside'
  BY <1>10, StoreAssumption DEF Added, Goes, Quiet, RequestTyped, WriterInside
<1>11. ASSUME NEW c \in Clients, Commits(c) PROVE WriterInside'
  BY <1>11, StoreAssumption DEF Commits, Goes, commitWrite, rollback, Quiet,
     RequestTyped, WriterInside
<1> QED
  BY <1>2, <1>3, <1>4, <1>5, <1>6, <1>7, <1>8, <1>9, <1>10, <1>11
  DEF RequestNext, ServiceStep

\* What was retrieved is forgotten with the call.
LEMMA RetrievedStep ==
  ASSUME RequestInv, RequestNext
  PROVE  RetrievedByDelete'
<1>1. RequestTyped /\ RetrievedByDelete
  BY DEF RequestInv
<1> USE <1>1 DEF storeVars
<1>2. ASSUME NEW c \in Clients, NEW keys \in SUBSET Keys \ {{}}, commitObjects(c, keys)
      PROVE  RetrievedByDelete'
  BY <1>2 DEF commitObjects, Goes, RequestTyped, RetrievedByDelete
<1>3. ASSUME NEW c \in Clients, CommitOpenFails(c) PROVE RetrievedByDelete'
  BY <1>3 DEF CommitOpenFails, Goes, Quiet, RequestTyped, RetrievedByDelete
<1>4. ASSUME NEW c \in Clients, CommitBegins(c) PROVE RetrievedByDelete'
  BY <1>4 DEF CommitBegins, Goes, beginWrite, Quiet, RequestTyped, RetrievedByDelete
<1>5. ASSUME NEW c \in Clients, CommitAdds(c) PROVE RetrievedByDelete'
  BY <1>5 DEF CommitAdds, Goes, add, Quiet, RequestTyped, RetrievedByDelete
<1>6. ASSUME NEW c \in Clients, CommitThrows(c) PROVE RetrievedByDelete'
  BY <1>6 DEF CommitThrows, rollback, RequestTyped, RetrievedByDelete
<1>7. ASSUME NEW c \in Clients, deleteObjects(c) PROVE RetrievedByDelete'
  BY <1>7 DEF deleteObjects, Goes, RequestTyped, RetrievedByDelete
<1>8. ASSUME NEW c \in Clients, DeleteBegins(c) PROVE RetrievedByDelete'
  BY <1>8 DEF DeleteBegins, Goes, beginWrite, Quiet, RequestTyped, RetrievedByDelete
<1>9. ASSUME NEW c \in Clients, Deletes(c) PROVE RetrievedByDelete'
  BY <1>9 DEF Deletes, Goes, delete, Quiet, RequestTyped, RetrievedByDelete
<1>10. ASSUME NEW c \in Clients, Added(c) PROVE RetrievedByDelete'
  BY <1>10 DEF Added, Goes, Quiet, RequestTyped, RetrievedByDelete
<1>11. ASSUME NEW c \in Clients, Commits(c) PROVE RetrievedByDelete'
  BY <1>11 DEF Commits, Goes, commitWrite, rollback, Quiet, RequestTyped,
     RetrievedByDelete
<1> QED
  BY <1>2, <1>3, <1>4, <1>5, <1>6, <1>7, <1>8, <1>9, <1>10, <1>11
  DEF RequestNext, ServiceStep

\* While a call is inside its transaction nobody else commits, so that what it wrote
\* stays compared with what readers see.
LEMMA WorkingStep ==
  ASSUME RequestInv, RequestNext
  PROVE  WorkingJustified'
<1>1. RequestTyped /\ WriterInside /\ RetrievedByDelete /\ WorkingJustified
  BY DEF RequestInv
<1> USE <1>1 DEF storeVars
<1>2. ASSUME NEW c \in Clients, NEW keys \in SUBSET Keys \ {{}}, commitObjects(c, keys)
      PROVE  WorkingJustified'
  BY <1>2, StoreAssumption DEF commitObjects, Goes, RequestTyped, WriterInside,
     RetrievedByDelete, WorkingJustified
<1>3. ASSUME NEW c \in Clients, CommitOpenFails(c) PROVE WorkingJustified'
  BY <1>3, StoreAssumption DEF CommitOpenFails, Goes, Quiet, RequestTyped, WriterInside,
     RetrievedByDelete, WorkingJustified
<1>4. ASSUME NEW c \in Clients, CommitBegins(c) PROVE WorkingJustified'
  BY <1>4, StoreAssumption DEF CommitBegins, Goes, beginWrite, Quiet, RequestTyped,
     WriterInside, RetrievedByDelete, WorkingJustified
<1>5. ASSUME NEW c \in Clients, CommitAdds(c) PROVE WorkingJustified'
  BY <1>5, StoreAssumption DEF CommitAdds, Goes, add, Quiet, RequestTyped, WriterInside,
     RetrievedByDelete, WorkingJustified
<1>6. ASSUME NEW c \in Clients, CommitThrows(c) PROVE WorkingJustified'
  BY <1>6, StoreAssumption DEF CommitThrows, rollback, RequestTyped, WriterInside,
     RetrievedByDelete, WorkingJustified
<1>7. ASSUME NEW c \in Clients, deleteObjects(c) PROVE WorkingJustified'
  BY <1>7, StoreAssumption DEF deleteObjects, Goes, RequestTyped, WriterInside,
     RetrievedByDelete, WorkingJustified
<1>8. ASSUME NEW c \in Clients, DeleteBegins(c) PROVE WorkingJustified'
  BY <1>8, StoreAssumption DEF DeleteBegins, Goes, beginWrite, Quiet, RequestTyped,
     WriterInside, RetrievedByDelete, WorkingJustified
<1>9. ASSUME NEW c \in Clients, Deletes(c) PROVE WorkingJustified'
  BY <1>9, StoreAssumption DEF Deletes, Goes, delete, Quiet, RequestTyped, WriterInside,
     RetrievedByDelete, WorkingJustified
<1>10. ASSUME NEW c \in Clients, Added(c) PROVE WorkingJustified'
  BY <1>10, StoreAssumption DEF Added, Goes, Quiet, RequestTyped, WriterInside,
     RetrievedByDelete, WorkingJustified
<1>11. ASSUME NEW c \in Clients, Commits(c) PROVE WorkingJustified'
  BY <1>11, StoreAssumption DEF Commits, Goes, commitWrite, rollback, Quiet,
     RequestTyped, WriterInside, RetrievedByDelete, WorkingJustified
<1> QED
  BY <1>2, <1>3, <1>4, <1>5, <1>6, <1>7, <1>8, <1>9, <1>10, <1>11
  DEF RequestNext, ServiceStep

LEMMA InitRequestInv == RequestInit => RequestInv
BY DEF RequestInit, RequestInv, RequestTyped, WriterInside, RetrievedByDelete,
   WorkingJustified

LEMMA RequestInvStep ==
  ASSUME RequestInv, [RequestNext]_requestVars
  PROVE  RequestInv'
<1>1. CASE RequestNext
  BY <1>1, RequestTypedStep, WriterStep, RetrievedStep, WorkingStep DEF RequestInv
<1>2. CASE UNCHANGED requestVars
  BY <1>2 DEF requestVars, storeVars, RequestInv, RequestTyped, WriterInside,
     RetrievedByDelete, WorkingJustified
<1> QED BY <1>1, <1>2

\* The objects that readers see change only when a call commits what it wrote.
LEMMA OnlyCommitsPublish ==
  ASSUME RequestInv, RequestNext, committed' # committed
  PROVE  \E c \in Clients :
           ~ended /\ at[c] = "commit" /\ writer = c /\ committed' = working
<1>1. PICK c \in Clients :
         \/ ServiceStep(c) \/ deleteObjects(c)
         \/ \E keys \in SUBSET Keys \ {{}} : commitObjects(c, keys)
  BY DEF RequestNext
<1>2. Commits(c)
  BY <1>1 DEF ServiceStep, CommitOpenFails, CommitBegins, CommitAdds, CommitThrows,
     Added,
     DeleteBegins, Deletes, deleteObjects, commitObjects, beginWrite, add, delete,
     rollback,
     storeVars
<1> QED BY <1>2 DEF Commits, Goes, commitWrite, rollback

\* The inductive invariant of RealmRequestService holds throughout.
THEOREM RequestInvariant == RequestSpec => []RequestInv
<1> QED BY InitRequestInv, RequestInvStep, PTL DEF RequestSpec

\* Whatever other threads commit between the retrieval and the transaction of
\* deleteObjects: nothing it retrieved survives its commit, and it takes along no
\* object whose primary key it had not retrieved.
THEOREM DeletionIsExact == RequestSpec => DeletionExact
<1>1. ASSUME RequestInv, RequestNext PROVE SurvivorsAreNew /\ DeletesOnlyRetrieved
  <2>1. CASE committed' = committed
    BY <2>1 DEF SurvivorsAreNew, DeletesOnlyRetrieved
  <2>2. CASE committed' # committed
    <3>1. PICK c \in Clients :
             ~ended /\ at[c] = "commit" /\ writer = c /\ committed' = working
      BY <1>1, <2>2, OnlyCommitsPublish
    <3>2. /\ working \cap retrieved[c] = {}
          /\ \A r \in committed \ working : \E s \in retrieved[c] : r.id = s.id
      BY <1>1, <3>1 DEF RequestInv, WorkingJustified
    <3> QED BY <3>1, <3>2 DEF SurvivorsAreNew, DeletesOnlyRetrieved
  <2> QED BY <2>1, <2>2
<1>2. RequestInv /\ [RequestNext]_requestVars
        => [SurvivorsAreNew /\ DeletesOnlyRetrieved]_requestVars
  BY <1>1
<1> QED BY <1>2, RequestInvariant, PTL DEF RequestSpec, DeletionExact

-----------------------------------------------------------------------------
(* Images                                                                  *)

USE ImageAssumption

USE DEF alive

\* Nothing is stored and nothing waits when the application starts.
LEMMA InitImageInv == Init => ImageInv
<1> SUFFICES ASSUME Init PROVE ImageInv
  OBVIOUS
<1>1. TypeOK
  BY DEF Init, TypeOK, Blocks
<1>2. OnlyNamesakes /\ PicturesInPlace /\ ReloadFindsPicture /\ HandedOver
  BY DEF Init, OnlyNamesakes, Namesake, PicturesInPlace, ReloadFindsPicture,
     HandedOver
<1> QED BY <1>1, <1>2 DEF ImageInv, Init

-----------------------------------------------------------------------------
(* The main queue                                                          *)

\* the set blocks carry the right pictures
BlocksInPlace(q) ==
  \A i \in DOMAIN q :
    q[i].kind = "set" => FileName[q[i].image] = FileName[q[i].url]

\* a set block for u waits before position n
Waits(q, u, n) == \E j \in 1 .. n : q[j].kind = "set" /\ q[j].url = u

\* A reload is queued behind the picture it needs, or the picture is there.
ReloadsInOrder(q, imgs) ==
  \A i \in DOMAIN q :
    q[i].kind = "reload" =>
      imgs[q[i].url] # NoImage \/ Waits(q, q[i].url, i - 1)

\* A block at the end of the queue disturbs none that is already there.
LEMMA AppendBlock ==
  ASSUME NEW q \in Seq(Blocks), NEW b \in Blocks
  PROVE  /\ Append(q, b) \in Seq(Blocks)
         /\ DOMAIN Append(q, b) = 1 .. Len(q) + 1
         /\ DOMAIN q = 1 .. Len(q)
         /\ Len(q) \in Nat
         /\ Len(Append(q, b)) = Len(q) + 1
         /\ \A i \in 1 .. Len(q) : Append(q, b)[i] = q[i]
         /\ Append(q, b)[Len(q) + 1] = b
OBVIOUS

\* Taking the first block moves the others one position ahead.
LEMMA TailBlocks ==
  ASSUME NEW q \in Seq(Blocks), q # <<>>
  PROVE  /\ Tail(q) \in Seq(Blocks)
         /\ Head(q) = q[1] /\ Head(q) \in Blocks
         /\ Len(q) \in Nat \ {0}
         /\ DOMAIN q = 1 .. Len(q)
         /\ DOMAIN Tail(q) = 1 .. Len(q) - 1
         /\ Len(Tail(q)) = Len(q) - 1
         /\ \A i \in 1 .. Len(q) - 1 : Tail(q)[i] = q[i + 1]
OBVIOUS

\* A block may be queued when it is a picture, or when its picture waits.
LEMMA AppendKeepsOrder ==
  ASSUME NEW q \in Seq(Blocks), NEW b \in Blocks,
         NEW imgs \in [Urls -> Urls \cup {NoImage}],
         ReloadsInOrder(q, imgs),
         \/ b.kind = "set"
         \/ imgs[b.url] # NoImage
         \/ Waits(q, b.url, Len(q))
  PROVE  /\ ReloadsInOrder(Append(q, b), imgs)
         /\ \A u \in Urls : Waits(q, u, Len(q)) => Waits(Append(q, b), u, Len(q) + 1)
<1> DEFINE a == Append(q, b)
<1>1. \A u \in Urls : \A n \in 0 .. Len(q) : Waits(q, u, n) => Waits(a, u, n)
  BY AppendBlock DEF Waits
<1>2. \A u \in Urls : Waits(a, u, Len(q)) => Waits(a, u, Len(q) + 1)
  BY AppendBlock DEF Waits
<1>3. b.url \in Urls
  BY DEF Blocks
<1>4. ASSUME NEW i \in DOMAIN a, a[i].kind = "reload"
      PROVE  imgs[a[i].url] # NoImage \/ Waits(a, a[i].url, i - 1)
  <2>1. CASE i = Len(q) + 1
    <3>1. a[i] = b /\ i - 1 = Len(q) /\ Len(q) \in 0 .. Len(q)
      BY <2>1, AppendBlock
    <3> QED BY <1>1, <1>3, <1>4, <3>1
  <2>2. CASE i \in 1 .. Len(q)
    <3>1. a[i] = q[i] /\ i \in DOMAIN q /\ q[i] \in Blocks /\ i - 1 \in 0 .. Len(q)
      BY <2>2, AppendBlock
    <3>2. q[i].url \in Urls
      BY <3>1 DEF Blocks
    <3>3. imgs[q[i].url] # NoImage \/ Waits(q, q[i].url, i - 1)
      BY <1>4, <3>1 DEF ReloadsInOrder
    <3> QED BY <1>1, <3>1, <3>2, <3>3
  <2> QED BY <2>1, <2>2, AppendBlock
<1>5. ReloadsInOrder(a, imgs)
  BY <1>4 DEF ReloadsInOrder
<1>6. Len(q) \in 0 .. Len(q)
  BY AppendBlock
<1> QED BY <1>1, <1>2, <1>5, <1>6

\* Once the first block has run, the picture it carried is in place and every
\* other picture waits where it did.
LEMMA TailKeepsOrder ==
  ASSUME NEW q \in Seq(Blocks), q # <<>>,
         NEW old \in [Urls -> Urls \cup {NoImage}],
         NEW imgs \in [Urls -> Urls \cup {NoImage}],
         \A u \in Urls : old[u] # NoImage => imgs[u] # NoImage,
         Head(q).kind = "set" => imgs[Head(q).url] # NoImage,
         ReloadsInOrder(q, old)
  PROVE  /\ ReloadsInOrder(Tail(q), imgs)
         /\ \A u \in Urls : Waits(q, u, Len(q)) =>
              imgs[u] # NoImage \/ Waits(Tail(q), u, Len(q) - 1)
<1> DEFINE t == Tail(q)
<1>1. ASSUME NEW u \in Urls, NEW n \in 1 .. Len(q), Waits(q, u, n)
      PROVE  imgs[u] # NoImage \/ Waits(t, u, n - 1)
  <2>1. PICK j \in 1 .. n : q[j].kind = "set" /\ q[j].url = u
    BY <1>1 DEF Waits
  <2>2. CASE j = 1
    BY <2>1, <2>2, TailBlocks
  <2>3. CASE j # 1
    <3>1. j - 1 \in 1 .. Len(q) - 1 /\ j - 1 \in 1 .. n - 1
      BY <2>1, <2>3, TailBlocks
    <3>2. t[j - 1] = q[(j - 1) + 1] /\ (j - 1) + 1 = j
      BY <3>1, TailBlocks
    <3> QED BY <2>1, <3>1, <3>2 DEF Waits
  <2> QED BY <2>2, <2>3
<1>2. ASSUME NEW i \in DOMAIN t, t[i].kind = "reload"
      PROVE  imgs[t[i].url] # NoImage \/ Waits(t, t[i].url, i - 1)
  <2>1. /\ i \in 1 .. Len(q) - 1 /\ t[i] = q[i + 1] /\ i + 1 \in DOMAIN q
        /\ q[i + 1] \in Blocks /\ i \in 1 .. Len(q) /\ (i + 1) - 1 = i
    BY TailBlocks
  <2>2. t[i].url \in Urls
    BY <2>1 DEF Blocks
  <2>3. old[t[i].url] # NoImage \/ Waits(q, t[i].url, i)
    BY <1>2, <2>1 DEF ReloadsInOrder
  <2> QED BY <1>1, <2>1, <2>2, <2>3
<1>3. Len(q) \in 1 .. Len(q)
  BY TailBlocks
<1> QED BY <1>1, <1>2, <1>3 DEF ReloadsInOrder

-----------------------------------------------------------------------------
(* ImageInv in two parts: the stores, and the main queue seen from them.   *)

StoresInv ==
  /\ images \in [Urls -> Urls \cup {NoImage}]
  /\ files \in [Names -> Urls \cup {NoImage}]
  /\ loads \in [Loads -> {Idle} \cup
                  [row : Rows, url : Urls, step : {"net", "save", "reload"}]]
  /\ rowUrl \in [Rows -> Urls]
  /\ shown \in [Rows -> Urls \cup {NoImage}]
  /\ service \in {"alive", "released", "dead"}
  /\ OnlyNamesakes
  /\ \A n \in Names : files[n] # NoImage => FileName[files[n]] = n

QueueInv(q) ==
  /\ q \in Seq(Blocks)
  /\ BlocksInPlace(q)
  /\ alive =>
       /\ ReloadsInOrder(q, images)
       /\ \A l \in Loads :
            loads[l] # Idle /\ loads[l].step # "net" =>
              images[loads[l].url] # NoImage \/ Waits(q, loads[l].url, Len(q))

DeadInv == service = "dead" => main = <<>> /\ \A l \in Loads : loads[l] = Idle

\* The two parts say what ImageInv says.
LEMMA Parts == ImageInv <=> StoresInv /\ QueueInv(main) /\ DeadInv
<1>1. ASSUME main \in Seq(Blocks)
      PROVE  DOMAIN main = 1 .. Len(main)
  BY <1>1
<1> QED BY <1>1 DEF ImageInv, TypeOK, PicturesInPlace, ReloadFindsPicture,
           HandedOver, StoresInv, QueueInv, DeadInv, BlocksInPlace,
           ReloadsInOrder, Waits

\* A queue may grow by a picture in its place.
LEMMA AppendKeepsQueue ==
  ASSUME NEW q, StoresInv, QueueInv(q), NEW b \in Blocks, b.kind = "set",
         FileName[b.image] = FileName[b.url]
  PROVE  /\ QueueInv(Append(q, b))
         /\ \A u \in Urls : Waits(q, u, Len(q)) =>
              Waits(Append(q, b), u, Len(Append(q, b)))
         /\ Waits(Append(q, b), b.url, Len(Append(q, b)))
<1>1. q \in Seq(Blocks)
  BY DEF QueueInv
<1>2. BlocksInPlace(Append(q, b))
  BY <1>1, AppendBlock DEF QueueInv, BlocksInPlace
<1>3. alive => ReloadsInOrder(Append(q, b), images)
  BY <1>1, AppendKeepsOrder DEF QueueInv, StoresInv
<1>4. \A u \in Urls : Waits(q, u, Len(q)) =>
        Waits(Append(q, b), u, Len(Append(q, b)))
  BY <1>1, AppendBlock DEF Waits
<1>5. Waits(Append(q, b), b.url, Len(Append(q, b)))
  BY <1>1, AppendBlock DEF Waits
<1>6. \A l \in Loads : loads[l] # Idle => loads[l].url \in Urls
  BY DEF StoresInv
<1> QED BY <1>1, <1>2, <1>3, <1>4, <1>5, <1>6, AppendBlock DEF QueueInv

\* photo() keeps both parts, whatever the main queue holds when it is called.
LEMMA PhotoKeepsInv ==
  ASSUME NEW q, StoresInv, QueueInv(q), NEW r \in Rows, photo(r, q),
         UNCHANGED <<images, files, rowUrl, service>>
  PROVE  StoresInv' /\ QueueInv(main)'
<1>0. rowUrl[r] \in Urls /\ FileName[rowUrl[r]] \in Names
  BY DEF StoresInv
<1>1. CASE FromMemory(r, q)
  BY <1>0, <1>1 DEF FromMemory, StoresInv, QueueInv, OnlyNamesakes, Namesake
<1>2. CASE FromCache(r, q)
  <2> DEFINE u == rowUrl[r]
             b == [kind |-> "set", url |-> u, image |-> CachedImage(u)]
  <2>1. CachedImage(u) \in Urls /\ FileName[CachedImage(u)] = FileName[u]
    BY <1>0, <1>2 DEF FromCache, CachedImage, StoresInv
  <2>2. b \in Blocks /\ b.kind = "set" /\ FileName[b.image] = FileName[b.url]
    BY <1>0, <2>1 DEF Blocks
  <2>3. QueueInv(Append(q, b))
    BY <2>2, AppendKeepsQueue
  <2>4. main' = Append(q, b) /\ UNCHANGED loads
    BY <1>2 DEF FromCache
  <2>5. QueueInv(main)'
    BY <2>3, <2>4 DEF QueueInv
  <2>6. StoresInv'
    BY <1>0, <1>2, <2>1 DEF FromCache, StoresInv, OnlyNamesakes, Namesake
  <2> QED BY <2>5, <2>6
<1>3. CASE loadPhoto(r, q)
  BY <1>0, <1>3 DEF loadPhoto, StoresInv, QueueInv, OnlyNamesakes, Namesake
<1> QED BY <1>1, <1>2, <1>3 DEF photo

\* A step of a download keeps the invariant.
LEMMA LoadKeepsInv ==
  ASSUME StoresInv, QueueInv(main), DeadInv, NEW l \in Loads, Load(l)
  PROVE  StoresInv' /\ QueueInv(main)' /\ DeadInv'
<1>0. loads[l] # Idle => loads[l].url \in Urls /\ FileName[loads[l].url] \in Names
  BY DEF StoresInv
<1>1. CASE LoadFails(l)
  BY <1>1 DEF LoadFails, LoadAt, StoresInv, QueueInv, DeadInv, OnlyNamesakes,
     Namesake
<1>2. CASE LoadDelivers(l)
  <2> DEFINE u == loads[l].url
             b == [kind |-> "set", url |-> u, image |-> u]
  <2>1. u \in Urls /\ b \in Blocks /\ b.kind = "set"
    BY <1>0, <1>2 DEF LoadDelivers, LoadAt, Blocks
  <2>2. /\ QueueInv(Append(main, b))
        /\ Waits(Append(main, b), u, Len(Append(main, b)))
    BY <2>1, AppendKeepsQueue
  <2>3. /\ main' = Append(main, b)
        /\ loads' = [loads EXCEPT ![l].step = "save"]
        /\ UNCHANGED <<images, files, rowUrl, shown, service>>
    BY <1>2 DEF LoadDelivers
  <2>4. StoresInv'
    BY <1>2, <2>3 DEF LoadDelivers, LoadAt, StoresInv, OnlyNamesakes, Namesake
  <2>5. \A k \in Loads : k # l => loads'[k] = loads[k]
    BY <2>3 DEF StoresInv
  <2>6. loads'[l].url = u
    BY <1>2, <2>3 DEF LoadDelivers, LoadAt, StoresInv
  <2>7. QueueInv(main)'
    BY <2>2, <2>3, <2>5, <2>6 DEF QueueInv
  <2>8. DeadInv'
    BY <1>2, <2>3 DEF LoadDelivers, LoadAt, DeadInv
  <2> QED BY <2>4, <2>7, <2>8
<1>3. CASE saveImageToCache(l)
  BY <1>0, <1>3 DEF saveImageToCache, LoadAt, StoresInv, QueueInv, DeadInv,
     OnlyNamesakes, Namesake
<1>4. CASE LoadEnds(l)
  <2> DEFINE u == loads[l].url
             b == [kind |-> "reload", row |-> loads[l].row, url |-> u]
  <2>1. b \in Blocks /\ u \in Urls /\ b.url = u /\ main \in Seq(Blocks)
    BY <1>0, <1>4 DEF LoadEnds, LoadAt, Blocks, StoresInv, QueueInv
  <2>2. /\ main' = Append(main, b)
        /\ loads' = [loads EXCEPT ![l] = Idle]
        /\ UNCHANGED <<images, files, rowUrl, shown, service>>
    BY <1>4 DEF LoadEnds
  <2>3. StoresInv' /\ DeadInv'
    BY <1>4, <2>2 DEF LoadEnds, LoadAt, StoresInv, DeadInv, OnlyNamesakes, Namesake
  <2>4. BlocksInPlace(main')
    BY <2>1, <2>2, AppendBlock DEF QueueInv, BlocksInPlace
  <2>5. alive => /\ ReloadsInOrder(main', images)
                 /\ \A v \in Urls : Waits(main, v, Len(main)) =>
                                      Waits(main', v, Len(main'))
    <3>1. SUFFICES ASSUME alive
                   PROVE  /\ ReloadsInOrder(main', images)
                          /\ \A v \in Urls : Waits(main, v, Len(main)) =>
                                               Waits(main', v, Len(main'))
      OBVIOUS
    <3>2. images[b.url] # NoImage \/ Waits(main, b.url, Len(main))
      BY <1>4, <2>1, <3>1 DEF LoadEnds, LoadAt, QueueInv
    <3>3. images \in [Urls -> Urls \cup {NoImage}] /\ ReloadsInOrder(main, images)
      BY <3>1 DEF StoresInv, QueueInv
    <3> QED BY <2>1, <2>2, <3>2, <3>3, AppendKeepsOrder, AppendBlock
  <2>6. \A k \in Loads : loads[k] # Idle => loads[k].url \in Urls
    BY DEF StoresInv
  <2>7. main' \in Seq(Blocks)
    BY <2>1, <2>2
  <2>8. \A k \in Loads : loads'[k] = IF k = l THEN Idle ELSE loads[k]
    BY <2>2 DEF StoresInv
  <2>9. QueueInv(main)'
    BY <2>2, <2>4, <2>5, <2>6, <2>7, <2>8
       DEF QueueInv, BlocksInPlace, ReloadsInOrder, Waits
  <2> QED BY <2>3, <2>9
<1> QED BY <1>1, <1>2, <1>3, <1>4 DEF Load

\* The rest of the queue keeps its order once the first block has run.
LEMMA TailKeepsQueue ==
  ASSUME StoresInv, QueueInv(main), main # <<>>, Head(main).kind = "reload"
  PROVE  QueueInv(Tail(main))
<1>1. main \in Seq(Blocks)
  BY DEF QueueInv
<1>2. Tail(main) \in Seq(Blocks) /\ BlocksInPlace(Tail(main))
  BY <1>1, TailBlocks DEF QueueInv, BlocksInPlace
<1>3. images \in [Urls -> Urls \cup {NoImage}]
  BY DEF StoresInv
<1>4. alive =>
        /\ ReloadsInOrder(Tail(main), images)
        /\ \A u \in Urls : Waits(main, u, Len(main)) =>
             images[u] # NoImage \/ Waits(Tail(main), u, Len(Tail(main)))
  BY <1>1, <1>3, TailKeepsOrder, TailBlocks, SMTT(30) DEF QueueInv
<1>5. \A l \in Loads : loads[l] # Idle => loads[l].url \in Urls
  BY DEF StoresInv
<1> QED BY <1>2, <1>4, <1>5 DEF QueueInv

\* A block that the main thread runs keeps the invariant.
LEMMA RunBlockKeepsInv ==
  ASSUME StoresInv, QueueInv(main), DeadInv, RunBlock
  PROVE  StoresInv' /\ QueueInv(main)' /\ DeadInv'
<1>1. main \in Seq(Blocks) /\ main # <<>> /\ service # "dead"
  BY DEF RunBlock, SetImage, reloadRow, ReloadNothing, QueueInv, DeadInv
<1>2. CASE SetImage
  <2> DEFINE b == Head(main)
  <2>1. /\ b \in Blocks /\ b.kind = "set" /\ b = main[1] /\ 1 \in DOMAIN main
        /\ main' = Tail(main)
        /\ UNCHANGED <<files, loads, rowUrl, shown, service>>
    BY <1>1, <1>2, TailBlocks DEF SetImage
  <2>2. b.url \in Urls /\ b.image \in Urls
    BY <2>1 DEF Blocks
  <2>3. FileName[b.image] = FileName[b.url]
    BY <2>1 DEF QueueInv, BlocksInPlace
  <2>4. images' = IF alive THEN [images EXCEPT ![b.url] = b.image] ELSE images
    BY <1>2 DEF SetImage
  <2>5. StoresInv'
    BY <2>1, <2>2, <2>3, <2>4 DEF StoresInv, OnlyNamesakes, Namesake
  <2>6. Tail(main) \in Seq(Blocks) /\ BlocksInPlace(Tail(main))
    BY <1>1, TailBlocks DEF QueueInv, BlocksInPlace
  <2>7. ASSUME alive
        PROVE  /\ ReloadsInOrder(Tail(main), images')
               /\ \A u \in Urls : Waits(main, u, Len(main)) =>
                    images'[u] # NoImage \/ Waits(Tail(main), u, Len(Tail(main)))
    <3>1. /\ images \in [Urls -> Urls \cup {NoImage}]
          /\ images' \in [Urls -> Urls \cup {NoImage}]
      BY <2>5 DEF StoresInv
    <3>2. /\ \A u \in Urls : images[u] # NoImage => images'[u] # NoImage
          /\ images'[b.url] # NoImage
      BY <2>2, <2>4, <2>7, <3>1
    <3>3. ReloadsInOrder(main, images)
      BY <2>7 DEF QueueInv
    <3>4. /\ ReloadsInOrder(Tail(main), images')
          /\ \A u \in Urls : Waits(main, u, Len(main)) =>
               images'[u] # NoImage \/ Waits(Tail(main), u, Len(main) - 1)
      BY <1>1, <3>1, <3>2, <3>3, TailKeepsOrder
    <3>5. Len(Tail(main)) = Len(main) - 1
      BY <1>1, TailBlocks
    <3> QED BY <3>4, <3>5
  <2>8. \A u \in Urls : alive /\ images[u] # NoImage => images'[u] # NoImage
    BY <2>2, <2>4 DEF StoresInv
  <2>9. \A l \in Loads : loads[l] # Idle => loads[l].url \in Urls
    BY DEF StoresInv
  <2>10. QueueInv(main)'
    BY <2>1, <2>6, <2>7, <2>8, <2>9 DEF QueueInv
  <2> QED BY <1>1, <2>1, <2>5, <2>10 DEF DeadInv
<1>3. CASE reloadRow
  <2>1. PICK q : q = Tail(main)
    OBVIOUS
  <2>2. PICK r : r = Head(main).row
    OBVIOUS
  <2>3. r \in Rows
    BY <1>1, <1>3, <2>2, TailBlocks DEF reloadRow, Blocks
  <2>4. photo(r, q) /\ UNCHANGED <<images, files, rowUrl, service>>
    BY <1>3, <2>1, <2>2 DEF reloadRow, photo, FromMemory, FromCache, loadPhoto
  <2>5. QueueInv(q)
    BY <1>1, <1>3, <2>1, TailKeepsQueue DEF reloadRow
  <2>6. StoresInv' /\ QueueInv(main)'
    BY <2>3, <2>4, <2>5, PhotoKeepsInv
  <2> QED BY <1>1, <2>4, <2>6 DEF DeadInv
<1>4. CASE ReloadNothing
  <2>1. QueueInv(Tail(main))
    BY <1>1, <1>4, TailKeepsQueue DEF ReloadNothing
  <2>2. /\ main' = Tail(main)
        /\ UNCHANGED <<images, files, loads, rowUrl, shown, service>>
    BY <1>4 DEF ReloadNothing
  <2>3. QueueInv(main)'
    BY <2>1, <2>2 DEF QueueInv
  <2> QED BY <1>1, <2>2, <2>3 DEF StoresInv, DeadInv, OnlyNamesakes, Namesake
<1> QED BY <1>2, <1>3, <1>4 DEF RunBlock

\* Every step keeps the invariant.
LEMMA NextImageInv == ImageInv /\ [Next]_vars => ImageInv'
<1> SUFFICES ASSUME StoresInv, QueueInv(main), DeadInv, [Next]_vars
             PROVE  StoresInv' /\ QueueInv(main)' /\ DeadInv'
  <2>1. ImageInv' <=> StoresInv' /\ QueueInv(main)' /\ DeadInv'
    BY Parts, PTL
  <2> QED BY <2>1, Parts
<1>1. ASSUME NEW r \in Rows, cellForRow(r)
      PROVE  StoresInv' /\ QueueInv(main)' /\ DeadInv'
  <2>1. PICK q : q = main
    OBVIOUS
  <2>2. photo(r, q) /\ UNCHANGED <<images, files, rowUrl, service>> /\ alive
    BY <1>1, <2>1 DEF cellForRow, photo, FromMemory, FromCache, loadPhoto
  <2> QED BY <2>1, <2>2, PhotoKeepsInv DEF DeadInv
<1>2. ASSUME NEW l \in Loads, Load(l)
      PROVE  StoresInv' /\ QueueInv(main)' /\ DeadInv'
  BY <1>2, LoadKeepsInv
<1>3. CASE RunBlock
  BY <1>3, RunBlockKeepsInv
<1> USE DEF StoresInv, QueueInv, DeadInv, OnlyNamesakes, Namesake
<1>4. ASSUME NEW r \in Rows, NEW u \in Urls, RowChanges(r, u)
      PROVE  StoresInv' /\ QueueInv(main)' /\ DeadInv'
  BY <1>4 DEF RowChanges
<1>5. ASSUME NEW n \in Names, FileLapses(n)
      PROVE  StoresInv' /\ QueueInv(main)' /\ DeadInv'
  BY <1>5 DEF FileLapses
<1>6. CASE Released
  BY <1>6 DEF Released
<1>7. CASE Terminated
  BY <1>7 DEF Terminated, BlocksInPlace
<1>8. CASE LaunchedAgain
  BY <1>8 DEF LaunchedAgain, ReloadsInOrder, BlocksInPlace
<1>9. CASE UNCHANGED vars
  BY <1>9 DEF vars
<1> QED
  BY <1>1, <1>2, <1>3, <1>4, <1>5, <1>6, <1>7, <1>8, <1>9 DEF Next

\* The inductive invariant holds in every reachable state.
THEOREM ImageInvariant == Spec => []ImageInv
BY InitImageInv, NextImageInv, PTL DEF Spec

\* No row ever shows a picture that the cache could tell from its own.
THEOREM NamesakeTheorem == Spec => []OnlyNamesakes
<1>1. ImageInv => OnlyNamesakes
  BY DEF ImageInv
<1> QED BY <1>1, ImageInvariant, PTL

\* A row is never reloaded before the picture it was loaded for is in place.
THEOREM ReloadTheorem == Spec => []ReloadFindsPicture
<1>1. ImageInv => ReloadFindsPicture
  BY DEF ImageInv
<1> QED BY <1>1, ImageInvariant, PTL
=============================================================================
