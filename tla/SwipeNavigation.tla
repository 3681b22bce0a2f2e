-------------------------- MODULE SwipeNavigation --------------------------
(***************************************************************************)
(* RotationNavigationController (RotationAnimator.swift) and its           *)
(* CustomSwipeCloseTransition: pushes and pops are animated, and a swipe   *)
(* from the left edge drives a pop interactively.                          *)
(*                                                                         *)
(* UIKit is modelled by what the code relies on: one transition at a time, *)
(* during which nothing else can be touched; the stack changes when the    *)
(* animator completes the transition, and stays when it was cancelled or   *)
(* the animation did not finish; an interactive transition waits for       *)
(* finish() or cancel().                                                   *)
(***************************************************************************)
EXTENDS Naturals, Sequences

CONSTANTS Controllers, Root,
          MaxDepth,      \* bound: controllers on the stack
          MaxRecognizers \* bound: recognizers on a view

ASSUME NavigationAssumption ==
  Root \in Controllers /\ MaxDepth \in Nat /\ MaxRecognizers \in Nat

VARIABLES
  stack,          \* viewControllers
  transition,     \* the stack it leads to, whether a swipe drives it, and whether
                  \* it was cancelled; Still when there is none
  viewController, \* of interactiveTransition
  recognizers,    \* edge recognizers on the view of each controller
  hasStarted, shouldFinish,
  gesture,        \* "none", or "began" while a finger is there
  interrupted     \* the last push was called off by UIKit

navigationVars == <<stack, transition, viewController, recognizers, hasStarted,
                    shouldFinish, gesture, interrupted>>

Still == [to |-> <<>>, push |-> FALSE, interactive |-> FALSE, state |-> "none"]

NavigationInit ==
  /\ stack = <<Root>>
  /\ transition = Still
  /\ viewController = Root
  /\ recognizers = [c \in Controllers |-> 0]
  /\ hasStarted = FALSE /\ shouldFinish = FALSE
  /\ gesture = "none"
  /\ interrupted = FALSE

Top == stack[Len(stack)]

----------------------------------------------------------------------------
(* The delegate methods of RotationNavigationController                    *)

\* viewController.didSet puts another recognizer on the view
SetViewController(c) ==
  /\ recognizers[c] < MaxRecognizers
  /\ viewController' = c
  /\ recognizers' = [recognizers EXCEPT ![c] = @ + 1]

\* mutant: the root gets a recognizer as well
animationControllerForAny(to, push) == SetViewController(to[Len(to)])

\* a swipe on the root has nothing to pop: it gets no recognizer
animationControllerFor(to, push) ==
  IF push \/ to[Len(to)] # Root
  THEN SetViewController(to[Len(to)])
  ELSE UNCHANGED <<viewController, recognizers>>

\* interactionControllerFor: driven by the swipe if one has started
StartTransition(to, push, started) ==
  /\ transition' = [to |-> to, push |-> push, interactive |-> started, state |-> "running"]
  /\ animationControllerFor(to, push)

Push(c) ==
  /\ transition = Still /\ gesture = "none"
  /\ Len(stack) < MaxDepth /\ \A k \in DOMAIN stack : stack[k] # c
  /\ StartTransition(Append(stack, c), TRUE, hasStarted)
  /\ interrupted' = FALSE
  /\ UNCHANGED <<stack, hasStarted, shouldFinish, gesture>>

\* the back button, or the tab that pops to the root
Pop(depth) ==
  /\ transition = Still /\ gesture = "none"
  /\ depth < Len(stack)
  /\ StartTransition(SubSeq(stack, 1, depth), FALSE, hasStarted)
  /\ UNCHANGED <<stack, hasStarted, shouldFinish, gesture, interrupted>>

----------------------------------------------------------------------------
(* handleScreenEdgeGesture                                                 *)

\* popViewController does nothing when viewController is not on a stack any more
SwipeBegan ==
  /\ transition = Still /\ gesture = "none"
  /\ recognizers[Top] > 0
  /\ hasStarted' = TRUE
  /\ IF Len(stack) > 1 /\ \E k \in DOMAIN stack : stack[k] = viewController
     THEN StartTransition(SubSeq(stack, 1, Len(stack) - 1), FALSE, TRUE)
     ELSE UNCHANGED <<transition, viewController, recognizers>>
  /\ gesture' = "began"
  /\ UNCHANGED <<stack, shouldFinish, interrupted>>

\* beyond a third of the way or not; began leaves the value of the last swipe
SwipeChanged(beyond) ==
  /\ gesture # "none"
  /\ shouldFinish' = beyond
  /\ UNCHANGED <<stack, transition, viewController, recognizers, hasStarted, gesture,
                 interrupted>>

\* finish() and cancel() of UIPercentDrivenInteractiveTransition
Drive(state) ==
  transition' = IF transition.interactive /\ transition.state = "running"
                THEN [transition EXCEPT !.state = state] ELSE transition

\* .ended, and .cancelled by the system
SwipeEnds ==
  /\ gesture # "none"
  /\ gesture' = "none"
  /\ hasStarted' = FALSE
  /\ \/ Drive(IF shouldFinish THEN "finished" ELSE "cancelled")
     \/ Drive("cancelled")
  /\ UNCHANGED <<stack, viewController, recognizers, shouldFinish, interrupted>>

----------------------------------------------------------------------------
(* The animators' completion block                                         *)

\* mutant: a cancelled transition is not completed
CompleteUncancelled(finished) ==
  /\ transition # Still
  /\ transition.interactive => transition.state = "finished"
  /\ stack' = IF finished THEN transition.to ELSE stack
  /\ interrupted' = (interrupted \/ (transition.push /\ ~finished))
  /\ transition' = Still
  /\ UNCHANGED <<viewController, recognizers, hasStarted, shouldFinish, gesture>>

\* completeTransition(finished && !transitionWasCancelled)
CompleteTransition(finished) ==
  /\ transition # Still
  /\ transition.interactive => transition.state # "running"
  /\ stack' = IF finished /\ transition.state # "cancelled" THEN transition.to ELSE stack
  /\ interrupted' = (interrupted \/ (transition.push /\ ~finished))
  /\ transition' = Still
  /\ UNCHANGED <<viewController, recognizers, hasStarted, shouldFinish, gesture>>

NavigationNext ==
  \/ \E c \in Controllers \ {Root} : Push(c)
  \/ \E depth \in 1 .. MaxDepth : Pop(depth)
  \/ SwipeBegan \/ SwipeEnds
  \/ \E beyond \in BOOLEAN : SwipeChanged(beyond)
  \/ \E finished \in BOOLEAN : CompleteTransition(finished)

NavigationSpec == NavigationInit /\ [][NavigationNext]_navigationVars

\* animations run to their end, and a finger is lifted some time
NavigationFairness ==
  /\ WF_navigationVars(\E finished \in BOOLEAN : CompleteTransition(finished))
  /\ WF_navigationVars(SwipeEnds)

----------------------------------------------------------------------------
(* Properties                                                              *)

\* An interactive transition has a finger that drives it: no push and no pop by
\* the back button is made interactive by what an earlier swipe left behind.
InteractiveIsDriven ==
  transition.interactive /\ transition.state = "running" => gesture # "none"

\* Whatever was pushed, popped, swiped and called off: every controller above the
\* root can be swiped away, unless UIKit called the last push off, and the root
\* cannot.
SwipeReachesStack ==
  /\ recognizers[Root] = 0
  /\ transition = Still /\ Len(stack) > 1 =>
       /\ recognizers[Top] > 0
       /\ interrupted \/ \E k \in DOMAIN stack : stack[k] = viewController

\* What the delegate remembers and the stack stay together, whatever was pushed,
\* popped, swiped and called off.
NavigationInOrder == InteractiveIsDriven /\ SwipeReachesStack

\* Every transition ends, so that the screen can be touched again.
TransitionEnds == transition # Still ~> transition = Still
=============================================================================
