------------------------ MODULE MCGetDataOperation ------------------------
(***************************************************************************)
(* Two operations on the queue and one response body.  The operations      *)
(* share no state, so two are enough to see that none disturbs another.    *)
(***************************************************************************)
EXTENDS GetDataOperation

CONSTANTS o1, o2, body

MCOps == {o1, o2}
MCBodies == {body}
MCCancelNone == {}
=============================================================================
