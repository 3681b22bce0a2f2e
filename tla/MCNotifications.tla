-------------------------- MODULE MCNotifications --------------------------
(* Instances of Notifications for TLC                                      *)
EXTENDS Notifications, TLC

CONSTANTS n1, n2, c1, c2

\* one callback, both on one collection, or each on its own
Single == c1 :> n1
Shared == c1 :> n1 @@ c2 :> n1
Separate == c1 :> n1 @@ c2 :> n2

Use(of, ways, versions) == [of |-> of, ways |-> ways, versions |-> versions]

MixedUses == {Use(Shared, {}, 3), Use(Separate, {}, 2), Use(Single, {"span"}, 4),
              Use(Single, {"suppress"}, 4), Use(Single, Ways, 3)}
=============================================================================
