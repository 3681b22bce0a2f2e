---------------------------- MODULE MCDownloads ----------------------------
(***************************************************************************)
(* The two downloads that keep what they get, side by side: friends for    *)
(* the store, and pictures for the rows of a table.  They share nothing,   *)
(* and a behaviour is about one of them; the other stays as it is at       *)
(* first.                                                                  *)
(*   friends   two chains at a time.  The server sends one list of two     *)
(*             friends, one that shares a friend with it, one that names a *)
(*             friend twice, and a body that does not decode.              *)
(*   pictures  two of the three URLs end in the same path component, so    *)
(*             that one file serves both.  Two downloads at a time for a   *)
(*             row whose URL changes.                                      *)
(***************************************************************************)
EXTENDS FriendsFetch, ImageService

CONSTANTS o1, o2, friendsA, friendsB, twice, garbage, ann, bob, cy,
          u1, u2, u3, n12, n3, r1, l1, l2

VARIABLE part

MCOps == {o1, o2}
MCBodies == {friendsA, friendsB, twice, garbage}
MCIds == {ann, bob, cy}
MCItems == [b \in {friendsA, friendsB, twice} |->
              CASE b = friendsA -> <<ann, bob>>
                [] b = friendsB -> <<bob, cy>>
                [] b = twice    -> <<cy, cy>>]
MCCancellable == {o1}

MCUrls == {u1, u2, u3}
MCNames == {n12, n3}
MCFileName == [u \in MCUrls |-> IF u = u3 THEN n3 ELSE n12]
MCRows == {r1}
MCLoads == {l1, l2}

downloadsVars == <<part, friendsVars, vars>>

DownloadsInit ==
  /\ part \in {"friends", "pictures"}
  /\ FriendsInit /\ Init
  /\ part = "friends" => rowUrl = [r \in Rows |-> u1]

DownloadsNext ==
  /\ UNCHANGED part
  /\ \/ part = "friends" /\ FriendsNext /\ UNCHANGED vars
     \/ part = "pictures" /\ Next /\ UNCHANGED friendsVars

DownloadsSpec ==
  /\ DownloadsInit /\ [][DownloadsNext]_downloadsVars
  /\ FriendsFairness /\ Fairness
=============================================================================
