------------------------- MODULE FriendsFetchProofs -------------------------
(***************************************************************************)
(* FriendsInv is an inductive invariant of FriendsFetch, for any number of *)
(* concurrent chains, any replies, and crashes and failures at any moment. *)
(***************************************************************************)
EXTENDS FriendsFetch, TLAPS

USE FetchAssumption, StoreAssumption, ItemsAssumption, ClientsAreOps

-----------------------------------------------------------------------------
(* Facts about the objects of a reply                                      *)

\* The index of an item of a decoded reply yields a friend of the table's type.
LEMMA FriendItemType ==
  ASSUME NEW b \in DOMAIN Items, NEW i \in 1 .. Len(Items[b])
  PROVE  FriendItem(b, i) \in Friends /\ FriendItem(b, i).id = Items[b][i]
<1>1. Items[b][i] \in Ids /\ b \in Bodies
  OBVIOUS
<1> QED BY <1>1 DEF FriendItem, Friends

\* Once realm.add has passed the last item it has added the whole reply.
LEMMA AddedAll ==
  ASSUME NEW o \in Ops, output[o] \in DOMAIN Items,
         next[o] = Len(Items[output[o]]) + 1
  PROVE  Added(o) = RowsOf(output[o])
<1>1. Items[output[o]] \in Seq(Ids)
  OBVIOUS
<1>2. 1 .. next[o] - 1 = DOMAIN Items[output[o]]
  BY <1>1
<1> QED BY <1>2 DEF Added, RowsOf

\* Adding an object whose key is not in the table keeps one object per key.
LEMMA AddKeepsKeys ==
  ASSUME NEW objects, NEW object, OnePerKey(objects),
         \A r \in objects : r.id # object.id
  PROVE  OnePerKey(objects \cup {object})
BY DEF OnePerKey

\* A key that clashes with an item added earlier appears twice in the reply.
LEMMA ClashRepeats ==
  ASSUME NEW o \in Ops, output[o] \in DOMAIN Items, next[o] \in Nat \ {0},
         next[o] <= Len(Items[output[o]]),
         working = Added(o), Clash(Items[output[o]][next[o]])
  PROVE  Repeats(output[o])
<1> DEFINE n == next[o]
<1>1. PICK r \in working : r.id = Items[output[o]][n]
  BY DEF Clash
<1>2. PICK i \in 1 .. n - 1 : r = FriendItem(output[o], i)
  BY <1>1 DEF Added
<1>3. i \in 1 .. Len(Items[output[o]]) /\ n \in 1 .. Len(Items[output[o]])
  BY <1>2
<1>4. Items[output[o]][i] = Items[output[o]][n] /\ i < n
  BY <1>1, <1>2, <1>3, FriendItemType
<1>5. i \in DOMAIN Items[output[o]] /\ n \in DOMAIN Items[output[o]]
  BY <1>3
<1> QED BY <1>4, <1>5 DEF Repeats

-----------------------------------------------------------------------------
(* The invariant                                                           *)

\* In the initial state the store is empty and no chain has begun.
LEMMA InitFriendsInv == FriendsInit => FriendsInv
BY DEF FriendsInit, FetchInit, StoreInit, FriendsInv, FriendsTypeOK,
       FetchTypeOK, StoreIsOneReply, OneFriendPerId, OnePerKey,
       ThrowsOnlyOnRepeat, ChainInv, Saving

\* The fetch and the parser leave the store alone; a reply that a dependent
\* has read does not change afterwards.
LEMMA FetchKeepsInv ==
  ASSUME FriendsInv, NEW o \in Ops,
         fetchFriendsFromRealm(o) \/ Fetched(o) \/ ParseMain(o)
  PROVE  FriendsInv'
<1> USE DEF FriendsInv, FriendsTypeOK, FetchTypeOK, StoreIsOneReply,
        OneFriendPerId, OnePerKey, ThrowsOnlyOnRepeat, ChainInv, Saving, Added,
        fetchVars, storeVars, chainVars
<1>1. CASE fetchFriendsFromRealm(o)
  BY <1>1 DEF fetchFriendsFromRealm, Submit
<1>2. CASE Fetched(o)
  <2>1. ASSUME NEW b \in Bodies \cup {NoData}, Answer(o, b)
        PROVE  FriendsInv'
    BY <1>2, <2>1 DEF Fetched, Answer
  <2>2. CASE Finish(o)
    BY <1>2, <2>2 DEF Fetched, Finish
  <2>3. CASE Cancel(o)
    BY <1>2, <2>3 DEF Fetched, Cancel
  <2> QED BY <1>2, <2>1, <2>2, <2>3 DEF Fetched
<1>3. CASE ParseMain(o)
  BY <1>3 DEF ParseMain
<1> QED BY <1>1, <1>2, <1>3

\* No step of SaveDataOperation breaks the invariant.
LEMMA SaveKeepsInv ==
  ASSUME FriendsInv, NEW o \in Ops, SaveStep(o)
  PROVE  FriendsInv'
<1> USE DEF FriendsInv, FriendsTypeOK, FetchTypeOK, ChainInv, Saving, SaveAt,
        SaveGoto, fetchVars, storeVars, chainVars
<1>1. CASE SaveSkips(o)
  BY <1>1 DEF SaveSkips, StoreIsOneReply, OneFriendPerId, OnePerKey,
     ThrowsOnlyOnRepeat, Added
<1>2. CASE SaveOpenFails(o)
  BY <1>2 DEF SaveOpenFails, StoreIsOneReply, OneFriendPerId, OnePerKey,
     ThrowsOnlyOnRepeat, Added
<1>3. CASE SaveOpens(o)
  BY <1>3 DEF SaveOpens, StoreIsOneReply, OneFriendPerId, OnePerKey,
     ThrowsOnlyOnRepeat, Added
<1>4. CASE SaveBegins(o)
  BY <1>4 DEF SaveBegins, beginWrite, StoreIsOneReply, OneFriendPerId,
     OnePerKey, ThrowsOnlyOnRepeat, Added
<1>5. CASE SaveDeletes(o)
  BY <1>5 DEF SaveDeletes, delete, StoreIsOneReply, OneFriendPerId,
     OnePerKey, ThrowsOnlyOnRepeat, Added
<1>6. CASE SaveAdds(o)
  <2> DEFINE n == next[o]
             row == FriendItem(output[o], n)
  <2>1. /\ writer = o /\ output[o] \in DOMAIN Items
        /\ n \in 1 .. Len(Items[output[o]])
        /\ working' = working \cup {row}
        /\ next' = [next EXCEPT ![o] = n + 1]
        /\ UNCHANGED <<committed, writer, output, save, process>>
    BY <1>6 DEF SaveAdds, add
  <2>2. row \in Friends
    BY <2>1, FriendItemType
  <2>3. FriendsTypeOK'
    BY <1>6, <2>1, <2>2 DEF SaveAdds
  <2>4. OneFriendPerId'
    <3>1. \A r \in working : r.id # row.id
      BY <1>6 DEF SaveAdds, add, Clash
    <3>2. OnePerKey(working \cup {row})
      BY <3>1, AddKeepsKeys DEF OneFriendPerId, OnePerKey
    <3> QED BY <2>1, <3>2 DEF OneFriendPerId, OnePerKey
  <2>5. Added(o)' = Added(o) \cup {row}
    <3>1. 1 .. next'[o] - 1 = (1 .. n - 1) \cup {n}
      BY <2>1
    <3> QED BY <2>1, <3>1 DEF Added
  <2>6. ASSUME NEW p \in Ops
        PROVE  ChainInv(p)'
    <3>1. CASE p = o
      BY <1>6, <2>1, <2>5, <3>1 DEF SaveAdds
    <3>2. CASE p # o
      BY <1>6, <2>1, <3>2 DEF SaveAdds
    <3> QED BY <3>1, <3>2
  <2>7. StoreIsOneReply' /\ ThrowsOnlyOnRepeat'
    BY <2>1 DEF StoreIsOneReply, ThrowsOnlyOnRepeat, RowsOf, FriendItem
  <2> QED BY <2>3, <2>4, <2>6, <2>7
<1>7. CASE SaveAddThrows(o)
  <2>1. Repeats(output[o]) /\ output[o] \in DOMAIN Items
    BY <1>7, ClashRepeats DEF SaveAddThrows, rollback
  <2>2. UNCHANGED <<committed, working, output, parse, save, next>>
    BY <1>7 DEF SaveAddThrows, rollback
  <2>3. ThrowsOnlyOnRepeat'
    <3>1. output'[o] = output[o]
      BY <2>2
    <3>2. (output[o] \in DOMAIN Items /\ Repeats(output[o]))'
      BY <2>1, <3>1 DEF Repeats
    <3> QED BY <3>2, Zenon DEF ThrowsOnlyOnRepeat
  <2>4. FriendsTypeOK' /\ StoreIsOneReply' /\ OneFriendPerId'
    BY <1>7, <2>2 DEF SaveAddThrows, rollback, StoreIsOneReply,
       OneFriendPerId, OnePerKey
  <2>5. ASSUME NEW p \in Ops
        PROVE  ChainInv(p)'
    <3>1. /\ writer = o /\ writer' = NoClient
          /\ process' = "exception"
          /\ UNCHANGED fetchVars
      BY <1>7 DEF SaveAddThrows, rollback
    <3> QED BY <2>2, <3>1
  <2> QED BY <2>3, <2>4, <2>5
<1>8. CASE SaveCommits(o)
  <2>1. /\ writer = o /\ save[o] = "add" /\ output[o] \in DOMAIN Items
        /\ next[o] = Len(Items[output[o]]) + 1
    BY <1>8 DEF SaveCommits, commitWrite
  <2>2. committed' = RowsOf(output[o])
    BY <1>8, <2>1, AddedAll DEF SaveCommits, commitWrite
  <2>3. StoreIsOneReply'
    BY <2>1, <2>2 DEF StoreIsOneReply, RowsOf, FriendItem
  <2> QED BY <1>8, <2>1, <2>3 DEF SaveCommits, commitWrite, OneFriendPerId,
             OnePerKey, ThrowsOnlyOnRepeat, Added
<1>9. CASE SaveCommitFails(o)
  BY <1>9 DEF SaveCommitFails, StoreIsOneReply, OneFriendPerId, OnePerKey,
     ThrowsOnlyOnRepeat, Added
<1>10. CASE SaveReleasesRealm(o)
  BY <1>10 DEF SaveReleasesRealm, rollback, StoreIsOneReply, OneFriendPerId,
     OnePerKey, ThrowsOnlyOnRepeat, Added
<1> HIDE DEF FriendsInv
<1> QED
  BY <1>1, <1>2, <1>3, <1>4, <1>5, <1>6, <1>7, <1>8, <1>9, <1>10
  DEF SaveStep

\* Neither does the end of the process, nor a launch.
LEMMA NextFriendsInv == FriendsInv /\ [FriendsNext]_friendsVars => FriendsInv'
<1> SUFFICES ASSUME FriendsInv, [FriendsNext]_friendsVars
             PROVE  FriendsInv'
  OBVIOUS
<1>1. ASSUME NEW o \in Ops,
             fetchFriendsFromRealm(o) \/ Fetched(o) \/ ParseMain(o) \/ SaveStep(o)
      PROVE  FriendsInv'
  BY <1>1, FetchKeepsInv, SaveKeepsInv
<1>2. CASE Killed
  BY <1>2 DEF Killed, FriendsInv, FriendsTypeOK, FetchTypeOK, StoreIsOneReply,
     OneFriendPerId, OnePerKey, ThrowsOnlyOnRepeat, ChainInv, Saving, Added,
     fetchVars, chainVars
<1>3. CASE Relaunched
  BY <1>3 DEF Relaunched, FriendsInv, FriendsTypeOK, FetchTypeOK,
     StoreIsOneReply, OneFriendPerId, OnePerKey, ThrowsOnlyOnRepeat, ChainInv,
     Saving, storeVars
<1>4. CASE UNCHANGED friendsVars
  BY <1>4 DEF friendsVars, FriendsInv, FriendsTypeOK, FetchTypeOK,
     StoreIsOneReply, OneFriendPerId, OnePerKey, ThrowsOnlyOnRepeat, ChainInv,
     Saving, Added, fetchVars, storeVars, chainVars
<1> QED BY <1>1, <1>2, <1>3, <1>4 DEF FriendsNext

\* The inductive invariant holds in every reachable state.
THEOREM FriendsInvariant == FriendsSpec => []FriendsInv
BY InitFriendsInv, NextFriendsInv, PTL DEF FriendsSpec

\* The stored friends are always those of one whole reply.
THEOREM StoreTheorem == FriendsSpec => []StoreIsOneReply
<1>1. FriendsInv => StoreIsOneReply
  BY DEF FriendsInv
<1> QED BY <1>1, FriendsInvariant, PTL

\* Only a reply that repeats an id makes realm.add raise an exception.
THEOREM ThrowTheorem == FriendsSpec => []ThrowsOnlyOnRepeat
<1>1. FriendsInv => ThrowsOnlyOnRepeat
  BY DEF FriendsInv
<1> QED BY <1>1, FriendsInvariant, PTL

\* A commit publishes the reply that the fetch of its own chain delivered.
THEOREM CommitTheorem == FriendsSpec => CommitsDeliveredReply
<1> DEFINE Delivers ==
      committed' # committed =>
        \E o \in Ops :
          /\ status[o] = "finished"
          /\ output[o] \in DOMAIN Items
          /\ committed' = RowsOf(output[o])
          /\ o \in cancelled \/ data[o] = output[o]
<1>1. FriendsInv /\ [FriendsNext]_friendsVars => [Delivers]_friendsVars
  <2> SUFFICES ASSUME FriendsInv, FriendsNext, committed' # committed
               PROVE  Delivers
    BY DEF friendsVars, storeVars
  <2>1. PICK o \in Ops : SaveCommits(o)
    BY DEF FriendsNext, fetchFriendsFromRealm, Fetched, ParseMain, SaveStep,
       SaveSkips, SaveOpenFails, SaveOpens, SaveBegins, beginWrite,
       SaveDeletes, delete, SaveAdds, add, SaveAddThrows, rollback, SaveCommitFails,
       SaveReleasesRealm, Killed, Relaunched, storeVars
  <2>2. /\ parse[o] = "done" /\ output[o] \in DOMAIN Items
        /\ next[o] = Len(Items[output[o]]) + 1
        /\ committed' = Added(o)
    BY <2>1 DEF SaveCommits, SaveAt, commitWrite, FriendsInv, ChainInv,
       FriendsTypeOK, Saving
  <2>3. committed' = RowsOf(output[o])
    BY <2>2, AddedAll
  <2>4. status[o] = "finished" /\ (o \in cancelled \/ data[o] = output[o])
    BY <2>2 DEF FriendsInv, ChainInv
  <2> QED BY <2>2, <2>3, <2>4
<1> QED BY <1>1, FriendsInvariant, PTL DEF FriendsSpec, CommitsDeliveredReply
=============================================================================
