------------------------- MODULE NotifierCallbacks -------------------------
(***************************************************************************)
(* The callbacks of one collection notifier: a vector that is walked with  *)
(* m_callback_index and m_callback_count while callbacks add and remove    *)
(* callbacks and other threads remove them.  The callback mutex is held    *)
(* within a step and released while user code runs.                        *)
(***************************************************************************)
EXTENDS Naturals, Sequences, SequencesExt

CONSTANTS
  MaxTokens,     \* bound: callbacks ever added
  MaxPackages,   \* bound: packages made
  SizeT          \* number of values of size_t

\* size_t counts all the callbacks there can be, and npos is beyond them
CallbacksAssumption ==
  /\ MaxTokens \in Nat /\ MaxPackages \in Nat /\ SizeT \in Nat
  /\ MaxTokens + 1 < SizeT

VARIABLES
  callbacks,   \* m_callbacks: token, pending changes, whether called before
  index,       \* m_callback_index
  count,       \* m_callback_count
  have,        \* m_have_callbacks
  next_token,  \* m_next_token
  pass,        \* "none", "packaged", or the walk: "before", "between", "after";
               \* "overrun" if it read past the end of the vector
  running,     \* the token whose callback is being called, 0 if none
  packagings,    \* packages made so far
  packaged,    \* tokens present when the package was made
  uncounted,   \* callbacks added since then that were removed again
  called       \* tokens called in this walk, in order

vars == <<callbacks, index, count, have, next_token, pass, running, packagings,
          packaged, uncounted, called>>

npos == SizeT - 1
Tokens == 1..MaxTokens
Present == {callbacks[i].token : i \in DOMAIN callbacks}
Walking == pass \in {"before", "after"}

Init ==
  /\ callbacks = <<>> /\ index = npos /\ count = npos /\ have = FALSE
  /\ next_token = 1
  /\ pass = "none" /\ running = 0 /\ packagings = 0 /\ packaged = {} /\ uncounted = 0
  /\ called = <<>>

-----------------------------------------------------------------------------
\* on the target thread: between walks, or from a callback
add_callback ==
  /\ Walking => running # 0
  /\ pass # "overrun" /\ next_token <= MaxTokens
  /\ next_token' = next_token + 1
  /\ callbacks' = Append(callbacks, [token |-> next_token, changes |-> FALSE, initial |-> FALSE])
  /\ have' = (have \/ index = npos)
  /\ UNCHANGED <<index, count, pass, running, packagings, packaged, uncounted, called>>

\* the index after the callback at position i has been removed
ShiftedIndex(i) == IF index # npos /\ index >= i - 1 THEN (index + SizeT - 1) % SizeT ELSE index

\* mutant: the count is left alone
KeptCount(i) == count

\* the count after a callback has been removed
DecrementedCount(i) == (count + SizeT - 1) % SizeT

\* from any thread, whenever the mutex is free
remove_callback(token) ==
  /\ pass # "overrun"
  /\ uncounted' = IF pass # "none" /\ token \notin packaged THEN uncounted + 1 ELSE uncounted
  /\ \E i \in DOMAIN callbacks :
     /\ callbacks[i].token = token
     /\ callbacks' = RemoveAt(callbacks, i)
     /\ index' = ShiftedIndex(i)
     /\ count' = DecrementedCount(i)
     /\ have' = (Len(callbacks) > 1)
  /\ UNCHANGED <<next_token, pass, running, packagings, packaged, called>>

\* the callbacks of some have changes
package_for_delivery ==
  /\ pass = "none" /\ packagings < MaxPackages
  /\ packagings' = packagings + 1
  /\ \E changed \in SUBSET Present :
       callbacks' = [i \in DOMAIN callbacks |->
                       [callbacks[i] EXCEPT !.changes = callbacks[i].token \in changed]]
  /\ count' = Len(callbacks)
  /\ packaged' = Present /\ uncounted' = 0
  /\ pass' = "packaged"
  /\ UNCHANGED <<index, have, next_token, running, called>>

-----------------------------------------------------------------------------
(* for_each_callback                                                       *)

\* mutant: only changes are delivered
WantsChanges(kind, c) == c.changes

\* before_advance and after_advance leave out callbacks with nothing to say
Wants(kind, c) == IF kind = "before" THEN c.changes ELSE c.changes \/ ~c.initial

\* positions, from 0, still to be called in this walk
Pending(kind, from) ==
  {k \in from..(Len(callbacks) - 1) : k < count /\ Wants(kind, callbacks[k + 1])}

\* go on from position from, in a walk of this kind, to the next callback
Walk(kind, from, end) ==
  \/ /\ \E k \in Pending(kind, from) :
          /\ \A j \in Pending(kind, from) : k <= j
          /\ index' = k
          /\ running' = callbacks[k + 1].token
          /\ called' = Append(called, callbacks[k + 1].token)
          /\ callbacks' = IF kind = "after"
                          THEN [callbacks EXCEPT ![k + 1].initial = TRUE, ![k + 1].changes = FALSE]
                          ELSE callbacks
     /\ pass' = kind
     /\ UNCHANGED <<packaged, uncounted>>
  \/ /\ Pending(kind, from) = {}
     /\ pass' = IF count <= Len(callbacks) THEN end ELSE "overrun"
     /\ index' = npos /\ running' = 0 /\ called' = <<>>
     /\ packaged' = IF end = "none" THEN {} ELSE packaged
     /\ uncounted' = IF end = "none" THEN 0 ELSE uncounted
     /\ UNCHANGED callbacks

before_advance ==
  /\ pass = "packaged"
  /\ Walk("before", (index + 1) % SizeT, "between")
  /\ UNCHANGED <<count, have, next_token, packagings>>

\* with or without a walk before the Realm is advanced
after_advance ==
  /\ pass \in {"packaged", "between"}
  /\ Walk("after", (index + 1) % SizeT, "none")
  /\ UNCHANGED <<count, have, next_token, packagings>>

\* the callback returns
Resume ==
  /\ running # 0
  /\ Walk(pass, (index + 1) % SizeT, IF pass = "before" THEN "between" ELSE "none")
  /\ UNCHANGED <<count, have, next_token, packagings>>

Next ==
  \/ add_callback \/ package_for_delivery
  \/ before_advance \/ after_advance \/ Resume
  \/ \E token \in Tokens : remove_callback(token)

Spec == Init /\ [][Next]_vars

-----------------------------------------------------------------------------
(* Properties                                                              *)

\* Every variable keeps its type.
TypeOK ==
  /\ callbacks \in Seq([token : Tokens, changes : BOOLEAN, initial : BOOLEAN])
  /\ index \in 0..npos /\ count \in 0..npos /\ have \in BOOLEAN
  /\ next_token \in 1..(MaxTokens + 1)
  /\ pass \in {"none", "packaged", "before", "between", "after", "overrun"}
  /\ running \in Tokens \cup {0} /\ packagings \in 0..MaxPackages
  /\ packaged \subseteq Tokens /\ uncounted \in 0..MaxTokens /\ called \in Seq(Tokens)

\* The callbacks that were packaged come first in the vector, and m_callback_count
\* is their number, less the newcomers that were removed since: it is right if there
\* are none, and it wraps around if there are more of them than packaged callbacks.
CountIsPackaged ==
  pass \notin {"none", "overrun"} =>
    /\ (count + uncounted) % SizeT <= Len(callbacks)
    /\ \A i \in DOMAIN callbacks :
         callbacks[i].token \in packaged <=> i <= (count + uncounted) % SizeT

\* A walk calls nobody twice, and nobody who joined after the packaging unless the
\* count has wrapped around, however callbacks come and go while it is under way.
CalledOnce ==
  /\ IsInjective(called)
  /\ count + uncounted < SizeT => ToSet(called) \subseteq packaged

\* The worker always knows that there are callbacks: after every sequence of
\* additions and removals, inside and outside of callbacks, m_have_callbacks is
\* what it caches.
HaveIsRight == have = (callbacks # <<>>)

\* All three.
WalkInOrder == CountIsPackaged /\ CalledOnce /\ HaveIsRight

\* When the last walk ends, every callback that was packaged and is still there
\* has been called if it had anything to be told: all of them, but for as many at the
\* end as newcomers were removed in the pass.
NobodyTurnedAway ==
  pass # "none" /\ pass' = "none" =>
    \A i \in DOMAIN callbacks :
      i + uncounted \in DOMAIN callbacks /\ callbacks[i + uncounted].token \in packaged =>
        callbacks[i].initial /\ ~callbacks[i].changes

NobodyLeftOut == [][NobodyTurnedAway]_vars
=============================================================================
