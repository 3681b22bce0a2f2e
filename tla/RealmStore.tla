---------------------------- MODULE RealmStore ----------------------------
(***************************************************************************)
(* The slice of Realm that the application calls: one table of objects     *)
(* with a primary key, and write transactions that the write lock of the   *)
(* database serialises.  A transaction works on a private version of the   *)
(* table; commitWrite publishes that version, and a transaction that ends  *)
(* in any other way leaves no trace.                                       *)
(***************************************************************************)
CONSTANTS
  Clients,      \* callers that write, each on a thread and Realm of its own
  NoClient      \* nobody holds the write lock

ASSUME StoreAssumption == NoClient \notin Clients

VARIABLES
  committed,    \* the objects a reader finds in the latest version
  writer,       \* holder of the write lock
  working       \* the version the holder is writing

storeVars == <<committed, writer, working>>

StoreInit ==
  /\ committed = {}
  /\ writer = NoClient
  /\ working = {}

\* blocks until the lock is free, then sees the latest version
beginWrite(c) ==
  /\ writer = NoClient
  /\ writer' = c
  /\ working' = committed
  /\ UNCHANGED committed

delete(c, objects) ==
  /\ writer = c
  /\ working' = working \ objects
  /\ UNCHANGED <<committed, writer>>

\* Object::create refuses a primary key that the version being written holds
Clash(id) == \E r \in working : r.id = id

add(c, object) ==
  /\ writer = c
  /\ ~Clash(object.id)
  /\ working' = working \cup {object}
  /\ UNCHANGED <<committed, writer>>

commitWrite(c) ==
  /\ writer = c
  /\ committed' = working
  /\ writer' = NoClient
  /\ UNCHANGED working

\* the Realm is deallocated, or its process dies, inside a transaction
rollback(c) ==
  /\ writer = c
  /\ writer' = NoClient
  /\ UNCHANGED <<committed, working>>

\* One object per primary key, in the version readers see and in the one
\* that is being written.
OnePerKey(objects) == \A r, s \in objects : r.id = s.id => r = s
=============================================================================
