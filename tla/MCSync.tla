------------------------------- MODULE MCSync -------------------------------
(***************************************************************************)
(* The sync manager for TLC, its sessions and its files side by side: a    *)
(* behaviour is about one of the two, and the other stays as it is at      *)
(* first.  They meet only in what a log-out leaves for the next startup,   *)
(* which SyncFiles has as the state of the user's record.                  *)
(***************************************************************************)
EXTENDS SyncManager, SyncFiles

VARIABLE part

ASSUME FileConstants == FilesAssumption

managerVars == <<part, vars, fileVars>>

\* nothing goes wrong; two crashes; crashes and refused operations
AllTroubles == {[refusals |-> FALSE, crashes |-> 0], [refusals |-> FALSE, crashes |-> 2],
                [refusals |-> TRUE, crashes |-> 2]}

AllSettings ==
  [stop_policy : {"Immediately", "LiveIndefinitely", "AfterChangesUploaded"}, errors : BOOLEAN]

Usual == {[stop_policy |-> "AfterChangesUploaded", errors |-> FALSE]}

Quietest == [refusals |-> FALSE, crashes |-> 0]

ManagerInit ==
  /\ part \in {"sessions", "files"}
  /\ Init /\ FilesInit
  /\ part = "files" \/ trouble = Quietest
  /\ part = "sessions" \/ setting = CHOOSE c \in Settings : TRUE

ManagerNext ==
  \/ part = "sessions" /\ Next /\ UNCHANGED <<part, fileVars>>
  \/ part = "files" /\ FilesNext /\ UNCHANGED <<part, vars>>

ManagerSpec == ManagerInit /\ [][ManagerNext]_managerVars

\* a thread that is configuring goes on, and the application is started again
ManagerFairSpec ==
  /\ ManagerSpec
  /\ WF_fileVars(Configure /\ UNCHANGED trouble)
  /\ WF_fileVars(Launch /\ UNCHANGED trouble)
=============================================================================
