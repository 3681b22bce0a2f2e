----------------------------- MODULE SyncFiles -----------------------------
(***************************************************************************)
(* What the sync manager keeps on disk for one user record (a user who     *)
(* logs in after the record was removed gets a new one, with a directory   *)
(* of another name), and what it does with it at startup: file actions     *)
(* (delete a Realm, or copy it to the recovery directory and delete it)    *)
(* and the removal of users who logged out.  The process may die between   *)
(* any two file system or metadata operations; a metadata transaction is   *)
(* atomic, a file copy is not.                                             *)
(***************************************************************************)
EXTENDS Naturals, FiniteSets

CONSTANTS
  Realms,      \* Realm files of the user
  Troubles,    \* what may go wrong: refused file operations, process deaths
  MaxContents, \* bound: times a Realm file is created
  MaxMarks     \* bound: file actions recorded

\* what a file may hold: nothing, one of the contents, or part of one
NoFile == 0
Contents == 1..MaxContents
Partial == MaxContents + 1
Names == 1..MaxMarks

\* what the constants are; the module of a run assumes it
FilesAssumption ==
  /\ \A c \in Troubles : c.refusals \in BOOLEAN /\ c.crashes \in Nat
  /\ MaxContents \in Nat /\ MaxMarks \in Nat

VARIABLES
  trouble,  \* what may go wrong in this behaviour
  file,     \* content of each Realm file
  backup,   \* content of each file in the recovery directory
  action,   \* the file action recorded for each Realm
  record,     \* the user's record: "none", "in", "marked" for removal, or "gone"
  phase,    \* where the process is in configure(), or "run", or "off"
  todo,     \* actions not looked at yet
  copying,  \* Realms whose backup is being made or has just been made
  done,     \* actions carried out and not yet removed from the metadata
  contents,     \* contents created so far
  marks,    \* actions recorded so far
  crashes   \* process deaths so far

diskVars == <<file, backup>>
memory == <<phase, todo, copying, done>>
counts == <<contents, marks, crashes>>
fileVars == <<trouble, diskVars, action, record, memory, counts>>

DiskFaults == trouble.refusals
MaxCrashes == trouble.crashes

NoAction == [kind |-> "none", name |-> 0]

FilesInit ==
  /\ trouble \in Troubles
  /\ file = [p \in Realms |-> NoFile]
  /\ backup = [n \in Names |-> NoFile]
  /\ action = [p \in Realms |-> NoAction]
  /\ record = "none"
  /\ phase = "off" /\ todo = {} /\ copying = {} /\ done = {}
  /\ contents = 0 /\ marks = 0 /\ crashes = 0

\* the process is not there any more: what it knew is lost
Off ==
  /\ phase' = "off" /\ todo' = {} /\ copying' = {} /\ done' = {}
  /\ UNCHANGED <<diskVars, action, record, contents, marks>>

-----------------------------------------------------------------------------
(* run_file_action, one Realm at a time                                    *)

Next1(p) == phase \in {"actions", "now"} /\ copying = {} /\ p \in todo

Finish(p) == todo' = todo \ {p} /\ done' = done \cup {p}

DeleteRealm(p) ==
  /\ Next1(p) /\ action[p].kind = "delete"
  /\ file' = [file EXCEPT ![p] = NoFile]
  /\ Finish(p)
  /\ UNCHANGED <<backup, action, record, phase, copying, counts>>

\* the Realm file does not exist any more
BackUpNothing(p) ==
  /\ Next1(p) /\ action[p].kind = "backup"
  /\ file[p] = NoFile
  /\ Finish(p)
  /\ UNCHANGED <<diskVars, action, record, phase, copying, counts>>

\* mutant: the copy is refused whatever the recovery directory holds
BackUpRefusedAnyway(p) ==
  /\ Next1(p) /\ action[p].kind = "backup"
  /\ file[p] # NoFile
  /\ todo' = todo \ {p}
  /\ UNCHANGED <<diskVars, action, record, phase, copying, done, counts>>

\* the recovery file exists already, or cannot be made: the action stays
BackUpRefused(p) ==
  /\ Next1(p) /\ action[p].kind = "backup"
  /\ file[p] # NoFile
  /\ backup[action[p].name] # NoFile \/ DiskFaults
  /\ todo' = todo \ {p}
  /\ UNCHANGED <<diskVars, action, record, phase, copying, done, counts>>

\* mutant: an existing recovery file is taken for the copy
CopyReusesFile(p) ==
  /\ Next1(p) /\ action[p].kind = "backup"
  /\ file[p] # NoFile
  /\ backup' = [backup EXCEPT ![action[p].name] = IF @ = NoFile THEN Partial ELSE @]
  /\ copying' = {p}
  /\ UNCHANGED <<file, action, record, phase, todo, done, counts>>

CopyBegins(p) ==
  /\ Next1(p) /\ action[p].kind = "backup"
  /\ file[p] # NoFile
  /\ backup[action[p].name] = NoFile
  /\ backup' = [backup EXCEPT ![action[p].name] = Partial]
  /\ copying' = {p}
  /\ UNCHANGED <<file, action, record, phase, todo, done, counts>>

CopyEnds(p) ==
  /\ p \in copying
  /\ backup[action[p].name] = Partial
  /\ backup' = [backup EXCEPT ![action[p].name] = file[p]]
  /\ UNCHANGED <<file, action, record, memory, counts>>

DeleteBackedUp(p) ==
  /\ p \in copying
  /\ backup[action[p].name] # Partial
  /\ file' = [file EXCEPT ![p] = NoFile]
  /\ copying' = {}
  /\ Finish(p)
  /\ UNCHANGED <<backup, action, record, phase, counts>>

\* remove_realm throws when the file may not be removed: nobody catches it, and
\* the completed actions are not removed either
RemoveRealmThrows(p) ==
  /\ DiskFaults
  /\ \/ Next1(p) /\ action[p].kind = "delete" /\ file[p] # NoFile
     \/ p \in copying /\ backup[action[p].name] # Partial
  /\ Off
  /\ UNCHANGED crashes

\* mutant: a completed action stays in the metadata
KeepAction(p) ==
  /\ todo = {} /\ copying = {} /\ p \in done
  /\ done' = done \ {p}
  /\ UNCHANGED <<diskVars, action, record, phase, todo, copying, counts>>

\* a completed action is removed from the metadata, after all have been run
RemoveAction(p) ==
  /\ todo = {} /\ copying = {} /\ p \in done
  /\ action' = [action EXCEPT ![p] = NoAction]
  /\ done' = done \ {p}
  /\ UNCHANGED <<diskVars, record, phase, todo, copying, counts>>

-----------------------------------------------------------------------------
(* configure                                                               *)

Launch ==
  /\ phase = "off"
  /\ phase' = "actions"
  /\ todo' = {p \in Realms : action[p] # NoAction}
  /\ UNCHANGED <<diskVars, action, record, copying, done, counts>>

ActionsDone ==
  /\ phase \in {"actions", "now"}
  /\ todo = {} /\ copying = {} /\ done = {}
  /\ phase' = IF phase = "actions" /\ record = "marked" THEN "remove user" ELSE "run"
  /\ UNCHANGED <<diskVars, action, record, todo, copying, done, counts>>

\* the Realms are in the user's directory
remove_user_directory ==
  /\ phase = "remove user"
  /\ file' = [p \in Realms |-> NoFile]
  /\ phase' = "forget user"
  /\ UNCHANGED <<backup, action, record, todo, copying, done, counts>>

\* an AccessError part of the way: the record stays for the next startup
RemoveUserRefused ==
  /\ DiskFaults
  /\ phase = "remove user"
  /\ \E removed \in SUBSET Realms :
       file' = [p \in Realms |-> IF p \in removed THEN NoFile ELSE file[p]]
  /\ phase' = "run"
  /\ UNCHANGED <<backup, action, record, todo, copying, done, counts>>

ForgetUser ==
  /\ phase = "forget user"
  /\ record' = "gone"
  /\ phase' = "run"
  /\ UNCHANGED <<diskVars, action, todo, copying, done, counts>>

-----------------------------------------------------------------------------
(* The running process                                                     *)

\* a new user, a known one, or one who logged out: the mark is taken back
get_or_make_user_metadata ==
  /\ phase = "run" /\ record \in {"none", "marked"}
  /\ record' = "in"
  /\ UNCHANGED <<diskVars, action, memory, counts>>

mark_for_removal ==
  /\ phase = "run" /\ record = "in"
  /\ record' = "marked"
  /\ UNCHANGED <<diskVars, action, memory, counts>>

\* external: the application opens a Realm that does not exist
CreateRealm(p) ==
  /\ phase = "run" /\ record = "in"
  /\ file[p] = NoFile
  /\ contents < MaxContents
  /\ contents' = contents + 1
  /\ file' = [file EXCEPT ![p] = contents + 1]
  /\ UNCHANGED <<backup, action, record, memory, marks, crashes>>

\* update_error_and_mark_file_for_deletion: a fresh name each time
make_file_action_metadata(p, kind) ==
  /\ phase = "run" /\ record = "in"
  /\ file[p] # NoFile
  /\ marks < MaxMarks
  /\ marks' = marks + 1
  /\ action' = [action EXCEPT ![p] = [kind |-> kind, name |-> marks + 1]]
  /\ UNCHANGED <<diskVars, record, memory, contents, crashes>>

immediately_run_file_actions(p) ==
  /\ phase = "run"
  /\ action[p] # NoAction
  /\ phase' = "now"
  /\ todo' = {p}
  /\ UNCHANGED <<diskVars, action, record, copying, done, counts>>

Quit == phase = "run" /\ Off /\ UNCHANGED crashes

\* external: the process dies
Crash ==
  /\ phase # "off" /\ crashes < MaxCrashes
  /\ crashes' = crashes + 1
  /\ Off

RunAction ==
  \E p \in Realms :
    \/ DeleteRealm(p) \/ BackUpNothing(p) \/ BackUpRefused(p)
    \/ CopyBegins(p) \/ CopyEnds(p) \/ DeleteBackedUp(p)
    \/ RemoveRealmThrows(p) \/ RemoveAction(p)

Configure ==
  \/ RunAction \/ ActionsDone
  \/ remove_user_directory \/ RemoveUserRefused \/ ForgetUser

FilesNext ==
  /\ \/ Configure
     \/ Launch \/ Quit \/ Crash
     \/ get_or_make_user_metadata \/ mark_for_removal
     \/ \E p \in Realms :
          \/ CreateRealm(p) \/ immediately_run_file_actions(p)
          \/ \E kind \in {"delete", "backup"} : make_file_action_metadata(p, kind)
  /\ UNCHANGED trouble

FilesSpec == FilesInit /\ [][FilesNext]_fileVars

\* a thread that is configuring goes on, and the application is started again
FilesFairSpec ==
  /\ FilesSpec
  /\ WF_fileVars(Configure /\ UNCHANGED trouble) /\ WF_fileVars(Launch /\ UNCHANGED trouble)

-----------------------------------------------------------------------------
(* Properties                                                              *)

\* what is on disk
DiskTyped ==
  /\ file \in [Realms -> Contents \cup {NoFile}]
  /\ backup \in [Names -> Contents \cup {NoFile, Partial}]

\* the metadata
MetadataTyped ==
  /\ action \in [Realms -> {NoAction} \cup [kind : {"delete", "backup"}, name : Names]]
  /\ record \in {"none", "in", "marked", "gone"}

\* what the process is doing
MemoryTyped ==
  /\ phase \in {"off", "actions", "now", "remove user", "forget user", "run"}
  /\ todo \subseteq Realms /\ copying \subseteq Realms /\ done \subseteq Realms

\* the counters
CountsTyped ==
  contents \in 0..MaxContents /\ marks \in 0..MaxMarks /\ crashes \in 0..MaxCrashes

\* Every variable keeps its type.
FilesTypeOK == DiskTyped /\ MetadataTyped /\ MemoryTyped /\ CountsTyped

\* While its user is logged in, a Realm disappears only through a file action,
\* and if that says to back it up first, only when the recovery directory has all
\* of it, whatever crashes and retries came before.  And the record of a user marked
\* for removal stays until nothing is left of its directory, however often removing
\* that was refused part of the way or cut short.
DeletionJustified ==
  /\ record = "in" => \A p \in Realms :
       file[p] # NoFile /\ file'[p] = NoFile =>
         /\ action[p] # NoAction
         /\ action[p].kind = "backup" => backup[action[p].name] = file[p]
  /\ record = "marked" /\ record' = "gone" => \A p \in Realms : file[p] = NoFile

DeletionsJustified == [][DeletionJustified]_fileVars

\* Once configure() has run, an action that is still recorded is for a file that
\* is still there: a Realm the application creates afterwards under the same path
\* is never met by the action that deleted its predecessor, even if the process
\* died between the deletion and the removal of the action.  File operations
\* that are refused are left out: they end configure() halfway.  Variables keep
\* their types.
NewRealmKept ==
  FilesTypeOK /\ (~DiskFaults /\ phase = "run" /\ record = "in" =>
    \A p \in Realms : action[p] # NoAction => file[p] # NoFile)

\* A startup carries out the actions that are pending for a logged-in user: the
\* Realm is deleted, after its backup if one is due, and the action removed, if
\* no process died in the middle of a backup.
StartupRunsActions ==
  ~DiskFaults /\ MaxCrashes = 0 => \A p \in Realms :
    (phase = "actions" /\ record = "in" /\ action[p] # NoAction)
      ~> (record # "in" \/ action[p] = NoAction)
=============================================================================
