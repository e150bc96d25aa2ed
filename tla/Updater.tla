------------------------------ MODULE Updater ------------------------------
(***************************************************************************)
(* MAA.Updater (MaaUpdater/main.cpp): apply an update plan to the          *)
(* installation.  Entries of removeList, then of moveList, are moved to a  *)
(* backup directory; entries of moveList are installed from the directory  *)
(* the package was extracted to; the first failure ends the plan and       *)
(* starts a rollback.                                                      *)
(*                                                                         *)
(* What is kept of a path is which version's files it holds.  Any file     *)
(* operation may fail after its retries (a locked file), and the process   *)
(* may be killed between two steps.  While the plan file exists it may be  *)
(* started again, by whoever started it before.  A plan names each path     *)
(* once, and no path inside another one.                                   *)
(***************************************************************************)
EXTENDS Naturals, Sequences, SequencesExt

CONSTANTS
  Path,       \* relative paths of the plans
  Dir,        \* those that are directories
  Recycled,   \* resource and externals, see IsRecycleAndReplaceDirectory
  Illegal,    \* those that TryResolvePathUnderRoot refuses
  Installed,  \* those that exist in the installation
  Stale,      \* those that an earlier update left in the backup directory
  Plan,       \* [full : BOOLEAN, remove : Seq(Path), move : Seq(Path)]
  MaxRuns     \* bound on the starts of the program

ASSUME PlanAssumption ==
  /\ Dir \subseteq Path /\ Recycled \subseteq Dir /\ Installed \subseteq Path
  /\ Illegal \subseteq Path \ Installed /\ Stale \subseteq Path \ Illegal
  /\ Plan \subseteq [full : BOOLEAN, remove : Seq(Path), move : Seq(Path)]
  /\ \A pl \in Plan : /\ IsInjective(pl.remove) /\ IsInjective(pl.move)
                      /\ ToSet(pl.remove) \cap ToSet(pl.move) = {}
  /\ MaxRuns \in Nat

VARIABLES
  plan,       \* the plan file's contents
  planFile,   \* it exists
  source,     \* the paths that exist in extractDir
  target,     \* what the installation holds
  backup,     \* what backupDir holds under the path itself
  archived,   \* and under other names made from it
  pending,    \* what the installation holds as <path>.*.pendingdelete
  doomed,     \* paths that the next boot deletes, or files of which it does
  success,    \* success, of the last start
  pc,         \* where the program is
  k,          \* index into the list it works on
  run         \* number of starts

vars == <<plan, planFile, source, target, backup, archived, pending, doomed,
          success, pc, k, run>>
files == <<target, backup, archived, pending, doomed>>
package == <<plan, planFile, source>>

\* "partial" is a part of a directory, "short" one that was taken for the whole.
Content == {"none", "old", "new", "stale", "partial", "short"}
PC == {"start", "remove", "removeBackup", "move", "moveBackup", "install",
       "rollback", "cleanup", "exited", "killed", "rebooted"}

Init ==
  /\ plan \in Plan
  /\ planFile = TRUE
  /\ source = ToSet(plan.move) \ Illegal
  /\ target = [p \in Path |-> IF p \in Installed THEN "old" ELSE "none"]
  /\ backup = [p \in Path |-> IF p \in Stale THEN "stale" ELSE "none"]
  /\ archived = [p \in Path |-> {}]
  /\ pending = [p \in Path |-> {}]
  /\ doomed = {}
  /\ success = FALSE
  /\ pc = "start"
  /\ k = 1
  /\ run = 1

-----------------------------------------------------------------------------
Goto(where) == pc' = where /\ k' = 1
Resume(where) == pc' = where /\ k' = k + 1

Exists(p) == target[p] # "none"
Entry(list) == list[k]

\* How a path is given up: deleted (or moved away, or recycled), renamed to
\* *.pendingdelete, left for the next boot to delete (which does not delete a
\* directory that has files in it), or not at all.
Vacate(p, how) ==
  /\ target' = IF how \in {"deleted", "renamed"}
               THEN [target EXCEPT ![p] = "none"] ELSE target
  /\ pending' = IF how = "renamed"
                THEN [pending EXCEPT ![p] = @ \cup {target[p]}] ELSE pending
  /\ doomed' = IF how = "scheduled" /\ p \notin Dir THEN doomed \cup {p} ELSE doomed

\* RetryFileOp: done in the end, or given up while the file stays locked.
Retried(done) == {done, "stuck"}

\* RenameLockedFile, under a name that nothing has.
RenameLocked == {"renamed", "stuck"}

\* ForceDeleteFile; it reports success unless the path is stuck.  DeleteFile does
\* not delete a directory.
Forced(p) == {"scheduled"} \cup RenameLocked \cup
             (IF p \in Dir THEN {} ELSE Retried("deleted"))

\* MovePathToRecycleBin takes a path whole or not at all.
RecycleBin == {"deleted", "stuck"}

\* ForceRemoveDirectoryRecursive that does not come to its end: it may have deleted
\* a part and have left the rest to the next boot.
RemovedInPart(p) ==
  /\ target' \in {target, [target EXCEPT ![p] = "partial"]}
  /\ doomed' \in {doomed, doomed \cup {p}}
  /\ UNCHANGED pending

\* PrepareBackupDestination: an earlier backup is moved to another name; that
\* may fail, or leave a copy behind, and nobody asks.
PrepareBackup(p) ==
  \/ UNCHANGED <<backup, archived>>
  \/ /\ backup[p] # "none"
     /\ archived' = [archived EXCEPT ![p] = @ \cup {backup[p]}]
     /\ backup' \in {backup, [backup EXCEPT ![p] = "none"]}

Copied(p) == backup' = [backup EXCEPT ![p] = target[p]]

\* A copy that is reported as done.  CopyDirectoryRecursive takes a listing that
\* cannot be opened, or that breaks off, for one that has come to its end.
CopyDone(p) ==
  \/ Copied(p)
  \/ p \in Dir /\ backup' = [backup EXCEPT ![p] = "short"]

\* A copy that fails; of a directory a part may have been copied.
CopyFails(p) ==
  \/ UNCHANGED backup
  \/ p \in Dir /\ backup' = [backup EXCEPT ![p] = "partial"]

\* MoveExistingPathToBackup.  A directory is moved only to a free name.  Once
\* there is a copy, what became of the original is not looked at; a file may
\* have been renamed before the copy failed.
MoveToBackup(p, ok) ==
  \/ ok /\ CopyDone(p) /\ \E how \in Forced(p) : Vacate(p, how)
  \/ ok /\ p \in Dir /\ backup[p] = "none" /\ Copied(p) /\ Vacate(p, "deleted")
  \/ ~ok /\ CopyFails(p) /\ Vacate(p, "stuck")
  \/ ~ok /\ p \notin Dir /\ UNCHANGED backup /\ Vacate(p, "renamed")

\* Mutant: the result of the copy is not looked at.
RecycleAndBackupPath_unchecked(p, ok) ==
  \/ ok /\ (CopyDone(p) \/ CopyFails(p))
        /\ \E how \in {"deleted"} \cup (Forced(p) \ {"stuck"}) : Vacate(p, how)
  \/ ~ok /\ (CopyDone(p) \/ CopyFails(p)) /\ Vacate(p, "stuck")

\* RecycleAndBackupPath: copy, then the recycle bin, then ForceDeleteFile.
RecycleAndBackupPath(p, ok) ==
  \/ ok /\ CopyDone(p)
        /\ \E how \in (RecycleBin \cup Forced(p)) \ {"stuck"} : Vacate(p, how)
  \/ ~ok /\ (CopyDone(p) \/ CopyFails(p)) /\ Vacate(p, "stuck")

\* RecycleAndBackupDirectory: as above, but ForceRemoveDirectoryRecursive.
RecycleAndBackupDirectory(p, ok) ==
  \/ ok /\ CopyDone(p) /\ Vacate(p, "deleted")
  \/ ~ok /\ CopyFails(p) /\ Vacate(p, "stuck")
  \/ ~ok /\ CopyDone(p) /\ RemovedInPart(p)

-----------------------------------------------------------------------------
\* CleanupPendingDeleteFiles deletes what it can; it skips directories.
CleanupPending ==
  \E gone \in SUBSET {entry \in (Path \ Dir) \X Content : entry[2] \in pending[entry[1]]} :
    pending' = [p \in Path |-> {c \in pending[p] : <<p, c>> \notin gone}]

\* The update mutex is held by another instance, the installation is a drive's
\* root, or the plan cannot be read.
Blocked ==
  /\ pc = "start"
  /\ CleanupPending
  /\ Goto("cleanup")
  /\ UNCHANGED <<package, target, backup, archived, doomed, success, run>>

Begin ==
  /\ pc = "start"
  /\ CleanupPending
  /\ Goto("remove")
  /\ UNCHANGED <<package, target, backup, archived, doomed, success, run>>

\* ---- removeList ----
RemoveSkip ==
  /\ pc = "remove"
  /\ k <= Len(plan.remove)
  /\ LET p == Entry(plan.remove) IN
       /\ p \notin Illegal
       /\ ~Exists(p) \/ (~plan.full /\ p \in Dir)
  /\ Resume("remove")
  /\ UNCHANGED <<package, files, success, run>>

RemovePrepare ==
  /\ pc = "remove"
  /\ k <= Len(plan.remove)
  /\ LET p == Entry(plan.remove) IN
       /\ p \notin Illegal
       /\ Exists(p) /\ (plan.full \/ p \notin Dir)
       /\ PrepareBackup(p)
  /\ pc' = "removeBackup"
  /\ UNCHANGED <<package, target, pending, doomed, success, k, run>>

RemoveBackup ==
  /\ pc = "removeBackup"
  /\ \E ok \in BOOLEAN :
       /\ LET p == Entry(plan.remove) IN
            IF plan.full THEN RecycleAndBackupPath(p, ok) ELSE MoveToBackup(p, ok)
       /\ IF ok THEN Resume("remove") ELSE Goto("rollback")
  /\ UNCHANGED <<package, archived, success, run>>

\* ---- moveList ----
MoveNext ==
  /\ pc = "remove"
  /\ k > Len(plan.remove)
  /\ Goto("move")
  /\ UNCHANGED <<package, files, success, run>>

MovePrepare ==
  /\ pc = "move"
  /\ k <= Len(plan.move)
  /\ LET p == Entry(plan.move) IN
       /\ p \notin Illegal
       /\ Exists(p) /\ (plan.full \/ p \notin Dir)
       /\ PrepareBackup(p)
  /\ pc' = "moveBackup"
  /\ UNCHANGED <<package, target, pending, doomed, success, k, run>>

MoveBackup ==
  /\ pc = "moveBackup"
  /\ \E ok \in BOOLEAN :
       /\ LET p == Entry(plan.move) IN
            IF p \in Recycled THEN RecycleAndBackupDirectory(p, ok)
                              ELSE MoveToBackup(p, ok)
       /\ IF ok THEN pc' = "install" /\ UNCHANGED k ELSE Goto("rollback")
  /\ UNCHANGED <<package, archived, success, run>>

MoveFresh ==
  /\ pc = "move"
  /\ k <= Len(plan.move)
  /\ Entry(plan.move) \notin Illegal
  /\ ~Exists(Entry(plan.move))
  /\ pc' = "install"
  /\ UNCHANGED <<package, files, success, k, run>>

\* An illegal path, or a directory in the way of a package that is not full.
Refuse ==
  /\ \/ pc = "remove" /\ k <= Len(plan.remove) /\ Entry(plan.remove) \in Illegal
     \/ /\ pc = "move" /\ k <= Len(plan.move)
        /\ LET p == Entry(plan.move) IN
             p \in Illegal \/ (Exists(p) /\ ~plan.full /\ p \in Dir)
  /\ Goto("rollback")
  /\ UNCHANGED <<package, files, success, run>>

\* InstallFileAtomic: copied next to the target, then swapped with it or moved
\* over it; the target may have been renamed first.
InstallFile ==
  /\ pc = "install"
  /\ LET p == Entry(plan.move) IN
       /\ p \in source \ Dir
       /\ target' = [target EXCEPT ![p] = "new"]
       /\ \/ UNCHANGED pending
          \/ Exists(p) /\ pending' = [pending EXCEPT ![p] = @ \cup {target[p]}]
  /\ Resume("move")
  /\ UNCHANGED <<package, backup, archived, doomed, success, run>>

\* A directory is moved, to a free name only.
InstallDir ==
  /\ pc = "install"
  /\ LET p == Entry(plan.move) IN
       /\ p \in source \cap Dir
       /\ ~Exists(p)
       /\ target' = [target EXCEPT ![p] = "new"]
       /\ source' = source \ {p}
  /\ Resume("move")
  /\ UNCHANGED <<plan, planFile, backup, archived, pending, doomed, success, run>>

\* Nothing was installed; a file that was in the way may have been renamed.
InstallFails ==
  /\ pc = "install"
  /\ LET p == Entry(plan.move) IN
       \E how \in {"stuck"} \cup (IF Exists(p) /\ p \in source \ Dir
                                 THEN {"renamed"} ELSE {}) : Vacate(p, how)
  /\ Goto("rollback")
  /\ UNCHANGED <<package, backup, archived, success, run>>

\* The status file decides; when it cannot be written nothing is rolled back.
Finish ==
  /\ pc = "move"
  /\ k > Len(plan.move)
  /\ success' \in BOOLEAN
  /\ Goto("cleanup")
  /\ UNCHANGED <<package, files, run>>

-----------------------------------------------------------------------------
\* ---- apply_failed ----
Undo == plan.remove \o plan.move

\* MovePathEntry(backupPath, targetPath): moved, copied, or not; a file may have
\* been renamed in backupDir before the copy failed.
Restore(p) ==
  \/ /\ target' = [target EXCEPT ![p] = backup[p]]
     /\ \/ backup' = [backup EXCEPT ![p] = "none"] /\ UNCHANGED archived
        \/ p \notin Dir /\ UNCHANGED <<backup, archived>>
  \/ UNCHANGED <<target, backup, archived>>
  \/ /\ p \notin Dir
     /\ archived' = [archived EXCEPT ![p] = @ \cup {backup[p]}]
     /\ backup' = [backup EXCEPT ![p] = "none"]
     /\ UNCHANGED target

RollbackEntry ==
  /\ pc = "rollback"
  /\ k <= Len(Undo)
  /\ LET p == Entry(Undo) IN
       IF p \notin Illegal /\ backup[p] # "none" /\ ~Exists(p)
       THEN Restore(p)
       ELSE UNCHANGED <<target, backup, archived>>
  /\ Resume("rollback")
  /\ UNCHANGED <<package, pending, doomed, success, run>>

RollbackDone ==
  /\ pc = "rollback"
  /\ k > Len(Undo)
  /\ Goto("cleanup")
  /\ UNCHANGED <<package, files, success, run>>

\* The extract directory and the plan file are deleted, as far as possible,
\* whatever the outcome.
Cleanup ==
  /\ pc = "cleanup"
  /\ source' \in SUBSET source
  /\ planFile' \in BOOLEAN /\ (planFile' => planFile)
  /\ Goto("exited")
  /\ UNCHANGED <<plan, files, success, run>>

-----------------------------------------------------------------------------
\* The environment: the process is killed, the machine boots, someone starts
\* the program with the arguments of the first time.
Kill ==
  /\ pc \notin {"exited", "killed", "rebooted"}
  /\ Goto("killed")
  /\ UNCHANGED <<package, files, success, run>>

Reboot ==
  /\ pc \in {"exited", "killed"}
  /\ doomed # {}
  /\ target' = [p \in Path |-> IF p \notin doomed THEN target[p]
                              ELSE IF p \in Dir /\ Exists(p) THEN "partial" ELSE "none"]
  /\ Goto("rebooted")
  /\ UNCHANGED <<package, backup, archived, pending, doomed, success, run>>

Start ==
  /\ pc \in {"exited", "killed", "rebooted"}
  /\ planFile
  /\ run < MaxRuns
  /\ run' = run + 1
  /\ success' = FALSE
  /\ doomed' = IF pc = "rebooted" THEN {} ELSE doomed
  /\ Goto("start")
  /\ UNCHANGED <<package, target, backup, archived, pending>>

Program ==
  \/ Blocked \/ Begin
  \/ RemoveSkip \/ RemovePrepare \/ RemoveBackup \/ MoveNext
  \/ MovePrepare \/ MoveBackup \/ MoveFresh \/ Refuse
  \/ InstallFile \/ InstallDir \/ InstallFails \/ Finish
  \/ RollbackEntry \/ RollbackDone \/ Cleanup

Next == Program \/ Kill \/ Reboot \/ Start

Spec == Init /\ [][Next]_vars

-----------------------------------------------------------------------------
TypeOK ==
  /\ plan \in Plan
  /\ planFile \in BOOLEAN
  /\ source \subseteq Path
  /\ target \in [Path -> Content]
  /\ backup \in [Path -> Content]
  /\ archived \in [Path -> SUBSET Content]
  /\ pending \in [Path -> SUBSET Content]
  /\ doomed \subseteq Path
  /\ success \in BOOLEAN
  /\ pc \in PC
  /\ k \in Nat \ {0}
  /\ pc = "removeBackup" => k <= Len(plan.remove)
  /\ pc \in {"moveBackup", "install"} => k <= Len(plan.move)
  /\ run \in Nat \ {0}

Versions(p) == {target[p], backup[p]} \cup archived[p] \cup pending[p]

\* The old version of p, or of a directory what the program believes to be all of it.
OldIn(versions, p) == "old" \in versions \/ (p \in Dir /\ "short" \in versions)

\* The only copy of an installed file is never destroyed: whatever operation
\* fails, and wherever the first start is killed or the machine booted, what was
\* installed is still there under some name; of a directory, that is what
\* CopyDirectoryRecursive listed when it said that it had copied it
\* (OldKeptWhole is without this).  (A second start deletes the *.pendingdelete
\* files of the first, and may overwrite its backup.)
OldKept == run = 1 => \A p \in Installed : OldIn(Versions(p), p)

\* "Copy succeeded; now remove the source" (main.cpp:1042): a directory, too, is
\* given up only when all of it has been copied.  It is not: a copy whose listing
\* breaks off (main.cpp:861, 886) counts as one that succeeded.
OldKeptWhole == run = 1 => \A p \in Installed : "old" \in Versions(p)

\* An update that reports success has installed every entry of moveList, after
\* interrupted starts too.  A boot may take one away again, if ForceDeleteFile
\* scheduled the deletion of the file it replaced.
InstalledOnSuccess ==
  success => \A p \in ToSet(plan.move) :
               target[p] = "new" \/ (pc = "rebooted" /\ p \in doomed)

\* "Attempt rollback: restore files that were already backed up" (main.cpp:2044): no
\* file stays replaced whose backup is there to be restored.
RollbackRestores ==
  [][RollbackDone => \A p \in Installed : ~(target[p] = "new" /\ backup[p] = "old")]_vars
=============================================================================
