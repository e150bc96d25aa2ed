--------------------------- MODULE UpdaterProofs ---------------------------
(* What holds of the update, for every set of paths and every plan that      *)
(* names each path once, and of the process around it, for any arguments.    *)
EXTENDS UpdaterProcess, TLAPS

LEMMA PlanFacts ==
  ASSUME NEW pl \in Plan
  PROVE  /\ pl.full \in BOOLEAN
         /\ pl.remove \in Seq(Path) /\ pl.move \in Seq(Path)
         /\ \A i, j \in 1..Len(pl.remove) : pl.remove[i] = pl.remove[j] => i = j
         /\ \A i, j \in 1..Len(pl.move) : pl.move[i] = pl.move[j] => i = j
         /\ \A i \in 1..Len(pl.remove), j \in 1..Len(pl.move) : pl.remove[i] # pl.move[j]
  BY PlanAssumption DEF IsInjective, ToSet

LEMMA TypeInit == Init => TypeOK
  <1> SUFFICES ASSUME Init PROVE TypeOK
    OBVIOUS
  <1>1. source \subseteq Path
    <2>1. plan \in Plan
      BY DEF Init
    <2> QED BY <2>1, PlanFacts DEF Init, ToSet
  <1>2. /\ target \in [Path -> Content] /\ backup \in [Path -> Content]
        /\ archived \in [Path -> SUBSET Content]
        /\ pending \in [Path -> SUBSET Content]
    BY DEF Init, Content
  <1>3. planFile \in BOOLEAN /\ success \in BOOLEAN
    BY ZenonT(20) DEF Init
  <1>4. /\ plan \in Plan /\ doomed \subseteq Path /\ pc \in PC
        /\ k \in Nat \ {0} /\ run \in Nat \ {0}
        /\ pc \notin {"removeBackup", "moveBackup", "install"}
    BY DEF Init, PC
  <1> QED BY <1>1, <1>2, <1>3, <1>4 DEF TypeOK

\* What is known of a path, backed up by one of the three operations there are.
BackedUp(p, ok) ==
  RecycleAndBackupPath(p, ok) \/ RecycleAndBackupDirectory(p, ok) \/ MoveToBackup(p, ok)

LEMMA VacateTyped ==
  ASSUME TypeOK, NEW p \in Path, NEW how, Vacate(p, how)
  PROVE  /\ target' \in [Path -> Content] /\ pending' \in [Path -> SUBSET Content]
         /\ doomed' \subseteq Path
  <1>1. target' \in [Path -> Content]
    BY DEF Vacate, TypeOK, Content
  <1>2. pending' \in [Path -> SUBSET Content]
    BY DEF Vacate, TypeOK
  <1>3. doomed' \subseteq Path
    BY DEF Vacate, TypeOK
  <1> QED BY <1>1, <1>2, <1>3

LEMMA BackupTyped ==
  ASSUME TypeOK, NEW p \in Path, NEW ok \in BOOLEAN, BackedUp(p, ok)
  PROVE  /\ target' \in [Path -> Content] /\ backup' \in [Path -> Content]
         /\ pending' \in [Path -> SUBSET Content] /\ doomed' \subseteq Path
  <1>1. CopyDone(p) \/ CopyFails(p)
    BY DEF BackedUp, RecycleAndBackupPath, RecycleAndBackupDirectory, MoveToBackup, CopyDone,
           CopyFails
  <1>2. backup' \in [Path -> Content]
    BY <1>1 DEF CopyDone, Copied, CopyFails, TypeOK, Content
  <1>3. (\E how : Vacate(p, how)) \/ RemovedInPart(p)
    BY DEF BackedUp, RecycleAndBackupPath, RecycleAndBackupDirectory, MoveToBackup
  <1>4. CASE RemovedInPart(p)
    <2>1. target' \in [Path -> Content]
      BY <1>4 DEF RemovedInPart, TypeOK, Content
    <2>2. pending' \in [Path -> SUBSET Content] /\ doomed' \subseteq Path
      BY <1>4 DEF RemovedInPart, TypeOK
    <2> QED BY <1>2, <2>1, <2>2
  <1> QED BY <1>2, <1>3, <1>4, VacateTyped

LEMMA TypeNext == TypeOK /\ [Next]_vars => TypeOK'
  <1> SUFFICES ASSUME TypeOK, [Next]_vars PROVE TypeOK'
    OBVIOUS
  <1>1. plan.remove \in Seq(Path) /\ plan.move \in Seq(Path)
    BY PlanFacts DEF TypeOK
  <1> USE <1>1 DEF TypeOK, Content, PC, Goto, Resume, Entry, Exists, Vacate,
                   Copied, CopyDone, CopyFails, PrepareBackup, files, package
  <1>2. CASE Blocked \/ Begin
    <2>1. CleanupPending => pending' \in [Path -> SUBSET Content]
      BY DEF CleanupPending
    <2> QED BY <1>2, <2>1 DEF Blocked, Begin
  <1>3. CASE RemoveSkip \/ MoveNext \/ MoveFresh \/ Refuse
    BY <1>3 DEF RemoveSkip, MoveNext, MoveFresh, Refuse
  <1>4. CASE RemovePrepare
    <2>1. plan.remove[k] \in Path /\ k <= Len(plan.remove)
      BY <1>4 DEF RemovePrepare
    <2>3. PrepareBackup(plan.remove[k])
      BY <1>4 DEF RemovePrepare
    <2>4. backup' \in [Path -> Content]
      BY <2>1, <2>3
    <2>5. archived' \in [Path -> SUBSET Content]
      BY <2>1, <2>3
    <2>2. backup' \in [Path -> Content] /\ archived' \in [Path -> SUBSET Content]
      BY <2>4, <2>5
    <2> QED BY <1>4, <2>1, <2>2 DEF RemovePrepare
  <1>5. CASE RemoveBackup
    <2>1. plan.remove[k] \in Path /\ k <= Len(plan.remove)
      BY <1>5 DEF RemoveBackup
    <2>2. PICK ok \in BOOLEAN : BackedUp(plan.remove[k], ok)
      BY <1>5 DEF RemoveBackup, BackedUp
    <2>3. /\ target' \in [Path -> Content] /\ backup' \in [Path -> Content]
          /\ pending' \in [Path -> SUBSET Content] /\ doomed' \subseteq Path
      BY <2>1, <2>2, BackupTyped
    <2>4. /\ UNCHANGED <<plan, planFile, source, archived, success, run>>
          /\ pc' \in {"remove", "rollback"} /\ k' \in {1, k + 1}
      BY <1>5 DEF RemoveBackup
    <2> QED BY <2>3, <2>4
  <1>6. CASE MovePrepare
    <2>1. plan.move[k] \in Path /\ k <= Len(plan.move)
      BY <1>6 DEF MovePrepare
    <2>3. PrepareBackup(plan.move[k])
      BY <1>6 DEF MovePrepare
    <2>4. backup' \in [Path -> Content]
      BY <2>1, <2>3
    <2>5. archived' \in [Path -> SUBSET Content]
      BY <2>1, <2>3
    <2>2. backup' \in [Path -> Content] /\ archived' \in [Path -> SUBSET Content]
      BY <2>4, <2>5
    <2> QED BY <1>6, <2>1, <2>2 DEF MovePrepare
  <1>7. CASE MoveBackup
    <2>1. plan.move[k] \in Path /\ k <= Len(plan.move)
      BY <1>7 DEF MoveBackup
    <2>2. PICK ok \in BOOLEAN : BackedUp(plan.move[k], ok)
      BY <1>7 DEF MoveBackup, BackedUp
    <2>3. /\ target' \in [Path -> Content] /\ backup' \in [Path -> Content]
          /\ pending' \in [Path -> SUBSET Content] /\ doomed' \subseteq Path
      BY <2>1, <2>2, BackupTyped
    <2>4. /\ UNCHANGED <<plan, planFile, source, archived, success, run>>
          /\ (pc' = "install" /\ k' = k) \/ (pc' = "rollback" /\ k' = 1)
      BY <1>7 DEF MoveBackup
    <2> QED BY <2>1, <2>3, <2>4
  <1>8. CASE InstallFile \/ InstallDir \/ InstallFails
    <2>1. CASE InstallFile
      BY <2>1 DEF InstallFile
    <2>2. CASE InstallDir
      BY <2>2 DEF InstallDir
    <2>3. CASE InstallFails
      <3>1. plan.move[k] \in Path
        BY <2>3 DEF InstallFails
      <3>2. PICK how : Vacate(plan.move[k], how)
        BY <2>3 DEF InstallFails
      <3>3. /\ target' \in [Path -> Content] /\ pending' \in [Path -> SUBSET Content]
            /\ doomed' \subseteq Path
        BY <3>1, <3>2, VacateTyped
      <3>4. UNCHANGED <<plan, planFile, source, backup, archived, success, run>>
            /\ pc' = "rollback" /\ k' = 1
        BY <2>3 DEF InstallFails
      <3> QED BY <3>3, <3>4
    <2> QED BY <1>8, <2>1, <2>2, <2>3
  <1>9. CASE RollbackDone
    BY <1>9 DEF RollbackDone
  <1>14. CASE Kill
    BY <1>14 DEF Kill
  <1>15. CASE Finish
    BY <1>15 DEF Finish
  <1>13. CASE Cleanup
    BY <1>13 DEF Cleanup
  <1>10. CASE RollbackEntry
    <2>1. Undo \in Seq(Path)
      BY DEF Undo
    <2>2. Entry(Undo) \in Path
      BY <1>10, <2>1 DEF RollbackEntry
    <2> QED BY <1>10, <2>2 DEF RollbackEntry, Restore
  <1>11. CASE Reboot
    BY <1>11 DEF Reboot
  <1>16. CASE Start
    <2>1. planFile' \in BOOLEAN /\ success' \in BOOLEAN
      BY <1>16, Zenon DEF Start
    <2>2. doomed' \subseteq Path /\ run' \in Nat \ {0} /\ pc' = "start" /\ k' = 1
      BY <1>16 DEF Start
    <2> QED BY <1>16, <2>1, <2>2 DEF Start
  <1>12. CASE UNCHANGED vars
    BY <1>12 DEF vars
  <1> QED
    BY <1>2, <1>3, <1>4, <1>5, <1>6, <1>7, <1>8, <1>9, <1>10, <1>11, <1>12,
       <1>13, <1>14, <1>15, <1>16
    DEF Next, Program

\* Every reachable state of the updater is well typed, whatever the plan.
THEOREM UpdaterTypeCorrect == Spec => []TypeOK
  <1>1. Init => TypeOK
    BY TypeInit
  <1>2. TypeOK /\ [Next]_vars => TypeOK'
    BY TypeNext
  <1> QED BY <1>1, <1>2, PTL DEF Spec

-----------------------------------------------------------------------------
\* An entry that was not reached yet.
Whole(p) == target[p] = "old" /\ p \notin doomed

\* The old version is somewhere else than under the path itself.
Aside(p) == OldIn({backup[p]} \cup archived[p] \cup pending[p], p)

Kept == \A p \in Installed : OldIn(Versions(p), p)

InRemove(p, from) == \E i \in 1..Len(plan.remove) : i >= from /\ plan.remove[i] = p
InMove(p, from) == \E i \in 1..Len(plan.move) : i >= from /\ plan.move[i] = p

\* What the plan has still to do is as it was.
AheadWhole ==
  \A p \in Installed :
    /\ pc = "start" => Whole(p)
    /\ pc \in {"remove", "removeBackup"} /\ (InRemove(p, k) \/ InMove(p, 1)) => Whole(p)
    /\ pc \in {"move", "moveBackup"} /\ InMove(p, k) => Whole(p)
    /\ pc = "install" /\ InMove(p, k + 1) => Whole(p)

\* An entry about to be installed has its old version put aside.
InstallAside ==
  pc = "install" /\ plan.move[k] \in Installed =>
    Aside(plan.move[k]) /\ target[plan.move[k]] \in {"none", "old"}

\* The next boot takes nothing away that is not kept elsewhere, and the rollback
\* does not use that up.
DoomedAside ==
  pc # "rebooted" => \A p \in doomed \cap Installed :
    OldIn(pending[p], p) \/ (OldIn({backup[p]}, p) /\ target[p] # "none")

KeptInv == run = 1 => Kept /\ AheadWhole /\ InstallAside /\ DoomedAside

LEMMA KeptInit == Init => KeptInv
  BY PlanAssumption DEF Init, KeptInv, Kept, OldIn, Versions, AheadWhole, Whole, InstallAside,
                        DoomedAside

LEMMA BackupKeeps ==
  ASSUME TypeOK, NEW p \in Path, NEW ok \in BOOLEAN, BackedUp(p, ok), Whole(p)
  PROVE  /\ OldIn({target'[p], backup'[p]} \cup pending'[p], p)
         /\ p \in doomed' => OldIn({backup'[p]}, p) /\ target'[p] # "none"
         /\ ok => OldIn({backup'[p]}, p) /\ target'[p] \in {"none", "old"}
  <1>1. target[p] = "old" /\ p \notin doomed
    BY DEF Whole
  <1>2. CopyDone(p) => OldIn({backup'[p]}, p)
    BY <1>1 DEF CopyDone, Copied, OldIn, TypeOK
  <1>3. ASSUME NEW how, Vacate(p, how)
        PROVE  /\ target'[p] \in {"none", "old"}
               /\ p \in doomed' => target'[p] = "old"
               /\ how = "stuck" => target'[p] = "old" /\ p \notin doomed'
               /\ how = "renamed" => "old" \in pending'[p] /\ p \notin doomed'
    BY <1>1, <1>3 DEF Vacate, TypeOK
  <1>4. RemovedInPart(p) => target'[p] \in {"old", "partial"}
    BY <1>1 DEF RemovedInPart, TypeOK
  <1>5. CASE ok
    <2>1. CopyDone(p) /\ \E how : Vacate(p, how)
      BY <1>5 DEF BackedUp, RecycleAndBackupPath, RecycleAndBackupDirectory, MoveToBackup, CopyDone
    <2> QED BY <1>2, <1>3, <2>1 DEF OldIn
  <1>6. CASE ~ok
    <2>1. Vacate(p, "stuck") \/ Vacate(p, "renamed") \/ (CopyDone(p) /\ RemovedInPart(p))
      BY <1>6 DEF BackedUp, RecycleAndBackupPath, RecycleAndBackupDirectory, MoveToBackup
    <2>2. CASE CopyDone(p) /\ RemovedInPart(p)
      BY <1>2, <1>4, <1>6, <2>2 DEF OldIn
    <2>3. CASE Vacate(p, "stuck")
      BY <1>3, <1>6, <2>3 DEF OldIn
    <2>4. CASE Vacate(p, "renamed")
      BY <1>3, <1>6, <2>4 DEF OldIn
    <2> QED BY <2>1, <2>2, <2>3, <2>4
  <1> QED BY <1>5, <1>6

LEMMA KeptNext == TypeOK /\ TypeOK' /\ KeptInv /\ [Next]_vars => KeptInv'
  <1> SUFFICES ASSUME TypeOK, TypeOK', KeptInv, [Next]_vars, run' = 1
               PROVE  (Kept /\ AheadWhole /\ InstallAside /\ DoomedAside)'
    BY DEF KeptInv
  <1> DEFINE Inv == Kept /\ AheadWhole /\ InstallAside /\ DoomedAside
  <1>1. CASE Start
    BY <1>1 DEF Start, TypeOK
  <1>2. ASSUME ~Start PROVE run = 1
    BY <1>2 DEF Next, Program, vars, Blocked, Begin, RemoveSkip, RemovePrepare,
       RemoveBackup, MoveNext, MovePrepare, MoveBackup, MoveFresh, Refuse,
       InstallFile, InstallDir, InstallFails, Finish, RollbackEntry, RollbackDone,
       Cleanup, Kill, Reboot
  <1>3. ASSUME ~Start PROVE Inv
    BY <1>2, <1>3 DEF KeptInv
  <1>4. plan \in Plan
    BY DEF TypeOK
  <1>5. /\ plan.remove \in Seq(Path) /\ plan.move \in Seq(Path)
        /\ \A i, j \in 1..Len(plan.remove) : plan.remove[i] = plan.remove[j] => i = j
        /\ \A i, j \in 1..Len(plan.move) : plan.move[i] = plan.move[j] => i = j
        /\ \A i \in 1..Len(plan.remove), j \in 1..Len(plan.move) :
             plan.remove[i] # plan.move[j]
    BY <1>4, PlanFacts
  <1>6. k \in Nat \ {0}
    BY DEF TypeOK
  <1> USE DEF TypeOK, Kept, Versions, AheadWhole, InRemove, InMove, Whole,
              InstallAside, Aside, DoomedAside, OldIn, Goto, Resume, Entry, Exists,
              files, package
  <1>7. CASE UNCHANGED vars
    BY <1>3, <1>7 DEF vars, Start
  <1>8. CASE Blocked
    BY <1>3, <1>5, <1>8 DEF Blocked, CleanupPending, Start
  <1>9. CASE Begin
    BY <1>3, <1>5, <1>9 DEF Begin, CleanupPending, Start
  <1>10. CASE RemoveSkip
    BY <1>3, <1>5, <1>6, <1>10 DEF RemoveSkip, Start
  <1>11. CASE RemovePrepare
    <2>1. PICK p \in Path : p = plan.remove[k] /\ k \in 1..Len(plan.remove)
      BY <1>5, <1>6, <1>11 DEF RemovePrepare
    <2>2. p \in Installed => Whole(p)
      BY <1>3, <1>6, <1>11, <2>1 DEF RemovePrepare, Start
    <2>3. \A q \in Path \ {p} : backup'[q] = backup[q] /\ archived'[q] = archived[q]
      BY <1>11, <2>1 DEF RemovePrepare, PrepareBackup
    <2>4. UNCHANGED <<plan, target, pending, doomed, k>> /\ pc = "remove" /\ pc' = "removeBackup"
      BY <1>11 DEF RemovePrepare
    <2> QED BY <1>3, <2>1, <2>2, <2>3, <2>4, PlanAssumption DEF Start
  <1>12. CASE RemoveBackup
    <2>1. PICK p \in Path : p = plan.remove[k] /\ k \in 1..Len(plan.remove)
      BY <1>5, <1>6, <1>12 DEF RemoveBackup
    <2>2. p \in Installed => Whole(p)
      BY <1>3, <1>6, <1>12, <2>1 DEF RemoveBackup, Start
    <2>3. /\ \A q \in Path \ {p} : target'[q] = target[q] /\ backup'[q] = backup[q]
                                     /\ pending'[q] = pending[q] /\ (q \in doomed' <=> q \in doomed)
          /\ UNCHANGED <<plan, archived>>
      BY <1>12, <2>1 DEF RemoveBackup, RecycleAndBackupPath, MoveToBackup,
         Vacate, Copied, CopyDone, CopyFails, Forced, Retried, RenameLocked, RecycleBin
    <2>4. p \in Installed =>
            /\ OldIn(Versions(p), p)'
            /\ p \in doomed' => OldIn({backup'[p]}, p) /\ target'[p] # "none"
      <3>1. PICK ok \in BOOLEAN : BackedUp(p, ok)
        BY <1>12, <2>1 DEF RemoveBackup, BackedUp
      <3> QED BY <2>2, <3>1, BackupKeeps
    <2>5. pc = "removeBackup" /\ pc' \in {"remove", "rollback"} /\ (pc' = "remove" => k' = k + 1)
      BY <1>12 DEF RemoveBackup
    <2>9. Kept'
      <3> SUFFICES ASSUME NEW q \in Installed PROVE OldIn(Versions(q), q)'
        OBVIOUS
      <3>1. CASE q = p
        BY <2>4, <3>1
      <3>2. CASE q # p
        <4>1. q \in Path \ {p}
          BY <3>2, PlanAssumption
        <4>2. OldIn(Versions(q), q)
          BY <1>3, <2>5 DEF Start
        <4> QED BY <2>3, <4>1, <4>2
      <3> QED BY <3>1, <3>2
    <2>10. DoomedAside'
      BY <1>3, <2>1, <2>3, <2>4, <2>5, PlanAssumption DEF Start
    <2>6. Kept' /\ DoomedAside'
      BY <2>9, <2>10
    <2>7. InstallAside'
      BY <1>3, <2>1, <2>3, <2>4, <2>5, PlanAssumption DEF Start
    <2>8. AheadWhole'
      <3> SUFFICES ASSUME NEW q \in Installed PROVE
            /\ pc' # "start" /\ pc' \notin {"move", "moveBackup", "install"}
            /\ pc' = "remove" /\ (InRemove(q, k) \/ InMove(q, 1))' => Whole(q)'
        BY <2>5
      <3>0. SUFFICES ASSUME pc' = "remove", InRemove(q, k + 1) \/ InMove(q, 1)
                     PROVE  Whole(q)'
        BY <2>3, <2>5
      <3>1. q # p
        BY <1>5, <1>6, <2>1, <3>0
      <3>2. InRemove(q, k) \/ InMove(q, 1)
        BY <1>6, <3>0
      <3>3. Whole(q)
        BY <1>3, <2>5, <3>2 DEF Start
      <3> QED BY <2>3, <3>1, <3>3, PlanAssumption
    <2> QED BY <2>6, <2>7, <2>8
  <1>13. CASE MoveNext
    BY <1>3, <1>5, <1>6, <1>13 DEF MoveNext, Start
  <1>14. CASE MovePrepare
    <2>1. PICK p \in Path : p = plan.move[k] /\ k \in 1..Len(plan.move)
      BY <1>5, <1>6, <1>14 DEF MovePrepare
    <2>2. p \in Installed => Whole(p)
      BY <1>3, <1>6, <1>14, <2>1 DEF MovePrepare, Start
    <2>3. \A q \in Path \ {p} : backup'[q] = backup[q] /\ archived'[q] = archived[q]
      BY <1>14, <2>1 DEF MovePrepare, PrepareBackup
    <2>4. UNCHANGED <<plan, target, pending, doomed, k>> /\ pc = "move" /\ pc' = "moveBackup"
      BY <1>14 DEF MovePrepare
    <2> QED BY <1>3, <2>1, <2>2, <2>3, <2>4, PlanAssumption DEF Start
  <1>15. CASE MoveBackup
    <2>1. PICK p \in Path : p = plan.move[k] /\ k \in 1..Len(plan.move)
      BY <1>5, <1>6, <1>15 DEF MoveBackup
    <2>2. p \in Installed => Whole(p)
      BY <1>3, <1>6, <1>15, <2>1 DEF MoveBackup, Start
    <2>3. /\ \A q \in Path \ {p} : target'[q] = target[q] /\ backup'[q] = backup[q]
                                     /\ pending'[q] = pending[q] /\ (q \in doomed' <=> q \in doomed)
          /\ UNCHANGED <<plan, archived>>
      BY <1>15, <2>1 DEF MoveBackup, RecycleAndBackupDirectory, MoveToBackup,
         Vacate, Copied, CopyDone, CopyFails, Forced, Retried, RenameLocked, RemovedInPart
    <2>4. p \in Installed =>
            /\ OldIn(Versions(p), p)'
            /\ p \in doomed' => OldIn({backup'[p]}, p) /\ target'[p] # "none"
            /\ pc' = "install" => OldIn({backup'[p]}, p) /\ target'[p] \in {"none", "old"}
      <3>1. PICK ok \in BOOLEAN : BackedUp(p, ok) /\ (pc' = "install" => ok)
        BY <1>15, <2>1 DEF MoveBackup, BackedUp
      <3> QED BY <2>2, <3>1, BackupKeeps
    <2>5. pc = "moveBackup" /\ pc' \in {"install", "rollback"} /\ (pc' = "install" => k' = k)
      BY <1>15 DEF MoveBackup
    <2>9. Kept'
      <3> SUFFICES ASSUME NEW q \in Installed PROVE OldIn(Versions(q), q)'
        OBVIOUS
      <3>1. CASE q = p
        BY <2>4, <3>1
      <3>2. CASE q # p
        <4>1. q \in Path \ {p}
          BY <3>2, PlanAssumption
        <4>2. OldIn(Versions(q), q)
          BY <1>3, <2>5 DEF Start
        <4> QED BY <2>3, <4>1, <4>2
      <3> QED BY <3>1, <3>2
    <2>10. DoomedAside'
      BY <1>3, <2>1, <2>3, <2>4, <2>5, PlanAssumption DEF Start
    <2>6. Kept' /\ DoomedAside'
      BY <2>9, <2>10
    <2>7. InstallAside'
      BY <1>3, <2>1, <2>3, <2>4, <2>5, PlanAssumption DEF Start
    <2>8. AheadWhole'
      <3> SUFFICES ASSUME NEW q \in Installed, pc' = "install", InMove(q, k + 1)
                   PROVE  Whole(q)'
        BY <2>3, <2>5
      <3>1. q # p /\ InMove(q, k)
        BY <1>5, <1>6, <2>1
      <3>3. Whole(q)
        BY <1>3, <2>5, <3>1 DEF Start
      <3> QED BY <2>3, <3>1, <3>3, PlanAssumption
    <2> QED BY <2>6, <2>7, <2>8
  <1>16. CASE MoveFresh
    BY <1>3, <1>5, <1>6, <1>16 DEF MoveFresh, Start
  <1>17. CASE Refuse
    BY <1>3, <1>5, <1>6, <1>17 DEF Refuse, Start
  <1>18. CASE InstallFile \/ InstallDir
    <2>1. PICK p \in Path : p = plan.move[k] /\ k \in 1..Len(plan.move)
      BY <1>5, <1>6, <1>18 DEF InstallFile, InstallDir
    <2>2. p \in Installed => Aside(p)
      BY <1>3, <1>18, <2>1 DEF InstallFile, InstallDir, Start
    <2>3. /\ \A q \in Path \ {p} : target'[q] = target[q] /\ pending'[q] = pending[q]
          /\ target'[p] = "new" /\ pending[p] \subseteq pending'[p]
          /\ UNCHANGED <<plan, backup, archived, doomed>>
      BY <1>18, <2>1 DEF InstallFile, InstallDir
    <2>4. pc = "install" /\ pc' = "move" /\ k' = k + 1
      BY <1>18 DEF InstallFile, InstallDir
    <2>5. /\ \A q \in Path : pending[q] \subseteq pending'[q]
          /\ \A q \in Path : target[q] # "none" => target'[q] # "none"
      BY <2>1, <2>3
    <2>6. \A q \in Installed : OldIn(Versions(q), q)'
      <3> TAKE q \in Installed
      <3>1. CASE q = p
        BY <2>2, <2>3, <3>1
      <3>2. CASE q # p
        BY <1>3, <1>18, <2>3, <3>2, PlanAssumption DEF InstallFile, InstallDir, Start
      <3> QED BY <3>1, <3>2
    <2>7. Kept'
      BY <2>3, <2>6
    <2>8. DoomedAside'
      BY <1>3, <2>3, <2>4, <2>5, PlanAssumption DEF Start
    <2>9. AheadWhole' /\ InstallAside'
      BY <1>3, <1>5, <1>6, <2>1, <2>3, <2>4, PlanAssumption DEF Start
    <2> QED BY <2>7, <2>8, <2>9
  <1>20. CASE InstallFails
    BY <1>3, <1>5, <1>6, <1>20 DEF InstallFails, Vacate, Start
  <1>21. CASE Finish
    BY <1>3, <1>5, <1>6, <1>21 DEF Finish, Start
  <1>22. CASE RollbackEntry
    <2>1. Undo \in Seq(Path)
      BY <1>5 DEF Undo
    <2>2. PICK p \in Path : p = Undo[k]
      BY <1>6, <1>22, <2>1 DEF RollbackEntry
    <2>3. UNCHANGED <<plan, pending, doomed>> /\ pc = "rollback" /\ pc' = "rollback"
      BY <1>22 DEF RollbackEntry
    <2>4. CASE UNCHANGED <<target, backup, archived>>
      BY <1>3, <2>3, <2>4 DEF Start
    <2>5. CASE ~Exists(p) /\ backup[p] # "none" /\ Restore(p)
      <3>1. \A q \in Path \ {p} : target'[q] = target[q] /\ backup'[q] = backup[q]
                                    /\ archived'[q] = archived[q]
        BY <2>2, <2>5 DEF Restore
      <3>2. p \in Installed => OldIn(Versions(p), p)'
        BY <1>3, <2>2, <2>3, <2>5 DEF Restore, Start
      <3>3. p \in doomed \cap Installed => OldIn(pending'[p], p)
        BY <1>3, <2>3, <2>5 DEF Start
      <3>4. Kept'
        BY <1>3, <2>2, <2>3, <3>1, <3>2, PlanAssumption DEF Start
      <3>5. DoomedAside'
        <4> SUFFICES ASSUME NEW q \in doomed \cap Installed
                     PROVE  OldIn(pending'[q], q) \/ (OldIn({backup'[q]}, q) /\ target'[q] # "none")
          BY <2>3
        <4>1. CASE q = p
          BY <3>3, <4>1
        <4>2. CASE q # p
          <5>1. q \in Path \ {p}
            BY <4>2, PlanAssumption
          <5> QED BY <1>3, <2>3, <3>1, <5>1 DEF Start
        <4> QED BY <4>1, <4>2
      <3>6. AheadWhole' /\ InstallAside'
        BY <2>3
      <3> QED BY <3>4, <3>5, <3>6
    <2> QED BY <1>22, <2>2, <2>4, <2>5 DEF RollbackEntry
  <1>23. CASE RollbackDone
    BY <1>3, <1>23 DEF RollbackDone, Start
  <1>24. CASE Cleanup
    BY <1>3, <1>24 DEF Cleanup, Start
  <1>25. CASE Kill
    BY <1>3, <1>25 DEF Kill, Start
  <1>26. CASE Reboot
    <2>1. /\ UNCHANGED <<backup, archived, pending, doomed>>
          /\ \A q \in Path \ doomed : target'[q] = target[q]
          /\ pc # "rebooted" /\ pc' = "rebooted"
      BY <1>26 DEF Reboot
    <2> QED BY <1>3, <2>1, PlanAssumption DEF Start
  <1> QED
    BY <1>1, <1>7, <1>8, <1>9, <1>10, <1>11, <1>12, <1>13, <1>14, <1>15, <1>16,
       <1>17, <1>18, <1>20, <1>21, <1>22, <1>23, <1>24, <1>25, <1>26
    DEF Next, Program

\* Whatever fails, and wherever the first start is killed or the machine booted,
\* the updater leaves a copy of every path that was installed, though of a directory
\* perhaps only what CopyDirectoryRecursive could list of it.
THEOREM OldAlwaysKept == Spec => []OldKept
  <1>1. Init => KeptInv
    BY KeptInit
  <1>2. TypeOK /\ TypeOK' /\ KeptInv /\ [Next]_vars => KeptInv'
    BY KeptNext
  <1>3. KeptInv => OldKept
    BY DEF KeptInv, Kept, OldKept
  <1> QED BY <1>1, <1>2, <1>3, UpdaterTypeCorrect, PTL DEF Spec
-----------------------------------------------------------------------------
\* What moveList named before the entry at hand is installed, and nothing is
\* reported before the plan came to its end.
Placed == \A j \in 1..Len(plan.move) : j < k => target[plan.move[j]] = "new"
InstallInv ==
  /\ success => pc \in {"cleanup", "exited", "killed", "rebooted"}
  /\ pc \in {"move", "moveBackup", "install"} => Placed
  /\ InstalledOnSuccess

LEMMA PlacedAll ==
  ASSUME plan \in Plan
  PROVE  ToSet(plan.move) = {plan.move[j] : j \in 1..Len(plan.move)}
  BY PlanFacts DEF ToSet

\* A step on the entry at hand touches none before it.
LEMMA PlacedFrame ==
  ASSUME TypeOK, Placed, plan' = plan, NEW p, k \in 1..Len(plan.move), p = plan.move[k],
         \A q \in Path \ {p} : target'[q] = target[q],
         NEW n \in Nat, n <= k \/ (n = k + 1 /\ target'[p] = "new")
  PROVE  \A j \in 1..Len(plan'.move) : j < n => target'[plan'.move[j]] = "new"
  <1>1. /\ plan.move \in Seq(Path)
        /\ \A i, j \in 1..Len(plan.move) : plan.move[i] = plan.move[j] => i = j
    BY PlanFacts DEF TypeOK
  <1>2. k \in Nat
    BY DEF TypeOK
  <1> TAKE j \in 1..Len(plan'.move)
  <1> HAVE j < n
  <1>3. plan.move[j] \in Path /\ j \in 1..Len(plan.move) /\ j \in Nat
    BY <1>1
  <1>4. CASE j = k
    BY <1>2, <1>4
  <1>5. CASE j # k
    <2>1. j < k
      BY <1>2, <1>3, <1>5
    <2>2. plan.move[j] \in Path \ {p}
      BY <1>1, <1>3, <1>5
    <2> QED BY <1>3, <2>1, <2>2 DEF Placed
  <1> QED BY <1>4, <1>5

LEMMA InstallInit == Init => InstallInv
  BY DEF Init, InstallInv, InstalledOnSuccess

LEMMA InstallNext == TypeOK /\ TypeOK' /\ InstallInv /\ [Next]_vars => InstallInv'
  <1> SUFFICES ASSUME TypeOK, TypeOK', InstallInv, [Next]_vars PROVE InstallInv'
    OBVIOUS
  <1>1. k \in Nat /\ k # 0
    BY DEF TypeOK
  <1>2. plan.move \in Seq(Path)
    BY PlanFacts DEF TypeOK
  <1> USE DEF InstallInv, Goto, Resume, files, package
  <1>3. ASSUME success' = FALSE, pc' \notin {"move", "moveBackup", "install"} PROVE InstallInv'
    BY <1>3 DEF InstalledOnSuccess
  \* Nothing is installed yet, or no longer.
  <1>4. CASE Blocked \/ Begin \/ RemoveSkip \/ RemovePrepare \/ RemoveBackup \/ Refuse
             \/ InstallFails \/ RollbackEntry \/ RollbackDone
    <2>1. ~success
      BY <1>4 DEF Blocked, Begin, RemoveSkip, RemovePrepare, RemoveBackup, Refuse,
                  InstallFails, RollbackEntry, RollbackDone
    <2>2. success' = success
      BY <1>4 DEF Blocked, Begin, RemoveSkip, RemovePrepare, RemoveBackup, Refuse,
                  InstallFails, RollbackEntry, RollbackDone
    <2>3. pc' \notin {"move", "moveBackup", "install"}
      BY <1>4 DEF Blocked, Begin, RemoveSkip, RemovePrepare, RemoveBackup, Refuse,
                  InstallFails, RollbackEntry, RollbackDone
    <2>4. success' = FALSE
      BY <2>1, <2>2 DEF TypeOK
    <2> QED BY <2>3, <2>4, <1>3
  <1>5. CASE MoveNext
    <2>1. ~success /\ success' = success /\ pc' = "move" /\ k' = 1
      BY <1>5 DEF MoveNext
    <2> QED BY <2>1 DEF Placed, InstalledOnSuccess
  <1>6. CASE MovePrepare \/ MoveFresh
    <2>1. ~success /\ success' = success /\ UNCHANGED <<plan, target, k>> /\ Placed
      BY <1>6 DEF MovePrepare, MoveFresh
    <2> QED BY <2>1 DEF Placed, InstalledOnSuccess
  <1>7. CASE MoveBackup
    <2>1. ~success /\ success' = success /\ plan' = plan /\ Placed
      BY <1>7 DEF MoveBackup
    <2>2. k \in 1..Len(plan.move)
      BY <1>1, <1>7 DEF MoveBackup, TypeOK
    <2>3. PICK p \in Path : p = plan.move[k]
      BY <1>2, <2>2
    <2>4. \A q \in Path \ {p} : target'[q] = target[q]
      BY <1>7, <2>3 DEF MoveBackup, RecycleAndBackupDirectory, MoveToBackup, TypeOK, Entry,
         Vacate, Copied, CopyDone, CopyFails, Forced, Retried, RenameLocked, RemovedInPart
    <2>5. (pc' = "install" /\ k' = k) \/ pc' = "rollback"
      BY <1>7 DEF MoveBackup
    <2>6. k <= k
      BY <1>1
    <2>7. \A j \in 1..Len(plan'.move) : j < k => target'[plan'.move[j]] = "new"
      BY <1>1, <2>1, <2>2, <2>3, <2>4, <2>6, PlacedFrame
    <2>8. pc' \in {"move", "moveBackup", "install"} => Placed'
      BY <2>5, <2>7 DEF Placed
    <2> QED BY <2>1, <2>8 DEF InstalledOnSuccess
  <1>8. CASE InstallFile \/ InstallDir
    <2>1. ~success /\ success' = success /\ plan' = plan /\ Placed /\ pc' = "move" /\ k' = k + 1
      BY <1>8 DEF InstallFile, InstallDir
    <2>2. k \in 1..Len(plan.move)
      BY <1>1, <1>8 DEF InstallFile, InstallDir, TypeOK
    <2>3. PICK p \in Path : p = plan.move[k]
      BY <1>2, <2>2
    <2>4. target' = [target EXCEPT ![p] = "new"]
      BY <1>8, <2>3 DEF InstallFile, InstallDir, Entry
    <2>5. target'[p] = "new" /\ \A q \in Path \ {p} : target'[q] = target[q]
      BY <2>3, <2>4 DEF TypeOK
    <2>6. k + 1 \in Nat
      BY <1>1
    <2>7. \A j \in 1..Len(plan'.move) : j < k + 1 => target'[plan'.move[j]] = "new"
      BY <2>1, <2>2, <2>3, <2>5, <2>6, PlacedFrame
    <2> QED BY <2>1, <2>7 DEF Placed, InstalledOnSuccess
  <1>9. CASE Finish
    <2>1. /\ k > Len(plan.move) /\ Placed /\ pc' = "cleanup"
          /\ UNCHANGED <<plan, target>>
      BY <1>9 DEF Finish
    <2>2. \A j \in 1..Len(plan.move) : j < k
      BY <1>1, <1>2, <2>1
    <2>4. plan \in Plan
      BY DEF TypeOK
    <2>5. ToSet(plan.move) = {plan.move[j] : j \in 1..Len(plan.move)}
      BY <2>4, PlacedAll
    <2>3. \A p \in ToSet(plan.move) : target[p] = "new"
      BY <2>1, <2>2, <2>5 DEF Placed
    <2> QED BY <2>1, <2>3 DEF InstalledOnSuccess
  <1>10. CASE Cleanup \/ Kill
    <2>1. UNCHANGED <<plan, target, success, doomed>> /\ pc # "rebooted"
          /\ pc' \in {"exited", "killed"}
      BY <1>10 DEF Cleanup, Kill
    <2> QED BY <2>1 DEF InstalledOnSuccess
  <1>11. CASE Reboot
    <2>1. UNCHANGED <<plan, success, doomed>> /\ pc # "rebooted" /\ pc' = "rebooted"
      BY <1>11 DEF Reboot
    <2>2. \A p \in Path \ doomed : target'[p] = target[p]
      BY <1>11 DEF Reboot
    <2>3. ToSet(plan.move) \subseteq Path
      BY <1>2, PlacedAll DEF TypeOK
    <2> QED BY <2>1, <2>2, <2>3 DEF InstalledOnSuccess
  <1>12. CASE Start
    <2>1. success' = FALSE /\ pc' = "start"
      BY <1>12 DEF Start
    <2> QED BY <2>1, <1>3
  <1>13. CASE UNCHANGED vars
    BY <1>13 DEF vars, Placed, InstalledOnSuccess
  <1> QED
    BY <1>4, <1>5, <1>6, <1>7, <1>8, <1>9, <1>10, <1>11, <1>12, <1>13 DEF Next, Program

\* A start that reports success has installed every entry of moveList, wherever earlier
\* starts were interrupted (InstalledOnSuccess in module Updater).
THEOREM SuccessMeansInstalled == Spec => []InstalledOnSuccess
  <1>1. InstallInv => InstalledOnSuccess
    BY DEF InstallInv
  <1> QED BY <1>1, InstallInit, InstallNext, UpdaterTypeCorrect, PTL DEF Spec

-----------------------------------------------------------------------------
(* The process.                                                              *)

\* A step of the process is one of module Updater, or none on its variables.
LEMMA ProcessStep == [ProcNext]_<<vars, procVars>> => [Next]_vars
<1> SUFFICES ASSUME [ProcNext]_<<vars, procVars>> PROVE [Next]_vars
  OBVIOUS
<1>1. CASE Process
  <2>1. WaitParent \/ AcquireMutex \/ Report \/ ReleaseMutex \/ Relaunch => UNCHANGED vars
    BY DEF WaitParent, AcquireMutex, Report, ReleaseMutex, Relaunch
  <2>2. Decline \/ BeginWork \/ Work \/ Succeed \/ Fail \/ Clean => Program
    BY DEF Decline, BeginWork, Work, Advances, Succeed, Fail, Clean, Program
  <2> QED BY <1>1, <2>1, <2>2 DEF Process, Next
<1>2. CASE InstanceExit \/ InstanceStart
  BY <1>2 DEF InstanceExit, InstanceStart
<1>3. CASE KillProcess
  BY <1>3 DEF KillProcess, Next
<1>4. CASE RebootMachine \/ StartAgain
  BY <1>4 DEF RebootMachine, StartAgain, Next
<1>5. CASE UNCHANGED <<vars, procVars>>
  BY <1>5
<1> QED BY <1>1, <1>2, <1>3, <1>4, <1>5 DEF ProcNext

\* The process takes the steps of module Updater and no others on its variables: what
\* is proved of the update holds of the process.
THEOREM ProcessUpdates == ProcSpec => Spec
<1>1. ProcInit => Init
  BY DEF ProcInit
<1> QED BY <1>1, ProcessStep, PTL DEF ProcSpec, Spec

-----------------------------------------------------------------------------
\* The mutex shuts out every instance while it is held, and is held from the moment
\* it is had until the process gives it back.
MutexInv ==
  /\ mutex \in BOOLEAN
  /\ mutex => instance = "none"
  /\ stage \in {"wait", "acquire", "blocked", "relaunch", "done"} => ~mutex
  /\ Named /\ stage \in {"ready", "work"} => mutex

LEMMA MutexInitially == ProcInit => MutexInv
BY DEF ProcInit, MutexInv

LEMMA MutexStep == MutexInv /\ [ProcNext]_<<vars, procVars>> => MutexInv'
<1> SUFFICES ASSUME MutexInv, [ProcNext]_<<vars, procVars>> PROVE MutexInv'
  OBVIOUS
<1> USE DEF MutexInv
<1>1. CASE WaitParent
  BY <1>1 DEF WaitParent
<1>2. CASE AcquireMutex
  BY <1>2, ProcessAssumption DEF AcquireMutex
<1>3. CASE Decline \/ BeginWork \/ Work
  BY <1>3 DEF Decline, BeginWork, Work
<1>4. CASE Succeed
  BY <1>4 DEF Succeed
<1>5. CASE Fail \/ Report
  BY <1>5 DEF Fail, Report
<1>6. CASE Clean
  BY <1>6 DEF Clean
<1>7. CASE ReleaseMutex
  BY <1>7 DEF ReleaseMutex
<1>8. CASE Relaunch
  <2>1. stage = "relaunch" /\ stage' = "done" /\ mutex' = mutex
    BY <1>8 DEF Relaunch
  <2>2. ~mutex
    BY <2>1
  <2>3. ~mutex' /\ mutex' \in BOOLEAN
    BY <2>1, <2>2
  <2> QED BY <2>1, <2>3
<1>9. CASE InstanceExit \/ InstanceStart
  BY <1>9 DEF InstanceExit, InstanceStart
<1>10. CASE KillProcess \/ RebootMachine \/ StartAgain
  <2>1. ~mutex' /\ mutex' \in BOOLEAN /\ stage' \in {"done", "wait"}
    <3>1. CASE KillProcess
      BY <3>1 DEF KillProcess
    <3>2. CASE RebootMachine \/ StartAgain
      <4>1. stage = "done" /\ mutex' = mutex /\ stage' \in {"done", "wait"}
        BY <3>2 DEF RebootMachine, StartAgain
      <4>2. ~mutex
        BY <4>1
      <4> QED BY <4>1, <4>2
    <3> QED BY <1>10, <3>1, <3>2
  <2> QED BY <2>1
<1>11. CASE UNCHANGED <<vars, procVars>>
  BY <1>11 DEF procVars
<1> HIDE DEF MutexInv
<1>12. CASE Process
  BY <1>12, <1>1, <1>2, <1>3, <1>4, <1>5, <1>6, <1>7, <1>8 DEF Process
<1> QED BY <1>9, <1>10, <1>11, <1>12 DEF ProcNext

\* Files of the installation change only while no instance of MAA runs (Exclusive in
\* module UpdaterProcess), whatever instances come and go and wherever the updater is
\* killed and started again (AcquireUpdateMutex, main.cpp:1478).
THEOREM UpdateIsExclusive == ProcSpec => []Exclusive
<1>1. MutexInv => Exclusive
  BY DEF MutexInv, Exclusive
<1> QED BY MutexInitially, MutexStep, <1>1, PTL DEF ProcSpec

\* Whatever the process around it does, the first start of the updater loses no
\* installed file (OldKept in module Updater).
THEOREM ProcessKeepsOld == ProcSpec => []OldKept
BY ProcessUpdates, OldAlwaysKept, PTL
-----------------------------------------------------------------------------
\* Where the process is, around what pc says.
StageInv ==
  /\ stage \in Stage
  /\ stage \in {"wait", "acquire", "blocked", "ready"} => pc = "start"
  /\ stage = "work" =>
       pc \in {"remove", "removeBackup", "move", "moveBackup", "install", "rollback"}
  /\ stage \in {"report", "clean"} => pc = "cleanup"
  /\ stage \in {"release", "relaunch"} => pc = "exited"
  /\ stage = "done" => pc \in {"exited", "killed", "rebooted"}
  /\ stage = "report" => ~success

\* The progress is what lies behind the entry at hand.
CountInv ==
  /\ counted \in Nat
  /\ stage \in {"wait", "acquire", "blocked", "ready", "done"} => counted = 0
  /\ pc \in {"remove", "removeBackup"} => k <= Len(plan.remove) + 1 /\ counted = k - 1
  /\ pc \in {"move", "moveBackup", "install"} =>
       k <= Len(plan.move) + 1 /\ counted = Len(plan.remove) + k - 1
  /\ stage = "clean" /\ success => counted = Total

\* Of the status files the one that fits is there, from when both were seen to.
StatusInv ==
  stage \in {"clean", "release", "relaunch"} /\ ~fault =>
    (okFile = "written") = success /\ (failFile = "written") = ~success

LEMMA StageInitially == ProcInit => StageInv
BY DEF ProcInit, Init, StageInv, Stage

LEMMA StageStep == TypeOK /\ InstallInv /\ StageInv /\ [ProcNext]_<<vars, procVars>> => StageInv'
<1> SUFFICES ASSUME TypeOK, InstallInv, StageInv, [ProcNext]_<<vars, procVars>> PROVE StageInv'
  OBVIOUS
<1>1. pc \notin {"cleanup", "exited", "killed", "rebooted"} => ~success
  BY DEF InstallInv
<1> USE DEF StageInv, Stage, Goto, Resume
<1>2. CASE WaitParent \/ AcquireMutex
  BY <1>2 DEF WaitParent, AcquireMutex, vars
<1>3. CASE Decline
  <2>1. pc' = "cleanup" /\ stage' = "report" /\ success' = success /\ pc = "start"
    BY <1>3 DEF Decline, Blocked
  <2> QED BY <1>1, <2>1
<1>4. CASE BeginWork
  BY <1>4 DEF BeginWork, Begin
<1>5. CASE Work
  <2>1. stage = "work" /\ stage' = "work"
    BY <1>5 DEF Work
  <2>2. pc' \in {"remove", "removeBackup", "move", "moveBackup", "install", "rollback"}
    BY <1>5 DEF Work, Advances, RemoveSkip, RemovePrepare, RemoveBackup, MoveNext,
       MovePrepare, MoveBackup, MoveFresh, Refuse, InstallFile, InstallDir, InstallFails,
       RollbackEntry
  <2> QED BY <2>1, <2>2
<1>6. CASE Succeed
  <2>1. pc' = "cleanup" /\ stage' = IF success' THEN "clean" ELSE "report"
    BY <1>6 DEF Succeed, Finish
  <2>2. CASE success'
    BY <2>1, <2>2
  <2>3. CASE ~success'
    BY <2>1, <2>3
  <2> QED BY <2>2, <2>3
<1>7. CASE Fail
  <2>1. pc' = "cleanup" /\ stage' = "report" /\ success' = success /\ pc = "rollback"
    BY <1>7 DEF Fail, RollbackDone
  <2> QED BY <1>1, <2>1
<1>8. CASE Report
  BY <1>8 DEF Report, vars
<1>9. CASE Clean
  BY <1>9 DEF Clean, Cleanup
<1>10. CASE ReleaseMutex \/ Relaunch
  BY <1>10 DEF ReleaseMutex, Relaunch, vars
<1>11. CASE InstanceExit \/ InstanceStart
  BY <1>11 DEF InstanceExit, InstanceStart, vars
<1>12. CASE KillProcess
  BY <1>12 DEF KillProcess, Kill, vars
<1>13. CASE RebootMachine
  BY <1>13 DEF RebootMachine, Reboot
<1>14. CASE StartAgain
  BY <1>14 DEF StartAgain, Start
<1>15. CASE UNCHANGED <<vars, procVars>>
  BY <1>15 DEF vars, procVars
<1> QED
  BY <1>2, <1>3, <1>4, <1>5, <1>6, <1>7, <1>8, <1>9, <1>10, <1>11, <1>12, <1>13, <1>14,
     <1>15 DEF ProcNext, Process

LEMMA CountInitially == ProcInit => CountInv
BY DEF ProcInit, Init, CountInv

LEMMA CountStep ==
  TypeOK /\ TypeOK' /\ StageInv /\ StageInv' /\ CountInv /\ [ProcNext]_<<vars, procVars>>
    => CountInv'
<1> SUFFICES ASSUME TypeOK, TypeOK', StageInv, StageInv', CountInv,
                    [ProcNext]_<<vars, procVars>>
             PROVE  CountInv'
  OBVIOUS
<1>1. k \in Nat /\ k # 0
  BY DEF TypeOK
<1>2. Len(plan.remove) \in Nat /\ Len(plan.move) \in Nat
  BY PlanFacts DEF TypeOK
<1> USE DEF CountInv
\* Nothing is counted outside the work.
<1>3. CASE WaitParent \/ AcquireMutex \/ Decline \/ StartAgain
  <2>1. counted' = counted /\ counted = 0 /\ pc' \in {"start", "cleanup"}
        /\ stage' \in {"acquire", "ready", "blocked", "report", "wait"}
    BY <1>3 DEF WaitParent, AcquireMutex, Decline, StartAgain, Blocked, Start, Goto, StageInv,
                vars
  <2> QED BY <2>1
<1>4. CASE BeginWork
  <2>1. counted' = counted /\ counted = 0 /\ pc' = "remove" /\ k' = 1 /\ stage' = "work"
        /\ plan' = plan
    BY <1>4 DEF BeginWork, Begin, Goto, package
  <2> QED BY <1>2, <2>1
<1>5. CASE Work
  <2>1. stage' = "work" /\ plan' = plan
    BY <1>5 DEF Work, Advances, RemoveSkip, RemovePrepare, RemoveBackup, MoveNext,
       MovePrepare, MoveBackup, MoveFresh, Refuse, InstallFile, InstallDir, InstallFails,
       RollbackEntry, package
  <2>2. CASE (RemoveSkip \/ (RemoveBackup /\ pc' = "remove")) /\ Advance
    <3>1. pc \in {"remove", "removeBackup"} /\ k <= Len(plan.remove)
          /\ pc' = "remove" /\ k' = k + 1
      BY <2>2 DEF RemoveSkip, RemoveBackup, Goto, Resume, TypeOK
    <3>2. counted = k - 1
      BY <3>1
    <3>3. counted < Total
      <4>1. \A n, m, j \in Nat : j # 0 /\ j <= n => j - 1 < n + m
        OBVIOUS
      <4> QED BY <4>1, <1>1, <1>2, <3>1, <3>2 DEF Total
    <3>4. counted' = k
      BY <1>1, <2>2, <3>2, <3>3 DEF Advance
    <3> QED BY <1>1, <1>2, <2>1, <3>1, <3>4
  <2>3. CASE (InstallFile \/ InstallDir) /\ Advance
    <3>1. pc = "install" /\ k <= Len(plan.move) /\ pc' = "move" /\ k' = k + 1
      BY <2>3 DEF InstallFile, InstallDir, Resume, TypeOK
    <3>2. counted = Len(plan.remove) + k - 1
      BY <3>1
    <3>3. counted < Total
      <4>1. \A n, m, j \in Nat : j # 0 /\ j <= m => n + j - 1 < n + m
        OBVIOUS
      <4> QED BY <4>1, <1>1, <1>2, <3>1, <3>2 DEF Total
    <3>4. counted' = Len(plan.remove) + k
      BY <1>1, <1>2, <2>3, <3>2, <3>3 DEF Advance
    <3> QED BY <1>1, <1>2, <2>1, <3>1, <3>4
  <2>4. CASE (RemovePrepare \/ MovePrepare \/ MoveFresh \/ MoveBackup) /\ counted' = counted
    <3>1. \/ pc = "remove" /\ pc' = "removeBackup" /\ k' = k
          \/ pc = "move" /\ pc' \in {"moveBackup", "install"} /\ k' = k
          \/ pc = "moveBackup" /\ (pc' = "rollback" \/ (pc' = "install" /\ k' = k))
      <4>1. CASE RemovePrepare \/ MovePrepare \/ MoveFresh
        BY <4>1 DEF RemovePrepare, MovePrepare, MoveFresh
      <4>2. CASE MoveBackup
        <5>1. pc = "moveBackup"
          BY <4>2 DEF MoveBackup
        <5>2. (pc' = "install" /\ k' = k) \/ pc' = "rollback"
          BY <4>2 DEF MoveBackup, Goto
        <5> QED BY <5>1, <5>2
      <4> QED BY <2>4, <4>1, <4>2
    <3> QED BY <1>1, <1>2, <2>1, <2>4, <3>1
  <2>5. CASE MoveNext /\ counted' = counted
    <3>1. pc = "remove" /\ k > Len(plan.remove) /\ pc' = "move" /\ k' = 1
      BY <2>5 DEF MoveNext, Goto
    <3>2. k = Len(plan.remove) + 1 /\ counted = k - 1
      BY <1>1, <1>2, <3>1
    <3> QED BY <1>1, <1>2, <2>1, <2>5, <3>1, <3>2
  <2>6. CASE (Refuse \/ InstallFails \/ RollbackEntry \/ (RemoveBackup /\ pc' # "remove"))
             /\ counted' = counted
    <3>1. pc' = "rollback"
      BY <2>6 DEF Refuse, InstallFails, RollbackEntry, RemoveBackup, Goto, Resume
    <3> QED BY <2>1, <2>6, <3>1
  <2> QED BY <1>5, <2>2, <2>3, <2>4, <2>5, <2>6 DEF Work, Advances
<1>6. CASE Succeed
  <2>1. /\ pc = "move" /\ k > Len(plan.move) /\ pc' = "cleanup" /\ plan' = plan
        /\ counted' = counted /\ stage' \in {"clean", "report"}
    BY <1>6 DEF Succeed, Finish, Goto, package
  <2>2. k = Len(plan.move) + 1 /\ counted = Len(plan.remove) + k - 1
    BY <1>1, <1>2, <2>1
  <2>3. counted = Len(plan.remove) + Len(plan.move)
    BY <1>1, <1>2, <2>2
  <2> QED BY <2>1, <2>3 DEF Total
<1>7. CASE Fail
  BY <1>7 DEF Fail, RollbackDone, Goto
<1>8. CASE Report
  BY <1>8 DEF Report, vars, StageInv
<1>9. CASE Clean
  BY <1>9 DEF Clean, Cleanup, Goto
<1>10. CASE ReleaseMutex
  BY <1>10 DEF ReleaseMutex, vars, StageInv
<1>11. CASE InstanceExit \/ InstanceStart
  <2>1. UNCHANGED <<plan, pc, k, success, stage, counted>>
    BY <1>11 DEF InstanceExit, InstanceStart, vars
  <2> QED BY <2>1 DEF Total
<1>12. CASE Relaunch \/ KillProcess
  <2>1. stage' = "done" /\ counted' = 0
    BY <1>12 DEF Relaunch, KillProcess
  <2>2. pc' \notin {"remove", "removeBackup", "move", "moveBackup", "install"}
    BY <2>1 DEF StageInv
  <2> QED BY <2>1, <2>2
<1>13. CASE RebootMachine
  BY <1>13 DEF RebootMachine, Reboot, Goto
<1>14. CASE UNCHANGED <<vars, procVars>>
  BY <1>14 DEF vars, procVars, Total
<1> QED
  BY <1>3, <1>4, <1>5, <1>6, <1>7, <1>8, <1>9, <1>10, <1>11, <1>12, <1>13, <1>14
  DEF ProcNext, Process

LEMMA DeletedAtAll ==
  ASSUME NEW file, NEW f \in Deleted(file), ~f[2] PROVE f[1] = "none"
<1>1. f = <<"none", FALSE>> \/ f = <<file, TRUE>>
  BY DEF Deleted
<1>2. CASE f = <<file, TRUE>>
  <2>1. f[2] = TRUE
    BY <1>2
  <2> QED BY <2>1
<1>3. CASE f = <<"none", FALSE>>
  BY <1>3
<1> QED BY <1>1, <1>2, <1>3

LEMMA WrittenAtAll ==
  ASSUME NEW file, NEW f \in Written(file), ~f[2] PROVE f[1] = "written"
<1>1. f = <<"written", FALSE>> \/ f = <<"partial", TRUE>> \/ f = <<file, TRUE>>
  BY DEF Written
<1>2. CASE f = <<"written", FALSE>>
  BY <1>2
<1>3. CASE f = <<"partial", TRUE>>
  <2>1. f[2] = TRUE
    BY <1>3
  <2> QED BY <2>1
<1>4. CASE f = <<file, TRUE>>
  <2>1. f[2] = TRUE
    BY <1>4
  <2> QED BY <2>1
<1> QED BY <1>1, <1>2, <1>3, <1>4

LEMMA StatusInitially == ProcInit => StatusInv
BY DEF ProcInit, StatusInv

LEMMA StatusStep ==
  TypeOK /\ StageInv /\ StatusInv /\ [ProcNext]_<<vars, procVars>> => StatusInv'
<1> SUFFICES ASSUME TypeOK, StageInv, StatusInv, [ProcNext]_<<vars, procVars>> PROVE StatusInv'
  OBVIOUS
<1> USE DEF StatusInv
<1>1. ASSUME stage' \notin {"clean", "release", "relaunch"} PROVE StatusInv'
  BY <1>1
<1>2. CASE WaitParent \/ AcquireMutex \/ Decline \/ BeginWork \/ Fail \/ Relaunch
           \/ KillProcess \/ StartAgain
  <2>1. stage' \notin {"clean", "release", "relaunch"}
    BY <1>2 DEF WaitParent, AcquireMutex, Decline, BeginWork, Fail, Relaunch, KillProcess,
                StartAgain
  <2> QED BY <1>1, <2>1
<1>3. CASE Work \/ RebootMachine
  <2>1. stage' \notin {"clean", "release", "relaunch"}
    BY <1>3 DEF Work, RebootMachine
  <2> QED BY <1>1, <2>1
<1>4. CASE Succeed
  <2>1. SUFFICES ASSUME stage' = "clean", ~fault'
                 PROVE  (okFile' = "written") = success' /\ (failFile' = "written") = ~success'
    BY <1>4 DEF Succeed
  <2>2. PICK f \in Deleted(failFile), s \in Written(okFile) :
          /\ failFile' = f[1] /\ okFile' = s[1]
          /\ success' = (s[1] = "written" /\ ~s[2])
          /\ fault' = (f[2] \/ s[2])
    BY <1>4 DEF Succeed
  <2>3. success'
    BY <1>4, <2>1 DEF Succeed
  <2>4. ~f[2] /\ s[1] = "written"
    BY <2>1, <2>2, <2>3
  <2>5. f[1] = "none"
    BY <2>4, DeletedAtAll
  <2> QED BY <2>2, <2>3, <2>4, <2>5
<1>5. CASE Report
  <2>1. SUFFICES ASSUME ~fault'
                 PROVE  (okFile' = "written") = success' /\ (failFile' = "written") = ~success'
    OBVIOUS
  <2>2. PICK f \in Written(failFile), s \in Deleted(okFile) :
          /\ failFile' = f[1] /\ okFile' = s[1]
          /\ fault' = (fault \/ f[2] \/ s[2])
    BY <1>5 DEF Report
  <2>3. ~f[2] /\ ~s[2]
    BY <2>1, <2>2
  <2>4. f[1] = "written" /\ s[1] = "none"
    BY <2>3, DeletedAtAll, WrittenAtAll
  <2>5. success' = success /\ ~success
    BY <1>5 DEF Report, vars, StageInv
  <2>6. success' = FALSE
    BY <2>5 DEF TypeOK
  <2>7. okFile' = "none" /\ failFile' = "written"
    BY <2>2, <2>4
  <2> QED BY <2>6, <2>7
<1>6. CASE Clean
  BY <1>6 DEF Clean, Cleanup, status
<1>7. CASE ReleaseMutex \/ InstanceExit \/ InstanceStart
  BY <1>7 DEF ReleaseMutex, InstanceExit, InstanceStart, vars, status
<1>8. CASE UNCHANGED <<vars, procVars>>
  BY <1>8 DEF vars, procVars, status
<1> QED
  BY <1>2, <1>3, <1>4, <1>5, <1>6, <1>7, <1>8 DEF ProcNext, Process

\* The status an updater leaves is true (StatusTruthful in module UpdaterProcess): a
\* success says that every entry was counted and installed, and of the two files only
\* the one that fits is there, unless a file could not be written or deleted.
THEOREM StatusAlwaysTruthful == ProcSpec => []StatusTruthful
<1>1. ProcSpec => []TypeOK /\ []InstalledOnSuccess
  BY ProcessUpdates, UpdaterTypeCorrect, SuccessMeansInstalled, PTL
<1>2. ProcInit => InstallInv
  BY InstallInit DEF ProcInit
<1>3. TypeOK /\ TypeOK' /\ InstallInv /\ [ProcNext]_<<vars, procVars>> => InstallInv'
  BY InstallNext, ProcessStep
<1>4. InstalledOnSuccess /\ CountInv /\ StatusInv => StatusTruthful
  BY DEF CountInv, StatusInv, StatusTruthful
<1> QED BY <1>1, <1>2, <1>3, <1>4, StageInitially, StageStep, CountInitially, CountStep,
           StatusInitially, StatusStep, PTL DEF ProcSpec
=============================================================================
