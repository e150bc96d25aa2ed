---------------------------- MODULE UpdaterProcess ----------------------------
(* The process around the update (MaaUpdater/main.cpp, wmain): MAA.Updater waits   *)
(* for the MAA that started it, takes the mutex by which instances of MAA shut     *)
(* each other out, works as module Updater says, leaves a status file, cleans up,  *)
(* gives the mutex back and starts MAA again.                                      *)
(*                                                                               *)
(* An instance of MAA owns the mutex while it runs; one that cannot have it exits   *)
(* at once, which changes nothing here.  The mutex itself goes with its last        *)
(* handle, so that of the updater's two acquisitions (CreateMutexW and the wait)    *)
(* one release is enough.                                                          *)
EXTENDS Updater

CONSTANTS
  Named,      \* BOOLEAN: the updater is started with --mutex-name
  DriveRoot   \* BOOLEAN: the installation is the root of a drive

ASSUME ProcessAssumption == Named \in BOOLEAN /\ DriveRoot \in BOOLEAN

VARIABLES
  stage,      \* where the process is, around what pc says
  instance,   \* the instance of MAA that runs: "parent", "other" or "none"
  mutex,      \* hUpdateMutex is held
  okFile,     \* the status files: "none", "written", or "partial": created, but no more
  failFile,
  fault,      \* an operation on a status file failed since the last start
  counted     \* processedFileCount of the progress window

status == <<okFile, failFile, fault>>
procVars == <<stage, instance, mutex, okFile, failFile, fault, counted>>

Stage == {"wait", "acquire", "blocked", "ready", "work", "report", "clean",
          "release", "relaunch", "done"}

ProcInit ==
  /\ Init
  /\ stage = "wait" /\ instance = "parent" /\ mutex = FALSE
  /\ okFile = "none" /\ failFile = "none" /\ fault = FALSE /\ counted = 0

-----------------------------------------------------------------------------
\* The handle may be refused to an updater with fewer rights than its parent; then
\* it does not wait.
WaitParent ==
  /\ stage = "wait" /\ pc = "start"
  /\ stage' = "acquire"
  /\ UNCHANGED <<vars, instance, mutex, status, counted>>

\* AcquireUpdateMutex: the wait ends when the owner exits, with WAIT_ABANDONED when
\* it crashed, or after UPDATE_MUTEX_TIMEOUT_MS.
\* A mutant: the result of the wait is not looked at.
AcquireMutex_timeout ==
  /\ stage = "acquire" /\ pc = "start"
  /\ mutex' = Named /\ stage' = "ready"
  /\ UNCHANGED <<vars, instance, status, counted>>
AcquireMutex ==
  /\ stage = "acquire" /\ pc = "start"
  /\ \/ /\ Named => instance = "none"
        /\ mutex' = Named /\ stage' = "ready"
     \/ /\ Named /\ instance # "none"
        /\ stage' = "blocked" /\ UNCHANGED mutex
  /\ UNCHANGED <<vars, instance, status, counted>>

\* No mutex, an installation in the root of a drive, or a plan that cannot be read.
Decline ==
  /\ stage \in {"blocked", "ready"}
  /\ Blocked
  /\ stage' = "report"
  /\ UNCHANGED <<instance, mutex, status, counted>>

BeginWork ==
  /\ stage = "ready" /\ ~DriveRoot
  /\ Begin
  /\ stage' = "work"
  /\ UNCHANGED <<instance, mutex, status, counted>>

\* AdvanceProgressUi is called once an entry is done.
Total == Len(plan.remove) + Len(plan.move)
Advance == counted' = IF counted < Total THEN counted + 1 ELSE counted
Advances == RemoveSkip \/ InstallFile \/ InstallDir \/ (RemoveBackup /\ pc' = "remove")

Work ==
  /\ stage = "work"
  /\ \/ Advances /\ Advance
     \/ /\ \/ RemovePrepare \/ (RemoveBackup /\ pc' # "remove") \/ MoveNext
           \/ MovePrepare \/ MoveBackup \/ MoveFresh \/ Refuse \/ InstallFails \/ RollbackEntry
        /\ UNCHANGED counted
  /\ UNCHANGED <<stage, instance, mutex, status>>

\* A file is deleted, if it exists; nobody asks whether it was.
Deleted(file) == {<<"none", FALSE>>} \cup (IF file = "none" THEN {} ELSE {<<file, TRUE>>})
\* WriteUtf8File: the file is not opened, is opened and not filled, or is written.
Written(file) == {<<"written", FALSE>>, <<"partial", TRUE>>, <<file, TRUE>>}

\* The status of a plan that came to its end; the package is deleted too.
Succeed ==
  /\ stage = "work"
  /\ Finish
  /\ \E f \in Deleted(failFile), s \in Written(okFile) :
       /\ failFile' = f[1] /\ okFile' = s[1]
       /\ success' = (s[1] = "written" /\ ~s[2])
       /\ fault' = (f[2] \/ s[2])
  /\ stage' = IF success' THEN "clean" ELSE "report"
  /\ UNCHANGED <<instance, mutex, counted>>

Fail ==
  /\ stage = "work"
  /\ RollbackDone
  /\ stage' = "report"
  /\ UNCHANGED <<instance, mutex, status, counted>>

\* A mutant: what an earlier start left as its success is left.
Report_keepsSuccess ==
  /\ stage = "report" /\ pc = "cleanup"
  /\ \E f \in Written(failFile) :
       failFile' = f[1] /\ fault' = (fault \/ f[2])
  /\ stage' = "clean"
  /\ UNCHANGED <<vars, instance, mutex, okFile, counted>>
\* The failure is written, the success deleted, and the user told.
Report ==
  /\ stage = "report" /\ pc = "cleanup"
  /\ \E f \in Written(failFile), s \in Deleted(okFile) :
       /\ failFile' = f[1] /\ okFile' = s[1]
       /\ fault' = (fault \/ f[2] \/ s[2])
  /\ stage' = "clean"
  /\ UNCHANGED <<vars, instance, mutex, counted>>

Clean ==
  /\ stage = "clean"
  /\ Cleanup
  /\ stage' = IF mutex THEN "release" ELSE "relaunch"
  /\ UNCHANGED <<instance, mutex, status, counted>>

ReleaseMutex ==
  /\ stage = "release"
  /\ mutex' = FALSE
  /\ stage' = "relaunch"
  /\ UNCHANGED <<vars, instance, status, counted>>

\* Only after a success, if the executable is there and starts; the window goes.
Relaunch ==
  /\ stage = "relaunch"
  /\ instance' \in {instance} \cup (IF success /\ instance = "none" THEN {"other"} ELSE {})
  /\ stage' = "done" /\ counted' = 0
  /\ UNCHANGED <<vars, mutex, status>>

-----------------------------------------------------------------------------
\* Whoever uses MAA: an instance exits or crashes, another is started, as long as
\* the updater runs or may be started again (the bound MaxRuns).
Watched == stage = "done" => planFile /\ run < MaxRuns
InstanceExit ==
  /\ instance # "none" /\ Watched
  /\ instance' = "none"
  /\ UNCHANGED <<vars, stage, mutex, status, counted>>

InstanceStart ==
  /\ instance = "none" /\ ~mutex /\ Watched
  /\ instance' = "other"
  /\ UNCHANGED <<vars, stage, mutex, status, counted>>

\* Killed, the updater gives the mutex back and its window goes.
KillProcess ==
  /\ Kill \/ (stage \in {"release", "relaunch"} /\ UNCHANGED vars)
  /\ stage' = "done" /\ mutex' = FALSE /\ counted' = 0
  /\ UNCHANGED <<instance, status>>

RebootMachine ==
  /\ stage = "done"
  /\ Reboot
  /\ instance' = "none"
  /\ UNCHANGED <<stage, mutex, status, counted>>

StartAgain ==
  /\ stage = "done"
  /\ Start
  /\ stage' = "wait" /\ fault' = FALSE
  /\ UNCHANGED <<instance, mutex, okFile, failFile, counted>>

Process ==
  \/ WaitParent \/ AcquireMutex \/ Decline \/ BeginWork \/ Work \/ Succeed \/ Fail
  \/ Report \/ Clean \/ ReleaseMutex \/ Relaunch

ProcNext ==
  \/ Process \/ InstanceExit \/ InstanceStart \/ KillProcess \/ RebootMachine \/ StartAgain

ProcSpec == ProcInit /\ [][ProcNext]_<<vars, procVars>>

-----------------------------------------------------------------------------
\* While the mutex is used, files of the installation are replaced, removed and
\* restored only when no instance of MAA runs, whichever starts, exits or crashes
\* meanwhile and however the updater was ended before (main.cpp:1475: "prevent new
\* MAA instances from starting while the update is in progress").
Exclusive == Named /\ stage = "work" => instance = "none"

\* What an updater that came to its end leaves as its status is true: the success
\* file is there after a success only, then every entry was counted and installed
\* (unless a boot took it away); the failure file is there after a failure only. The
\* status files themselves may be beyond its reach, which "fault" remembers.
StatusTruthful ==
  /\ InstalledOnSuccess
  /\ stage = "clean" /\ success => counted = Total
  /\ stage \in {"release", "relaunch"} /\ ~fault =>
       /\ (okFile = "written") = success
       /\ (failFile = "written") = ~success
=============================================================================
