---------------------------- MODULE ProcessTask ----------------------------
(***************************************************************************)
(* What working_proc runs: a chain (InterfaceTask, a PackageTask) whose    *)
(* subtasks are ProcessTasks, and the engine of ProcessTask: look for one  *)
(* of a list of tasks on the screen, execute it, go on with the list that  *)
(* the outcome selects.  A task's "sub" tasks run in a ProcessTask of      *)
(* their own inside it, so there is a stack of them.                       *)
(*                                                                         *)
(* The task data (resource/tasks) is a constant.  What the screen shows is *)
(* nondeterministic.  stop() may come at any step: need_exit() is polled   *)
(* where the code polls it, and a poll and what it guards are two steps.   *)
(* The program registers no plugin, sets no times limit or ignore_error    *)
(* from C++ and disables only whole chains, so those are left out.         *)
(***************************************************************************)
EXTENDS Naturals, Sequences, SequencesExt, FiniteSets

CONSTANTS
  Task,            \* the names in the task data
  None,            \* no task
  NextOf, OnErrorNext, ExceededNext, Sub,  \* [Task -> Seq(Task)]
  ReduceOther,     \* [Task -> SUBSET Task], reduce_other_times
  MaxTimes,        \* [Limited -> Nat], max_times of the tasks that set it
  JustReturn,      \* the tasks recognised without looking at the screen
  StopAction,      \* the tasks whose action is Stop
  SubErrorIgnored, \* the tasks with sub_error_ignored
  RetryTimes,      \* m_retry_times
  Package          \* the chain's subtasks: the begin list of each ProcessTask

Limited == DOMAIN MaxTimes
Lists == Seq(Task) \ {<<>>}

ASSUME TaskDataAssumption ==
  /\ None \notin Task
  /\ \A F \in {NextOf, OnErrorNext, ExceededNext, Sub} : F \in [Task -> Seq(Task)]
  /\ ReduceOther \in [Task -> SUBSET Task]
  /\ Limited \subseteq Task
  /\ MaxTimes \in [Limited -> Nat]
  /\ JustReturn \subseteq Task
  /\ StopAction \subseteq Task
  /\ SubErrorIgnored \subseteq Task
  /\ RetryTimes \in Nat
  /\ Package \in Seq(Lists)

VARIABLES
  stopping,   \* need_exit()
  ppc,        \* where PackageTask::run is
  item,       \* index of its current subtask
  stack,      \* the ProcessTasks that are running, innermost last
  ret,        \* what the ProcessTask that has just returned returned
  result,     \* what the chain returned
  late,       \* history: actions executed after stop(), counted up to two
  halted,     \* history: an action Stop was executed
  errors      \* history: depths of the ProcessTasks that sent SubTaskError

vars == <<stopping, ppc, item, stack, ret, result, late, halted, errors>>
packageVars == <<ppc, item, result>>
historyVars == <<late, halted, errors>>

ProcessPC == {"find", "recognize", "hit", "preDelay", "act", "postDelay", "sub"}

\* A running ProcessTask; exec_times is kept for the tasks that have a limit.
Frame == [pc : ProcessPC, list : Lists, cur : Task \cup {None}, retry : Nat,
          hit : Task \cup {None}, exec : [Limited -> Nat], subIdx : Nat]

\* ProcessTask(*this, list) or set_tasks(list), then run()
NewFrame(list) ==
  [pc |-> "find", list |-> list, cur |-> None, retry |-> 0, hit |-> None,
   exec |-> [t \in Limited |-> 0], subIdx |-> 1]

Init ==
  /\ stopping = FALSE
  /\ ppc = "loop"
  /\ item = 1
  /\ stack = <<>>
  /\ ret = "none"
  /\ result = "none"
  /\ late = 0
  /\ halted = FALSE
  /\ errors = {}

-----------------------------------------------------------------------------
\* Mutant: a handle without an instance never has to exit.
NeedExit_never == FALSE

\* InstHelper::need_exit; sleep(ms) ends with the same poll.
NeedExit == stopping

f == Last(stack)
At(pc) == stack # <<>> /\ ret = "none" /\ f.pc = pc

\* The running ProcessTask becomes g.
Become(g) == stack' = [stack EXCEPT ![Len(stack)] = g] /\ UNCHANGED ret

\* ProcessTask::run returns.
Return(r) == stack' = Front(stack) /\ ret' = r

\* callback(SubTaskError, basic_info()); return false
Fail == Return("failed") /\ errors' = errors \cup {Len(stack)}

\* The end of the loop of ProcessTask::run: nothing left to recognise,
\* sleep(m_task_delay) interrupted, or the next turn with list after task t.
Advance(g, list, t) ==
  IF list = <<>> \/ NeedExit
  THEN Return("ok")
  ELSE Become([g EXCEPT !.pc = "find", !.list = list, !.cur = t, !.retry = 0])

Unless(interrupted, pc) ==
  IF interrupted THEN Return("ok") ELSE Become([f EXCEPT !.pc = pc])

-----------------------------------------------------------------------------
\* find_and_run_task: the poll on entry.
FindTask ==
  /\ At("find")
  /\ Unless(NeedExit, "recognize")
  /\ UNCHANGED <<stopping, packageVars, historyVars>>

\* The tasks that find_first may return: a list is searched in order, and a
\* JustReturn in it is always a match.
MayHit(list) ==
  {list[i] : i \in {j \in DOMAIN list : \A k \in 1..(j - 1) : list[k] \notin JustReturn}}
MustHit(list) == ToSet(list) \cap JustReturn # {}

\* From the second attempt on sleep(m_task_delay) precedes find_first.
Interrupted == f.retry > 0 /\ NeedExit

RecognizeInterrupted ==
  /\ At("recognize")
  /\ Interrupted
  /\ Return("ok")
  /\ UNCHANGED <<stopping, packageVars, historyVars>>

\* m_last_hit_detail, which the nested ProcessTasks have each of their own.
Hit(t) == Become([f EXCEPT !.pc = "hit", !.hit = t])

RecognizeHit(t) ==
  /\ At("recognize")
  /\ ~Interrupted
  /\ t \in MayHit(f.list)
  /\ Hit(t)
  /\ UNCHANGED <<stopping, packageVars, historyVars>>

RecognizeMiss ==
  /\ At("recognize")
  /\ ~Interrupted
  /\ ~MustHit(f.list)
  /\ f.retry < RetryTimes
  /\ Become([f EXCEPT !.retry = @ + 1])
  /\ UNCHANGED <<stopping, packageVars, historyVars>>

\* on_error_next of the task whose next list failed; the failure of that list
\* in turn has none to go on with.
RetryFailed ==
  /\ At("recognize")
  /\ ~Interrupted
  /\ ~MustHit(f.list)
  /\ f.retry = RetryTimes
  /\ IF f.cur = None \/ OnErrorNext[f.cur] = <<>>
     THEN Fail
     ELSE Advance(f, OnErrorNext[f.cur], None) /\ UNCHANGED errors
  /\ UNCHANGED <<stopping, packageVars, late, halted>>

\* Mutant: > for >=.
RunOut_over(t) == t \in Limited /\ f.exec[t] > MaxTimes[t]

\* calc_time_limit: nothing sets a limit of the engine's own.
Limit(t) == MaxTimes[t]

RunOut(t) == t \in Limited /\ f.exec[t] >= Limit(t)

Count(exec, t) == [u \in Limited |-> IF u = t THEN exec[u] + 1 ELSE exec[u]]

\* The poll after recognition and the beginning of run_task, up to the
\* SubTaskStart callback.
RunTask ==
  /\ At("hit")
  /\ IF NeedExit THEN Return("ok")
     ELSE IF RunOut(f.hit) THEN Advance(f, ExceededNext[f.hit], f.hit)
     ELSE Become([f EXCEPT !.pc = "preDelay", !.exec = Count(@, f.hit)])
  /\ UNCHANGED <<stopping, packageVars, historyVars>>

PreDelay ==
  /\ At("preDelay")
  /\ Unless(NeedExit, "act")
  /\ UNCHANGED <<stopping, packageVars, historyVars>>

\* reduce_other_times
Reduce(exec, t) ==
  [u \in Limited |-> IF u \in ReduceOther[t] /\ exec[u] > 0 THEN exec[u] - 1
                                                           ELSE exec[u]]

\* run_action; for every action but Stop the counts are reduced after it.
RunAction ==
  /\ At("act")
  /\ late' = IF stopping /\ late < 2 THEN late + 1 ELSE late
  /\ IF f.hit \in StopAction
     THEN Return("ok") /\ halted' = TRUE
     ELSE /\ Become([f EXCEPT !.pc = "postDelay", !.exec = Reduce(@, f.hit)])
          /\ UNCHANGED halted
  /\ UNCHANGED <<stopping, packageVars, errors>>

PostDelay ==
  /\ At("postDelay")
  /\ IF NeedExit THEN Return("ok")
     ELSE Become([f EXCEPT !.pc = "sub", !.subIdx = 1])
  /\ UNCHANGED <<stopping, packageVars, historyVars>>

CallSub ==
  /\ At("sub")
  /\ f.subIdx <= Len(Sub[f.hit])
  /\ stack' = Append(stack, NewFrame(<<Sub[f.hit][f.subIdx]>>))
  /\ UNCHANGED <<stopping, packageVars, ret, historyVars>>

\* A failed sub is an InternalError of the task unless its errors are ignored.
SubReturned ==
  /\ stack # <<>>
  /\ ret # "none"
  /\ IF ret = "failed" /\ f.hit \notin SubErrorIgnored
     THEN Fail
     ELSE /\ UNCHANGED errors
          /\ IF NeedExit THEN Return("ok")
             ELSE /\ stack' = [stack EXCEPT ![Len(stack)].subIdx = @ + 1]
                  /\ ret' = "none"
  /\ UNCHANGED <<stopping, packageVars, late, halted>>

\* SubTaskCompleted, then Success.
CompleteTask ==
  /\ At("sub")
  /\ f.subIdx > Len(Sub[f.hit])
  /\ Advance(f, NextOf[f.hit], f.hit)
  /\ UNCHANGED <<stopping, packageVars, historyVars>>

-----------------------------------------------------------------------------
\* PackageTask::run: the head of its loop.
PackageNext ==
  /\ ppc = "loop"
  /\ item <= Len(Package)
  /\ IF NeedExit
     THEN ppc' = "done" /\ result' = "failed" /\ UNCHANGED stack
     ELSE ppc' = "running" /\ stack' = <<NewFrame(Package[item])>> /\ UNCHANGED result
  /\ UNCHANGED <<stopping, item, ret, historyVars>>

\* Mutant: every subtask is treated as one whose errors are ignored.
PackageReturned_ignore ==
  /\ ppc = "running" /\ stack = <<>>
  /\ ret' = "none"
  /\ ppc' = "loop" /\ item' = item + 1
  /\ UNCHANGED <<stopping, stack, result, historyVars>>

\* The return of a subtask; the sleep before the next one ends in any case.
PackageReturned ==
  /\ ppc = "running"
  /\ stack = <<>>
  /\ ret' = "none"
  /\ IF ret = "failed"
     THEN ppc' = "done" /\ result' = "failed" /\ UNCHANGED item
     ELSE ppc' = "loop" /\ item' = item + 1 /\ UNCHANGED result
  /\ UNCHANGED <<stopping, stack, historyVars>>

PackageDone ==
  /\ ppc = "loop"
  /\ item > Len(Package)
  /\ ppc' = "done"
  /\ result' = "ok"
  /\ UNCHANGED <<stopping, item, stack, ret, historyVars>>

StopCall ==
  /\ ~stopping
  /\ stopping' = TRUE
  /\ UNCHANGED <<packageVars, stack, ret, historyVars>>

-----------------------------------------------------------------------------
Engine ==
  \/ FindTask
  \/ RecognizeInterrupted \/ (\E t \in Task : RecognizeHit(t))
  \/ RecognizeMiss \/ RetryFailed
  \/ RunTask \/ PreDelay \/ RunAction \/ PostDelay
  \/ CallSub \/ SubReturned \/ CompleteTask
  \/ PackageNext \/ PackageReturned \/ PackageDone

Next == Engine \/ StopCall

\* The working thread runs; screenshots, matches and delays all end.
Spec == Init /\ [][Next]_vars /\ WF_vars(Engine)

-----------------------------------------------------------------------------
TypeOK ==
  /\ stopping \in BOOLEAN
  /\ ppc \in {"loop", "running", "done"}
  /\ item \in 1..(Len(Package) + 1)
  /\ stack \in Seq(Frame)
  /\ ret \in {"none", "ok", "failed"}
  /\ result \in {"none", "ok", "failed"}
  /\ late \in 0..2
  /\ halted \in BOOLEAN
  /\ errors \subseteq Nat

\* After stop() the game is touched at most once more, by the action whose poll
\* came before: whatever the depth of subs and the lists still to go through.
AtMostOneLateAction == late <= 1

\* The count of a task stays within its max_times in every ProcessTask, through
\* reduce_other_times of other tasks and returns by way of exceeded_next, and a
\* task about to act has been counted.
WithinLimit ==
  \A i \in DOMAIN stack : \A t \in Limited :
    /\ stack[i].exec[t] <= MaxTimes[t]
    /\ stack[i].pc \in {"preDelay", "act"} /\ stack[i].hit = t => stack[i].exec[t] >= 1

\* The verdict of the chain and the SubTaskError messages agree: a chain that
\* was not stopped fails exactly when a ProcessTask of its own (depth 1) said
\* so, and one that a SubTaskError was sent for never completes.
VerdictMatchesErrors ==
  ppc = "done" =>
    /\ result = "failed" /\ ~stopping => 1 \in errors
    /\ 1 \in errors => result = "failed"

\* A stopped chain returns, even from lists that lead to each other for ever.
StopReturns == stopping ~> (ppc = "done")

\* "Stop the whole task chain" (DEVELOPMENT_PHASE3.md:36, of the Stop action):
\* once it was executed no other task acts.
StopActionEndsChain == [][halted => ~RunAction]_vars
=============================================================================
