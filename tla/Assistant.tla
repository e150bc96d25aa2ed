----------------------------- MODULE Assistant -----------------------------
(***************************************************************************)
(* MaaCore's Assistant: one instance, its working thread (working_proc),   *)
(* the threads that call the C API and the call thread that executes       *)
(* asynchronous connects.  What is shared is the task list and three       *)
(* flags:                                                                  *)
(*   m_thread_idle (idle), m_running (running), m_thread_exit (exit).      *)
(* The flags are atomics that stop(), start() and the destructor touch     *)
(* outside m_mutex, so every such access is a step of its own.  A section  *)
(* that holds m_mutex and whose flag accesses no unlocked access can tell  *)
(* apart is one step guarded by the lock being free; ctrl_connect keeps    *)
(* the lock for the whole connection attempt and is two steps.             *)
(***************************************************************************)
EXTENDS Naturals, Sequences

CONSTANTS
  Clients,      \* threads that call the API, with the call thread
  CallThread,   \* the member of Clients that is Assistant::call_proc
  MaxTasks,     \* bound on the number of chains appended
  Nobody        \* owner of m_mutex when no connect holds it

ASSUME ClientsAssumption ==
  /\ CallThread \in Clients
  /\ Nobody \notin Clients
  /\ MaxTasks \in Nat

VARIABLES
  exit,        \* m_thread_exit
  idle,        \* m_thread_idle
  running,     \* m_running
  tasks,       \* m_tasks_list, the ids
  lastId,      \* m_task_id
  lock,        \* who holds m_mutex across steps
  cache,       \* m_status holds entries written since the last clear_cache
  wpc,         \* where working_proc is
  cur,         \* the id working_proc copied from the list, 0 before the first
  ret,         \* what task_ptr->run() returned
  finished,    \* finished_tasks
  cpc,         \* where each client is
  dpc,         \* where the destructor is
  msgs,        \* history: chain messages sent for each id
  cleared      \* history: stop() cleared the list since cur was taken

vars == <<exit, idle, running, tasks, lastId, lock, cache, wpc, cur, ret,
          finished, cpc, dpc, msgs, cleared>>

flagVars   == <<exit, idle, running>>
workerVars == <<wpc, cur, ret, finished, msgs>>

TaskIds == 1..MaxTasks

\* Between "begin" and "report" working_proc is busy with the chain cur.
InChain == {"begin", "run", "pop", "report"}
WorkerPC == InChain \cup {"top", "waiting", "stopcheck", "allcheck", "all",
                          "delay", "done"}
ClientPC == {"ready", "starting", "stopping", "calling", "connecting"}
DestroyPC == {"alive", "exiting", "flagged", "notified", "joined"}
ChainMsgs == {"Start", "Completed", "Error", "Stopped", "AllCompleted"}

Init ==
  /\ exit = FALSE
  /\ idle = TRUE
  /\ running = FALSE
  /\ tasks = <<>>
  /\ lastId = 0
  /\ lock = Nobody
  /\ cache = FALSE
  /\ wpc = "top"
  /\ cur = 0
  /\ ret = FALSE
  /\ finished = <<>>
  /\ cpc = [c \in Clients |-> "ready"]
  /\ dpc = "alive"
  /\ msgs = [id \in TaskIds |-> <<>>]
  /\ cleared = FALSE

-----------------------------------------------------------------------------
\* Mutant: the poll looks at m_thread_exit, which stop() leaves alone.
NeedExit_exitOnly == exit /\ running

\* Assistant::need_exit, polled by every task through InstHelper.
NeedExit == idle /\ running

\* notify_one / notify_all on m_condvar: a worker parked in wait() goes back
\* to the top of its loop; one in wait_for() re-evaluates its predicate, which
\* the step "delay" does by itself.
Notify == wpc' = IF wpc = "waiting" THEN "top" ELSE wpc

\* append_callback for a message about the chain id
Report(id, m) == msgs' = [msgs EXCEPT ![id] = Append(@, m)]

\* A call through a handle: the handle is alive and the thread is not in
\* another call.
MayCall(c) == c # CallThread /\ cpc[c] = "ready" /\ dpc = "alive"

Goto(c, pc) == cpc' = [cpc EXCEPT ![c] = pc]

-----------------------------------------------------------------------------
\* Mutant: emplace_front for emplace_back.
AppendTask_front(c) ==
  /\ MayCall(c) /\ lock = Nobody /\ lastId < MaxTasks
  /\ lastId' = lastId + 1
  /\ tasks' = <<lastId + 1>> \o tasks
  /\ UNCHANGED <<flagVars, workerVars, lock, cache, cpc, dpc, cleared>>

(* append_task: a call whose type or parameters are refused returns 0 and   *)
(* changes nothing, so only the accepted one is a step.                     *)
AppendTask(c) ==
  /\ MayCall(c)
  /\ lock = Nobody
  /\ lastId < MaxTasks
  /\ lastId' = lastId + 1
  /\ tasks' = Append(tasks, lastId + 1)
  /\ UNCHANGED <<flagVars, workerVars, lock, cache, cpc, dpc, cleared>>

(* start(): the idle test is made before m_mutex is taken. *)
StartCheck(c) ==
  /\ MayCall(c)
  /\ idle
  /\ Goto(c, "starting")
  /\ UNCHANGED <<flagVars, workerVars, tasks, lastId, lock, cache, dpc, cleared>>

\* Mutant: m_running is left to the working thread.
StartGo_notRunning(c) ==
  /\ cpc[c] = "starting" /\ lock = Nobody
  /\ idle' = FALSE
  /\ Notify
  /\ Goto(c, "ready")
  /\ UNCHANGED <<exit, running, tasks, lastId, lock, cache, cur, ret, finished,
                 dpc, msgs, cleared>>

\* Mutant: no notify_one.
StartGo_noNotify(c) ==
  /\ cpc[c] = "starting" /\ lock = Nobody
  /\ idle' = FALSE /\ running' = TRUE
  /\ Goto(c, "ready")
  /\ UNCHANGED <<exit, workerVars, tasks, lastId, lock, cache, dpc, cleared>>

StartGo(c) ==
  /\ cpc[c] = "starting"
  /\ lock = Nobody
  /\ idle' = FALSE
  /\ running' = TRUE
  /\ Notify
  /\ Goto(c, "ready")
  /\ UNCHANGED <<exit, tasks, lastId, lock, cache, cur, ret, finished, dpc,
                 msgs, cleared>>

(* stop(): the idle store is made before m_mutex is taken and nobody is     *)
(* notified.                                                                *)
StopFlag(c) ==
  /\ MayCall(c)
  /\ idle' = TRUE
  /\ Goto(c, "stopping")
  /\ UNCHANGED <<exit, running, workerVars, tasks, lastId, lock, cache, dpc,
                 cleared>>

StopClear(c) ==
  /\ cpc[c] = "stopping"
  /\ lock = Nobody
  /\ tasks' = <<>>
  /\ cache' = FALSE
  /\ cleared' = TRUE
  /\ Goto(c, "ready")
  /\ UNCHANGED <<flagVars, workerVars, lastId, lock, dpc>>

-----------------------------------------------------------------------------
(* AsstConnect on a client, or a Connect item popped by the call thread,    *)
(* which the destructor does not wait for before setting its flags.         *)
ConnectCall(c) ==
  /\ cpc[c] = "ready"
  /\ dpc = "alive"
  /\ Goto(c, "calling")
  /\ UNCHANGED <<flagVars, workerVars, tasks, lastId, lock, cache, dpc, cleared>>

ConnectRefuse(c) ==
  /\ cpc[c] = "calling"
  /\ lock = Nobody
  /\ ~idle
  /\ Goto(c, "ready")
  /\ UNCHANGED <<flagVars, workerVars, tasks, lastId, lock, cache, dpc, cleared>>

ConnectBegin(c) ==
  /\ cpc[c] = "calling"
  /\ lock = Nobody
  /\ idle
  /\ idle' = FALSE
  /\ lock' = c
  /\ Goto(c, "connecting")
  /\ UNCHANGED <<exit, running, workerVars, tasks, lastId, cache, dpc, cleared>>

ConnectEnd(c) ==
  /\ cpc[c] = "connecting"
  /\ lock = c
  /\ idle' = TRUE
  /\ lock' = Nobody
  /\ Goto(c, "ready")
  /\ UNCHANGED <<exit, running, workerVars, tasks, lastId, cache, dpc, cleared>>

-----------------------------------------------------------------------------
(* working_proc *)
WorkerExit ==
  /\ wpc = "top"
  /\ lock = Nobody
  /\ exit
  /\ running' = FALSE
  /\ wpc' = "done"
  /\ UNCHANGED <<exit, idle, tasks, lastId, lock, cache, cur, ret, finished,
                 cpc, dpc, msgs, cleared>>

WorkerPark ==
  /\ wpc = "top"
  /\ lock = Nobody
  /\ ~exit
  /\ idle \/ tasks = <<>>
  /\ finished' = <<>>
  /\ idle' = TRUE
  /\ running' = FALSE
  /\ wpc' = "waiting"
  /\ UNCHANGED <<exit, tasks, lastId, lock, cache, cur, ret, cpc, dpc, msgs,
                 cleared>>

\* m_condvar.wait(lock) has no predicate: it may return by itself.
SpuriousWake ==
  /\ wpc = "waiting"
  /\ wpc' = "top"
  /\ UNCHANGED <<flagVars, tasks, lastId, lock, cache, cur, ret, finished,
                 cpc, dpc, msgs, cleared>>

\* Mutant: back() for front().
WorkerTake_back ==
  /\ wpc = "top" /\ lock = Nobody /\ ~exit /\ ~idle /\ tasks # <<>>
  /\ running' = TRUE
  /\ cur' = tasks[Len(tasks)]
  /\ cleared' = FALSE
  /\ wpc' = "begin"
  /\ UNCHANGED <<exit, idle, tasks, lastId, lock, cache, ret, finished, cpc,
                 dpc, msgs>>

WorkerTake ==
  /\ wpc = "top"
  /\ lock = Nobody
  /\ ~exit
  /\ ~idle
  /\ tasks # <<>>
  /\ running' = TRUE
  /\ cur' = Head(tasks)
  /\ cleared' = FALSE
  /\ wpc' = "begin"
  /\ UNCHANGED <<exit, idle, tasks, lastId, lock, cache, ret, finished, cpc,
                 dpc, msgs>>

ChainStart ==
  /\ wpc = "begin"
  /\ Report(cur, "Start")
  /\ wpc' = "run"
  /\ UNCHANGED <<flagVars, tasks, lastId, lock, cache, cur, ret, finished,
                 cpc, dpc, cleared>>

\* A task writes to the instance's Status; the need_exit() it polled last may
\* have been some time ago.
TaskStep ==
  /\ wpc = "run"
  /\ cache' = TRUE
  /\ UNCHANGED <<flagVars, workerVars, tasks, lastId, lock, cpc, dpc, cleared>>

\* task_ptr->run() returns, by itself or because it polled need_exit(); with
\* need_exit() too the value may be either (a ProcessTask returns true).
TaskReturn(r) ==
  /\ wpc = "run"
  /\ ret' = r
  /\ finished' = Append(finished, cur)
  /\ wpc' = "pop"
  /\ UNCHANGED <<flagVars, tasks, lastId, lock, cache, cur, cpc, dpc, msgs,
                 cleared>>

\* Mutant: the chain that ran stays in the list.
PopFront_none ==
  /\ wpc = "pop" /\ lock = Nobody
  /\ wpc' = "report"
  /\ UNCHANGED <<flagVars, tasks, lastId, lock, cache, cur, ret, finished, cpc,
                 dpc, msgs, cleared>>

\* Mutant: a stopped chain is left for stop() to clear.
PopFront_unlessIdle ==
  /\ wpc = "pop" /\ lock = Nobody
  /\ tasks' = IF tasks = <<>> \/ idle THEN tasks ELSE Tail(tasks)
  /\ wpc' = "report"
  /\ UNCHANGED <<flagVars, lastId, lock, cache, cur, ret, finished, cpc, dpc,
                 msgs, cleared>>

PopFront ==
  /\ wpc = "pop"
  /\ lock = Nobody
  /\ tasks' = IF tasks = <<>> THEN <<>> ELSE Tail(tasks)
  /\ wpc' = "report"
  /\ UNCHANGED <<flagVars, lastId, lock, cache, cur, ret, finished, cpc, dpc,
                 msgs, cleared>>

\* The message chosen for the end of the chain reads m_thread_idle once more.
EndMessage == IF idle THEN "Stopped" ELSE IF ret THEN "Completed" ELSE "Error"

ChainEnd ==
  /\ wpc = "report"
  /\ Report(cur, EndMessage)
  /\ wpc' = "stopcheck"
  /\ UNCHANGED <<flagVars, tasks, lastId, lock, cache, cur, ret, finished,
                 cpc, dpc, cleared>>

StopCheck ==
  /\ wpc = "stopcheck"
  /\ IF idle THEN finished' = <<>> /\ wpc' = "top"
             ELSE wpc' = "allcheck" /\ UNCHANGED finished
  /\ UNCHANGED <<flagVars, tasks, lastId, lock, cache, cur, ret, cpc, dpc,
                 msgs, cleared>>

\* m_tasks_list.empty() is read without m_mutex.
AllCheck ==
  /\ wpc = "allcheck"
  /\ wpc' = IF tasks = <<>> THEN "all" ELSE "delay"
  /\ UNCHANGED <<flagVars, tasks, lastId, lock, cache, cur, ret, finished,
                 cpc, dpc, msgs, cleared>>

AllCompleted ==
  /\ wpc = "all"
  /\ Report(cur, "AllCompleted")
  /\ finished' = <<>>
  /\ cache' = FALSE
  /\ wpc' = "delay"
  /\ UNCHANGED <<flagVars, tasks, lastId, lock, cur, ret, cpc, dpc, cleared>>

\* wait_for(task_delay): ends on the timeout or when idle is seen; a chain
\* that already has its end message may get a TaskChainStopped here.
DelayEnd ==
  /\ wpc = "delay"
  /\ lock = Nobody
  /\ IF idle THEN Report(cur, "Stopped") ELSE UNCHANGED msgs
  /\ wpc' = "top"
  /\ UNCHANGED <<flagVars, tasks, lastId, lock, cache, cur, ret, finished,
                 cpc, dpc, cleared>>

-----------------------------------------------------------------------------
(* ~Assistant: nobody else may be inside a call; the call thread may.       *)
DestroyExit ==
  /\ dpc = "alive"
  /\ \A c \in Clients \ {CallThread} : cpc[c] = "ready"
  /\ exit' = TRUE
  /\ dpc' = "exiting"
  /\ UNCHANGED <<idle, running, workerVars, tasks, lastId, lock, cache, cpc,
                 cleared>>

DestroyIdle ==
  /\ dpc = "exiting"
  /\ idle' = TRUE
  /\ dpc' = "flagged"
  /\ UNCHANGED <<exit, running, workerVars, tasks, lastId, lock, cache, cpc,
                 cleared>>

\* Mutant: m_condvar is not notified.
DestroyNotify_none ==
  /\ dpc = "flagged" /\ lock = Nobody
  /\ dpc' = "notified"
  /\ UNCHANGED <<flagVars, workerVars, tasks, lastId, lock, cache, cpc, cleared>>

DestroyNotify ==
  /\ dpc = "flagged"
  /\ lock = Nobody
  /\ Notify
  /\ dpc' = "notified"
  /\ UNCHANGED <<flagVars, tasks, lastId, lock, cache, cur, ret, finished,
                 cpc, msgs, cleared>>

DestroyJoin ==
  /\ dpc = "notified"
  /\ wpc = "done"
  /\ dpc' = "joined"
  /\ UNCHANGED <<flagVars, workerVars, tasks, lastId, lock, cache, cpc, cleared>>

-----------------------------------------------------------------------------
Client(c) ==
  \/ AppendTask(c)
  \/ StartCheck(c) \/ StartGo(c)
  \/ StopFlag(c) \/ StopClear(c)
  \/ ConnectCall(c) \/ ConnectRefuse(c) \/ ConnectBegin(c) \/ ConnectEnd(c)

Worker ==
  \/ WorkerExit \/ WorkerPark \/ WorkerTake
  \/ ChainStart \/ TaskStep \/ (\E r \in BOOLEAN : TaskReturn(r)) \/ PopFront
  \/ ChainEnd \/ StopCheck \/ AllCheck \/ AllCompleted \/ DelayEnd

Destructor == DestroyExit \/ DestroyIdle \/ DestroyNotify \/ DestroyJoin

Next ==
  \/ \E c \in Clients : Client(c)
  \/ Worker
  \/ SpuriousWake
  \/ Destructor

\* What a thread inside the instance, or inside a call already made, cannot put
\* off for ever: m_mutex is released after a bounded section, a connect attempt
\* ends, and a chain polls need_exit() and returns.  Strong fairness stands for
\* getting the mutex that others keep taking.  Nothing obliges a client to call,
\* a chain to finish by itself or wait() to return without a notification.
WorkerProgress ==
  \/ WorkerExit \/ WorkerPark \/ WorkerTake
  \/ ChainStart \/ (NeedExit /\ \E r \in BOOLEAN : TaskReturn(r)) \/ PopFront
  \/ ChainEnd \/ StopCheck \/ AllCheck \/ AllCompleted \/ DelayEnd

CallProgress(c) ==
  StartGo(c) \/ StopClear(c) \/ ConnectRefuse(c) \/ ConnectBegin(c) \/ ConnectEnd(c)

Fairness ==
  /\ SF_vars(WorkerProgress)
  /\ \A c \in Clients : SF_vars(CallProgress(c))
  /\ SF_vars(DestroyIdle \/ DestroyNotify \/ DestroyJoin)

Spec == Init /\ [][Next]_vars

FairSpec == Spec /\ Fairness

-----------------------------------------------------------------------------
TypeOK ==
  /\ exit \in BOOLEAN /\ idle \in BOOLEAN /\ running \in BOOLEAN
  /\ tasks \in Seq(TaskIds)
  /\ lastId \in 0..MaxTasks
  /\ lock \in Clients \cup {Nobody}
  /\ cache \in BOOLEAN
  /\ wpc \in WorkerPC
  /\ cur \in 0..MaxTasks
  /\ wpc \notin {"top", "waiting", "done"} => cur \in TaskIds
  /\ ret \in BOOLEAN
  /\ finished \in Seq(TaskIds)
  /\ cpc \in [Clients -> ClientPC]
  /\ dpc \in DestroyPC
  /\ msgs \in [TaskIds -> Seq(ChainMsgs)]
  /\ cleared \in BOOLEAN
-----------------------------------------------------------------------------
\* working_proc has copied the front of the list and not yet popped it.
Holding == {"begin", "run", "pop"}

\* The ids still queued behind the chain being executed.
Behind ==
  IF wpc \in Holding /\ tasks # <<>> /\ Head(tasks) = cur
  THEN Tail(tasks)
  ELSE tasks

\* pop_front() after run() takes whatever is in front.  Unless a stop()
\* cleared the list meanwhile, what is in front is the chain that ran, so no
\* chain leaves the list unrun.
FrontIsRunning ==
  (wpc \in Holding /\ ~cleared)
    => (tasks # <<>> /\ Head(tasks) = cur)

\* Chains queued behind the current one are in the order they were appended,
\* are newer than it, and nothing was ever announced for them nor for an id not
\* handed out yet: whatever stops, restarts and appends overlap, no chain can be
\* begun twice or out of order.
QueueIsFresh ==
  /\ cur <= lastId
  /\ \A i \in DOMAIN Behind :
       /\ Behind[i] > cur
       /\ Behind[i] <= lastId
       /\ msgs[Behind[i]] = <<>>
  /\ \A i, j \in DOMAIN Behind : i < j => Behind[i] < Behind[j]
  /\ \A id \in TaskIds : id > lastId => msgs[id] = <<>>

\* need_exit() is idle /\ running, two separate loads.  While a chain runs
\* m_running stays set, and it is set whenever the instance is active outside
\* a connect: a stop is never masked by m_running.
StopIsSeen ==
  /\ wpc \in InChain => running
  /\ (~idle /\ lock = Nobody /\ wpc # "done") => running

\* wait() has no predicate.  A parked worker is owed nothing: either the
\* instance is idle, or a connect holds the lock and will make it idle; and it
\* is not parked once the destructor has notified.
NoLostWakeup ==
  wpc = "waiting" =>
    /\ idle \/ lock # Nobody
    /\ dpc \notin {"notified", "joined"}

\* The messages of one chain: TaskChainStart, one verdict, perhaps
\* AllTasksCompleted, perhaps a TaskChainStopped for a stop seen in the delay
\* that follows.  The verdict of a chain is sent once, and a chain left behind
\* has its verdict.
Verdicts == {"Completed", "Error", "Stopped"}
ReportsWellFormed ==
  \A id \in TaskIds :
    LET m == msgs[id] IN
      /\ Len(m) >= 1 => m[1] = "Start"
      /\ Len(m) >= 2 => m[2] \in Verdicts
      /\ Len(m) >= 3 => m[3] \in {"AllCompleted", "Stopped"}
      /\ Len(m) >= 4 => m[3] = "AllCompleted" /\ m[4] = "Stopped"
      /\ Len(m) <= 4
      /\ Len(m) = 1 => id = cur /\ wpc \in InChain

\* A stop that is not followed by a start or connect brings the worker out of
\* whatever chain it is in, and keeps it out.
StopQuiesces == <>[]idle => <>[](wpc \in {"top", "waiting", "done"})

\* The destructor returns whatever it overlaps with: a chain, the delay, a
\* parked worker, a connect on the call thread.
DestroyReturns == exit ~> (dpc = "joined")

\* The chain that was begun and has no verdict yet.
Current == IF wpc \in InChain THEN cur ELSE 0

\* The instance implements the service its callers see: chains are begun one at
\* a time, in the order append_task numbered them, each at most once.
Service == INSTANCE TaskService WITH
  pending <- Behind, current <- Current, lastId <- lastId
RefinesTaskService == Service!Spec

-----------------------------------------------------------------------------
\* "Tasks are still running; stop before connecting" (Assistant.cpp:178): a
\* connect works on the controller only while no chain does.
ConnectExcludesChain == lock # Nobody => wpc # "run"

\* TaskChainStopped is the verdict of a manual stop (AsstMsg.h:25), and stop()
\* "stops and clears all tasks" (Python/asst/asst.py:218): a chain that was
\* being executed when stop() cleared the list is reported as stopped.
StoppedIsReported ==
  [][(wpc = "report" /\ wpc' = "stopcheck" /\ cleared)
       => msgs'[cur] = Append(msgs[cur], "Stopped")]_vars
=============================================================================
