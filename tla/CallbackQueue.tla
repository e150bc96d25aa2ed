--------------------------- MODULE CallbackQueue ---------------------------
(***************************************************************************)
(* MaaWineBridge: how a message of MaaCore, which runs as a Unix library,  *)
(* reaches the Win32 callback of the GUI.  UnixCallbackShim (maacore.c)    *)
(* pushes a task on the queue of task_queue.c, waits for it and releases   *)
(* it; the queue's only worker, a Wine thread, pops, invokes and releases. *)
(*                                                                         *)
(* The shim is called by the instance's message thread and, once that      *)
(* thread has been joined, by ~Assistant with AsstMsg::Destroyed: one call *)
(* at a time, so one actor, "shim".  Task n carries the n-th message.      *)
(*                                                                         *)
(* A push waits for room as a guard.  Not taken in the program, and left   *)
(* out: a push on a stopped queue (only the call for Destroyed stops it,   *)
(* after its own push).                                                    *)
(***************************************************************************)
EXTENDS Naturals, Sequences

CONSTANTS
  MAX_TASKS,   \* size of the ring
  MaxMsgs      \* bound on the messages of the instance, Destroyed included

ASSUME RingAssumption == MAX_TASKS \in Nat \ {0, 1} /\ MaxMsgs \in Nat \ {0}

VARIABLES
  ring, head, tail,  \* tasks, head, tail of struct _TaskQueue
  stop,              \* stop
  stranded,          \* the worker waits on a condvar that was initialised anew
  refs,              \* ref_count of each task
  done,              \* done of each task
  freed,             \* tasks given back to free()
  undefined,         \* a task was used after free()
  spc,               \* where the shim is
  last,              \* number of tasks pushed
  destroying,        \* the message in hand is Destroyed
  wpc,               \* where the worker is
  work,              \* the worker's task, 0 for none
  delivered          \* history: the messages the Win32 callback received

vars == <<ring, head, tail, stop, stranded, refs, done, freed,
          undefined, spc, last, destroying, wpc, work, delivered>>

queueVars == <<ring, head, tail, stop, stranded>>
taskVars  == <<refs, done, freed, undefined>>
shimVars  == <<spc, last, destroying>>
workVars  == <<wpc, work, delivered>>

TaskId == 1..MaxMsgs
Slots == 0..(MAX_TASKS - 1)
ShimPC == {"new", "idle", "addref", "wait", "parked", "release", "free",
           "join", "gone", "lost"}
WorkerPC == {"pop", "lock", "parked", "popped", "invoke", "release", "exit"}

\* Inside task_queue_new: the worker exists, the mutex and condvars do not.
Init ==
  /\ ring = [s \in Slots |-> 0]
  /\ head = 0 /\ tail = 0
  /\ stop = FALSE
  /\ stranded = FALSE
  /\ refs = [t \in TaskId |-> 0]
  /\ done = [t \in TaskId |-> FALSE]
  /\ freed = {}
  /\ undefined = FALSE
  /\ spc = "new"
  /\ last = 0
  /\ destroying = FALSE
  /\ wpc = "pop"
  /\ work = 0
  /\ delivered = <<>>

-----------------------------------------------------------------------------
\* (i + 1) % MAX_TASKS
NextSlot(i) == (i + 1) % MAX_TASKS

\* A signal on cond_not_empty: a parked worker goes for the mutex, unless the
\* condvar it sleeps on was initialised over.
WakeWorker == wpc' = IF wpc = "parked" /\ ~stranded THEN "lock" ELSE wpc

\* task_release on a task that is still allocated
TaskRelease(t) ==
  /\ refs' = [refs EXCEPT ![t] = @ - 1]
  /\ freed' = IF refs[t] = 1 THEN freed \cup {t} ELSE freed

-----------------------------------------------------------------------------
(* The end of task_queue_new.  The worker may already be in                 *)
(* pthread_cond_wait on the zeroed condvar; initialising it then is         *)
(* undefined: the worker may stay registered or may never be signalled.     *)
QueueInit ==
  /\ spc = "new"
  /\ stranded' \in IF wpc = "parked" THEN BOOLEAN ELSE {FALSE}
  /\ spc' = "idle"
  /\ UNCHANGED <<ring, head, tail, stop, taskVars, last, destroying, workVars>>

\* task_queue_push for the next message, final when it is Destroyed, up to the
\* unlock: the task is in the ring with the one reference task_new gave it.
Push(final) ==
  /\ spc = "idle"
  /\ last < MaxMsgs
  /\ NextSlot(tail) # head
  /\ last' = last + 1
  /\ refs' = [refs EXCEPT ![last + 1] = 1]
  /\ ring' = [ring EXCEPT ![tail] = last + 1]
  /\ tail' = NextSlot(tail)
  /\ WakeWorker
  /\ destroying' = final
  /\ spc' = "addref"
  /\ UNCHANGED <<head, stop, stranded, done, freed, undefined, work,
                 delivered>>

\* Mutant: the caller takes no reference.
PushAddref_none ==
  /\ spc = "addref" /\ last \notin freed
  /\ spc' = "wait"
  /\ UNCHANGED <<queueVars, taskVars, last, destroying, workVars>>

\* The caller's reference, taken after the unlock.
PushAddref ==
  /\ spc = "addref"
  /\ last \notin freed
  /\ refs' = [refs EXCEPT ![last] = @ + 1]
  /\ spc' = "wait"
  /\ UNCHANGED <<queueVars, done, freed, undefined, last, destroying, workVars>>

\* The worker released the task first: addref, wait and release work on memory
\* that was freed.  The stale done may let the shim go on, or nothing will.
PushAddrefFreed ==
  /\ spc = "addref"
  /\ last \in freed
  /\ undefined' = TRUE
  /\ spc' \in {IF destroying THEN "free" ELSE "idle", "lost"}
  /\ UNCHANGED <<queueVars, refs, done, freed, last, destroying, workVars>>

\* Mutant: if (!done) for while (!done), so a wake-up of any kind is enough.
TaskWait_noLoop ==
  /\ spc \in {"wait", "parked"} /\ wpc # "invoke"
  /\ spc' = IF done[last] \/ spc = "parked" THEN "release" ELSE "parked"
  /\ UNCHANGED <<queueVars, taskVars, last, destroying, workVars>>

\* task_wait: the task's mutex is the worker's while it invokes.  From "parked"
\* this is a spurious return of pthread_cond_wait, looped on.
TaskWait ==
  /\ spc \in {"wait", "parked"}
  /\ wpc # "invoke"
  /\ spc' = IF done[last] THEN "release" ELSE "parked"
  /\ UNCHANGED <<queueVars, taskVars, last, destroying, workVars>>

ShimRelease ==
  /\ spc = "release"
  /\ TaskRelease(last)
  /\ spc' = IF destroying THEN "free" ELSE "idle"
  /\ UNCHANGED <<queueVars, done, undefined, last, destroying, workVars>>

\* Mutant: stop is set but nobody is woken.
FreeStop_noBroadcast ==
  /\ spc = "free"
  /\ stop' = TRUE
  /\ spc' = "join"
  /\ UNCHANGED <<ring, head, tail, stranded, taskVars, last,
                 destroying, workVars>>

\* task_queue_free
FreeStop ==
  /\ spc = "free"
  /\ stop' = TRUE
  /\ WakeWorker
  /\ spc' = "join"
  /\ UNCHANGED <<ring, head, tail, stranded, taskVars, last,
                 destroying, work, delivered>>

\* Mutant: the queue is freed without joining the worker.
FreeJoin_noJoin ==
  /\ spc = "join"
  /\ spc' = "gone"
  /\ UNCHANGED <<queueVars, taskVars, last, destroying, workVars>>

FreeJoin ==
  /\ spc = "join"
  /\ wpc = "exit"
  /\ spc' = "gone"
  /\ UNCHANGED <<queueVars, taskVars, last, destroying, workVars>>

-----------------------------------------------------------------------------
\* task_queue_pop reads stop before it takes the mutex.
PopCheck ==
  /\ wpc = "pop"
  /\ wpc' = IF stop THEN "exit" ELSE "lock"
  /\ UNCHANGED <<queueVars, taskVars, shimVars, work, delivered>>

PopWait ==
  /\ wpc = "lock"
  /\ head = tail
  /\ ~stop
  /\ wpc' = "parked"
  /\ UNCHANGED <<queueVars, taskVars, shimVars, work, delivered>>

PopStopped ==
  /\ wpc = "lock"
  /\ stop
  /\ wpc' = "exit"
  /\ UNCHANGED <<queueVars, taskVars, shimVars, work, delivered>>

\* Mutant: the head is not advanced.
PopTake_sameHead ==
  /\ wpc = "lock" /\ head # tail /\ ~stop
  /\ work' = ring[head]
  /\ wpc' = "popped"
  /\ UNCHANGED <<queueVars, taskVars, shimVars, delivered>>

PopTake ==
  /\ wpc = "lock"
  /\ head # tail
  /\ ~stop
  /\ work' = ring[head]
  /\ head' = NextSlot(head)
  /\ wpc' = "popped"
  /\ UNCHANGED <<ring, tail, stop, stranded, taskVars, shimVars,
                 delivered>>

SpuriousWake ==
  /\ wpc = "parked"
  /\ ~stranded
  /\ wpc' = "lock"
  /\ UNCHANGED <<queueVars, taskVars, shimVars, work, delivered>>

\* task_invoke: function(arg) reads the CallbackInvocation on the shim's stack.
InvokeBegin ==
  /\ wpc = "popped"
  /\ delivered' = Append(delivered, work)
  /\ wpc' = "invoke"
  /\ UNCHANGED <<queueVars, taskVars, shimVars, work>>

InvokeEnd ==
  /\ wpc = "invoke"
  /\ done' = [done EXCEPT ![work] = TRUE]
  /\ spc' = IF spc = "parked" THEN "wait" ELSE spc
  /\ wpc' = "release"
  /\ UNCHANGED <<queueVars, refs, freed, undefined, last, destroying, work,
                 delivered>>

WorkerRelease ==
  /\ wpc = "release"
  /\ TaskRelease(work)
  /\ work' = 0
  /\ wpc' = "pop"
  /\ UNCHANGED <<queueVars, done, undefined, shimVars, delivered>>

-----------------------------------------------------------------------------
Shim ==
  \/ QueueInit
  \/ \E final \in BOOLEAN : Push(final)
  \/ PushAddref \/ PushAddrefFreed \/ TaskWait \/ ShimRelease
  \/ FreeStop \/ FreeJoin

Worker ==
  \/ PopCheck \/ PopWait \/ PopStopped \/ PopTake
  \/ InvokeBegin \/ InvokeEnd \/ WorkerRelease

Next == Shim \/ Worker \/ SpuriousWake

\* Both are threads that nothing but their own waits hold back; the instance
\* need not send another message, but the call it is in goes on.  A wake-up
\* that is not owed is not assumed: TaskWait is fair only where it is useful.
ShimProgress ==
  \/ QueueInit \/ PushAddref \/ PushAddrefFreed
  \/ (spc = "wait" /\ TaskWait)
  \/ ShimRelease \/ FreeStop \/ FreeJoin

Spec ==
  /\ Init /\ [][Next]_vars
  /\ WF_vars(ShimProgress)
  /\ WF_vars(Worker)

-----------------------------------------------------------------------------
TypeOK ==
  /\ ring \in [Slots -> {0} \cup TaskId]
  /\ head \in Slots /\ tail \in Slots
  /\ stop \in BOOLEAN /\ stranded \in BOOLEAN
  /\ refs \in [TaskId -> 0..2]
  /\ done \in [TaskId -> BOOLEAN]
  /\ freed \subseteq TaskId
  /\ undefined \in BOOLEAN
  /\ spc \in ShimPC
  /\ last \in 0..MaxMsgs
  /\ destroying \in BOOLEAN
  /\ wpc \in WorkerPC
  /\ work \in {0} \cup TaskId
  /\ delivered \in Seq(TaskId)

Queued == IF head = tail THEN {} ELSE {ring[head]}

\* The reference the queue gives up to the worker: whatever the shim does, the
\* task the worker will pop or is working on is allocated.  (The shim may be
\* two steps past task_wait and have released its own.)
WorkerTaskAllocated ==
  \A t \in Queued \cup ({work} \ {0}) : t \notin freed /\ refs[t] >= 1

\* The Win32 callback gets the messages in order, none twice and none skipped.
DeliveredInOrder == \A i \in DOMAIN delivered : delivered[i] = i

\* The callback reads the invocation on the stack of UnixCallbackShim, so it
\* runs only while the shim is in the call for that very message.
InvocationOnStack ==
  wpc = "invoke" => work = last /\ spc \in {"addref", "wait", "parked"}

\* The queue is freed only after its worker has left it, and by then every
\* message was delivered and every task freed.
FreedLast ==
  spc = "gone" =>
    /\ wpc = "exit" /\ work = 0 /\ head = tail
    /\ Len(delivered) = last
    /\ freed = 1..last

\* A message handed to the shim is delivered and the shim returns; and the call
\* for Destroyed ends with the queue freed.  Not promised once the worker was
\* stranded by QueueInit or a freed task was used.
ShimReturns ==
  (spc = "addref") ~> (spc \in {"idle", "gone"} \/ stranded \/ undefined)

\* "1 reference for the queue, 1 for the caller" (task_queue.c:135): the task
\* push is about to return is still allocated.
CallerTaskAllocated ==
  spc \in {"addref", "wait", "parked", "release"} => last \notin freed
=============================================================================
