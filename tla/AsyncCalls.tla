----------------------------- MODULE AsyncCalls -----------------------------
(***************************************************************************)
(* The asynchronous half of MaaCore's Assistant: AsstAsync* calls are      *)
(* numbered and queued (append_async_call), executed in turn by the call   *)
(* thread (call_proc) and reported through the message thread (msg_proc).  *)
(* A caller may block until its call has been executed (wait_async_id).    *)
(* The numbers are drawn from one process-wide counter, so other instances *)
(* draw numbers in between; the queue, its mutex and the counter of        *)
(* completed calls belong to the instance.                                 *)
(***************************************************************************)
EXTENDS Naturals, Sequences

CONSTANTS
  Callers,      \* threads that call the API
  MaxCalls      \* bound on m_call_id

ASSUME CallsAssumption == MaxCalls \in Nat

VARIABLES
  exit,        \* m_thread_exit
  lastCall,    \* m_call_id, shared by all instances
  callLock,    \* callers inside append_async_call's m_call_mutex section
  callQueue,   \* m_call_queue, the ids
  completed,   \* m_completed_call
  msgQueue,    \* m_msg_queue, restricted to AsyncCallInfo: the ids
  callPc,      \* where call_proc is
  item,        \* call_item.id
  msgPc,       \* where msg_proc is
  delivered,   \* history: ids the user callback was told about, in order
  caller,      \* where each calling thread is, and with which call
  dpc          \* where the destructor is

vars == <<exit, lastCall, callLock, callQueue, completed, msgQueue, callPc,
          item, msgPc, delivered, caller, dpc>>

Ids == 1..MaxCalls
ThreadPC == {"top", "parked", "busy", "publish", "inform", "done"}
CallerPC == {"idle", "numbered", "checking", "parked"}
DestroyPC == {"alive", "exiting", "callNotified", "msgNotified", "callJoined",
              "joined"}

NotCalling == [pc |-> "idle", id |-> 0, block |-> FALSE]

Init ==
  /\ exit = FALSE
  /\ lastCall = 0
  /\ callLock = {}
  /\ callQueue = <<>>
  /\ completed = 0
  /\ msgQueue = <<>>
  /\ callPc = "top"
  /\ item = 0
  /\ msgPc = "top"
  /\ delivered = <<>>
  /\ caller = [c \in Callers |-> NotCalling]
  /\ dpc = "alive"

\* notify_one / notify_all for a thread that loops around its condition variable
Wake(pc) == IF pc = "parked" THEN "top" ELSE pc

-----------------------------------------------------------------------------
\* Mutant: the id is taken before m_call_mutex.
AppendNumber_unlocked(c) ==
  \E b \in BOOLEAN :
    /\ caller[c].pc = "idle" /\ dpc = "alive" /\ lastCall < MaxCalls
    /\ lastCall' = lastCall + 1
    /\ callLock' = callLock \cup {c}
    /\ caller' = [caller EXCEPT ![c] =
         [pc |-> "numbered", id |-> lastCall + 1, block |-> b]]
    /\ UNCHANGED <<exit, callQueue, completed, msgQueue, callPc, item, msgPc,
                   delivered, dpc>>

(* append_async_call: m_call_mutex is taken and the id drawn; other          *)
(* instances may draw ids before this one is pushed.                         *)
AppendNumber(c) ==
  \E b \in BOOLEAN :
    /\ caller[c].pc = "idle"
    /\ dpc = "alive"
    /\ callLock = {}
    /\ lastCall < MaxCalls
    /\ lastCall' = lastCall + 1
    /\ callLock' = {c}
    /\ caller' = [caller EXCEPT ![c] =
         [pc |-> "numbered", id |-> lastCall + 1, block |-> b]]
    /\ UNCHANGED <<exit, callQueue, completed, msgQueue, callPc, item, msgPc,
                   delivered, dpc>>

\* append_async_call of another instance draws from the same counter.
OtherInstance ==
  /\ lastCall < MaxCalls
  /\ lastCall' = lastCall + 1
  /\ UNCHANGED <<exit, callLock, callQueue, completed, msgQueue, callPc, item,
                 msgPc, delivered, caller, dpc>>

\* Mutant: m_call_condvar is not notified.
AppendPush_noNotify(c) ==
  /\ caller[c].pc = "numbered"
  /\ callQueue' = Append(callQueue, caller[c].id)
  /\ callLock' = callLock \ {c}
  /\ caller' = [caller EXCEPT ![c] =
       IF @.block THEN [@ EXCEPT !.pc = "checking"] ELSE NotCalling]
  /\ UNCHANGED <<exit, lastCall, completed, msgQueue, callPc, item, msgPc,
                 delivered, dpc>>

AppendPush(c) ==
  /\ caller[c].pc = "numbered"
  /\ callQueue' = Append(callQueue, caller[c].id)
  /\ callPc' = Wake(callPc)
  /\ callLock' = callLock \ {c}
  /\ caller' = [caller EXCEPT ![c] =
       IF @.block THEN [@ EXCEPT !.pc = "checking"] ELSE NotCalling]
  /\ UNCHANGED <<exit, lastCall, completed, msgQueue, item, msgPc, delivered,
                 dpc>>

(* wait_async_id: one turn of its loop, under m_completed_call_mutex. *)
WaitReturn(c) ==
  /\ caller[c].pc = "checking"
  /\ exit \/ caller[c].id <= completed
  /\ caller' = [caller EXCEPT ![c] = NotCalling]
  /\ UNCHANGED <<exit, lastCall, callLock, callQueue, completed, msgQueue,
                 callPc, item, msgPc, delivered, dpc>>

WaitPark(c) ==
  /\ caller[c].pc = "checking"
  /\ ~exit /\ caller[c].id > completed
  /\ caller' = [caller EXCEPT ![c].pc = "parked"]
  /\ UNCHANGED <<exit, lastCall, callLock, callQueue, completed, msgQueue,
                 callPc, item, msgPc, delivered, dpc>>

\* m_completed_call_condvar.wait(lock) may return by itself.
WaitSpurious(c) ==
  /\ caller[c].pc = "parked"
  /\ caller' = [caller EXCEPT ![c].pc = "checking"]
  /\ UNCHANGED <<exit, lastCall, callLock, callQueue, completed, msgQueue,
                 callPc, item, msgPc, delivered, dpc>>

-----------------------------------------------------------------------------
(* call_proc: exit is looked at before the queue, so queued calls are left.  *)
CallTop ==
  /\ callPc = "top"
  /\ callLock = {}
  /\ \/ /\ exit
        /\ callPc' = "done"
        /\ UNCHANGED <<callQueue, item>>
     \/ /\ ~exit /\ callQueue = <<>>
        /\ callPc' = "parked"
        /\ UNCHANGED <<callQueue, item>>
     \/ /\ ~exit /\ callQueue # <<>>
        /\ item' = Head(callQueue)
        /\ callQueue' = Tail(callQueue)
        /\ callPc' = "busy"
  /\ UNCHANGED <<exit, lastCall, callLock, completed, msgQueue, msgPc,
                 delivered, caller, dpc>>

\* ctrl_connect, ctrl_click, ctrl_screencap: what they do to the controller is
\* not seen here.
CallExecute ==
  /\ callPc = "busy"
  /\ callPc' = "publish"
  /\ UNCHANGED <<exit, lastCall, callLock, callQueue, completed, msgQueue, item,
                 msgPc, delivered, caller, dpc>>

Waiters == {c \in Callers : caller[c].pc = "parked"}

\* Mutant: notify_one for notify_all.
CallPublish_notifyOne ==
  /\ callPc = "publish"
  /\ completed' = item
  /\ caller' \in IF Waiters = {} THEN {caller}
                 ELSE {[caller EXCEPT ![c].pc = "checking"] : c \in Waiters}
  /\ callPc' = "inform"
  /\ UNCHANGED <<exit, lastCall, callLock, callQueue, msgQueue, item, msgPc,
                 delivered, dpc>>

CallPublish ==
  /\ callPc = "publish"
  /\ completed' = item
  /\ caller' = [c \in Callers |-> IF c \in Waiters
                                  THEN [caller[c] EXCEPT !.pc = "checking"]
                                  ELSE caller[c]]
  /\ callPc' = "inform"
  /\ UNCHANGED <<exit, lastCall, callLock, callQueue, msgQueue, item, msgPc,
                 delivered, dpc>>

(* append_callback with AsyncCallInfo. *)
CallInform ==
  /\ callPc = "inform"
  /\ msgQueue' = Append(msgQueue, item)
  /\ msgPc' = Wake(msgPc)
  /\ callPc' = "top"
  /\ UNCHANGED <<exit, lastCall, callLock, callQueue, completed, item,
                 delivered, caller, dpc>>

-----------------------------------------------------------------------------
\* Mutant: the user callback gets the newest message.
MsgTop_newest ==
  /\ msgPc = "top"
  /\ \/ exit /\ msgPc' = "done"
        /\ UNCHANGED <<msgQueue, delivered>>
     \/ ~exit /\ msgQueue = <<>> /\ msgPc' = "parked"
        /\ UNCHANGED <<msgQueue, delivered>>
     \/ /\ ~exit /\ msgQueue # <<>>
        /\ delivered' = Append(delivered, msgQueue[Len(msgQueue)])
        /\ msgQueue' = SubSeq(msgQueue, 1, Len(msgQueue) - 1)
        /\ msgPc' = "busy"
  /\ UNCHANGED <<exit, lastCall, callLock, callQueue, completed, callPc, item,
                 caller, dpc>>

(* msg_proc: the front is popped and handed to the callback outside the lock. *)
MsgTop ==
  /\ msgPc = "top"
  /\ \/ exit /\ msgPc' = "done"
        /\ UNCHANGED <<msgQueue, delivered>>
     \/ ~exit /\ msgQueue = <<>> /\ msgPc' = "parked"
        /\ UNCHANGED <<msgQueue, delivered>>
     \/ /\ ~exit /\ msgQueue # <<>>
        /\ delivered' = Append(delivered, Head(msgQueue))
        /\ msgQueue' = Tail(msgQueue)
        /\ msgPc' = "busy"
  /\ UNCHANGED <<exit, lastCall, callLock, callQueue, completed, callPc, item,
                 caller, dpc>>

MsgReturn ==
  /\ msgPc = "busy"
  /\ msgPc' = "top"
  /\ UNCHANGED <<exit, lastCall, callLock, callQueue, completed, msgQueue,
                 callPc, item, delivered, caller, dpc>>

-----------------------------------------------------------------------------
(* ~Assistant: the flags are set without a lock; each condition variable but *)
(* m_completed_call_condvar is notified under its mutex; then the threads    *)
(* are joined, the message thread last.                                      *)
DestroyExit ==
  /\ dpc = "alive"
  /\ exit' = TRUE
  /\ dpc' = "exiting"
  /\ UNCHANGED <<lastCall, callLock, callQueue, completed, msgQueue, callPc,
                 item, msgPc, delivered, caller>>

DestroyNotifyCall ==
  /\ dpc = "exiting"
  /\ callLock = {}
  /\ callPc' = Wake(callPc)
  /\ dpc' = "callNotified"
  /\ UNCHANGED <<exit, lastCall, callLock, callQueue, completed, msgQueue, item,
                 msgPc, delivered, caller>>

\* Mutant: only the call thread and the working thread are notified.
DestroyNotifyMsg_none ==
  /\ dpc = "callNotified"
  /\ dpc' = "msgNotified"
  /\ UNCHANGED <<exit, lastCall, callLock, callQueue, completed, msgQueue,
                 callPc, item, msgPc, delivered, caller>>

DestroyNotifyMsg ==
  /\ dpc = "callNotified"
  /\ msgPc' = Wake(msgPc)
  /\ dpc' = "msgNotified"
  /\ UNCHANGED <<exit, lastCall, callLock, callQueue, completed, msgQueue,
                 callPc, item, delivered, caller>>

DestroyJoin ==
  /\ \/ dpc = "msgNotified" /\ callPc = "done"
        /\ dpc' = "callJoined"
     \/ dpc = "callJoined" /\ msgPc = "done"
        /\ dpc' = "joined"
  /\ UNCHANGED <<exit, lastCall, callLock, callQueue, completed, msgQueue,
                 callPc, item, msgPc, delivered, caller>>

-----------------------------------------------------------------------------
CallThread == CallTop \/ CallExecute \/ CallPublish \/ CallInform
MsgThread == MsgTop \/ MsgReturn
CallBody(c) == AppendPush(c) \/ WaitReturn(c) \/ WaitPark(c)
DestroyBody == DestroyNotifyCall \/ DestroyNotifyMsg \/ DestroyJoin

Next ==
  \/ \E c \in Callers : AppendNumber(c) \/ CallBody(c) \/ WaitSpurious(c)
  \/ OtherInstance
  \/ CallThread \/ MsgThread
  \/ DestroyExit \/ DestroyBody

\* Threads run, calls end, the callback returns.  Nobody has to make a call,
\* and wait() does not have to return by itself.
Fairness ==
  /\ \A c \in Callers : WF_vars(CallBody(c))
  /\ SF_vars(CallThread) /\ WF_vars(MsgThread) /\ WF_vars(DestroyBody)

Spec == Init /\ [][Next]_vars /\ Fairness

-----------------------------------------------------------------------------
TypeOK ==
  /\ exit \in BOOLEAN
  /\ lastCall \in 0..MaxCalls
  /\ callLock = {} \/ \E c \in Callers : callLock = {c}
  /\ callQueue \in Seq(Ids)
  /\ completed \in 0..MaxCalls
  /\ msgQueue \in Seq(Ids)
  /\ callPc \in ThreadPC
  /\ item \in 0..MaxCalls
  /\ msgPc \in ThreadPC
  /\ delivered \in Seq(Ids)
  /\ caller \in [Callers -> [pc : CallerPC, id : 0..MaxCalls, block : BOOLEAN]]
  /\ callPc \in {"busy", "publish", "inform"} => item \in Ids
  /\ \A c \in Callers : caller[c].pc = "numbered" => caller[c].id \in Ids
  /\ dpc \in DestroyPC

\* "The ids in the queue must be ordered" (Assistant.cpp:565): a blocked caller
\* returns as soon as m_completed_call reaches its id, which is right only if
\* everything still queued or being executed has an id above it.
CompletedIsPrefix ==
  /\ \A k \in DOMAIN callQueue :
       /\ callQueue[k] > completed
       /\ callPc \in {"busy", "publish"} => callQueue[k] > item
       /\ \A l \in DOMAIN callQueue : k < l => callQueue[k] < callQueue[l]
  /\ callPc \in {"busy", "publish"} => item > completed

\* A parked thread has nothing to do: each of the four condition variables is
\* notified whenever what its waiter looks at changes.
ParkedForAReason ==
  /\ callPc = "parked" => callQueue = <<>> /\ dpc \in {"alive", "exiting"}
  /\ msgPc = "parked" =>
       msgQueue = <<>> /\ dpc \in {"alive", "exiting", "callNotified"}
  /\ \A c \in Waiters : caller[c].id > completed

\* What the callback was told, and will be of what is queued.
Told == delivered \o msgQueue

\* AsyncCallInfo reaches the callback in the order the calls were numbered, only
\* for calls whose blocked caller could already go on, and no earlier one is
\* skipped: what was completed is delivered, queued or about to be queued.
InfoInOrder ==
  /\ \A k, l \in DOMAIN Told : k < l => Told[k] < Told[l]
  /\ \A k \in DOMAIN Told : Told[k] <= completed
  /\ (callPc # "inform" /\ completed > 0) =>
       \E k \in DOMAIN Told : Told[k] = completed

\* A blocking call returns, unless the instance is destroyed: the destructor
\* does not notify m_completed_call_condvar.
BlockedCallReturns ==
  \A c \in Callers : caller[c].pc = "parked" ~> (caller[c].pc = "idle" \/ exit)

\* The destructor returns although calls are queued and messages undelivered.
DestroyReturns == exit ~> dpc = "joined"
=============================================================================
