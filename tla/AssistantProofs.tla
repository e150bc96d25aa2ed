--------------------------- MODULE AssistantProofs ---------------------------
(***************************************************************************)
(* Proofs about Assistant, for any set of client threads and any number of *)
(* chains, and about Gui, whose two threads are clients of it.             *)
(***************************************************************************)
EXTENDS Gui, SequenceTheorems, TLAPS

USE ClientsAssumption DEF ClientsAssumption

\* What appending behind a non-empty list leaves in front.
LEMMA AppendKeepsFront ==
  ASSUME NEW S, NEW s \in Seq(S), s # <<>>, NEW x \in S
  PROVE  /\ Append(s, x) \in Seq(S)
         /\ Append(s, x) # <<>>
         /\ Head(Append(s, x)) = Head(s)
         /\ Tail(Append(s, x)) = Append(Tail(s), x)
  BY HeadTailAppend, AppendProperties

\* The members of the tail are the members of the list but for the first.
LEMMA TailElements ==
  ASSUME NEW S, NEW s \in Seq(S), s # <<>>
  PROVE  /\ Head(s) \in S /\ Head(s) = s[1]
         /\ Tail(s) \in Seq(S)
         /\ Len(s) \in Nat /\ Len(s) >= 1
         /\ DOMAIN s = 1..Len(s)
         /\ DOMAIN Tail(s) = 1..(Len(s) - 1)
         /\ \A i \in DOMAIN Tail(s) : i + 1 \in DOMAIN s /\ Tail(s)[i] = s[i + 1]
  <1>1. Len(s) \in Nat /\ Len(s) # 0 /\ DOMAIN s = 1..Len(s)
    BY EmptySeq, LenProperties
  <1>2. Head(s) \in S /\ Head(s) = s[1] /\ Tail(s) \in Seq(S)
    BY HeadTailProperties
  <1>3. Len(Tail(s)) = Len(s) - 1 /\ \A i \in 1..Len(Tail(s)) : Tail(s)[i] = s[i + 1]
    BY HeadTailProperties
  <1>4. DOMAIN Tail(s) = 1..(Len(s) - 1)
    BY <1>2, <1>3, LenProperties
  <1> QED BY <1>1, <1>2, <1>3, <1>4

(***************************************************************************)
(* Type correctness.                                                       *)
(***************************************************************************)
LEMMA TypeInit == Init => TypeOK
  <1> SUFFICES ASSUME Init PROVE TypeOK
    OBVIOUS
  <1>1. <<>> \in Seq(TaskIds) /\ <<>> \in Seq(ChainMsgs)
    OBVIOUS
  <1>2. msgs \in [TaskIds -> Seq(ChainMsgs)]
    BY <1>1 DEF Init
  <1>3. cpc \in [Clients -> ClientPC]
    BY DEF Init, ClientPC
  <1>4. tasks \in Seq(TaskIds) /\ finished \in Seq(TaskIds)
    BY <1>1 DEF Init
  <1>5. lastId \in 0..MaxTasks /\ cur \in 0..MaxTasks
    BY DEF Init
  <1> QED
    BY <1>2, <1>3, <1>4, <1>5 DEF Init, TypeOK, WorkerPC, InChain, DestroyPC

LEMMA TypeNext == TypeOK /\ [Next]_vars => TypeOK'
  <1> SUFFICES ASSUME TypeOK, [Next]_vars PROVE TypeOK'
    OBVIOUS
  <1> USE DEF TypeOK, flagVars, workerVars, WorkerPC, InChain, ClientPC,
              DestroyPC, TaskIds
  <1>1. ASSUME NEW c \in Clients, AppendTask(c) PROVE TypeOK'
    <2>1. lastId + 1 \in 1..MaxTasks
      BY <1>1 DEF AppendTask
    <2>2. tasks' \in Seq(1..MaxTasks)
      BY <1>1, <2>1, AppendProperties DEF AppendTask
    <2> QED BY <1>1, <2>1, <2>2 DEF AppendTask
  <1>2. ASSUME NEW c \in Clients, StartCheck(c) PROVE TypeOK'
    BY <1>2 DEF StartCheck, Goto
  <1>3. ASSUME NEW c \in Clients, StartGo(c) PROVE TypeOK'
    BY <1>3 DEF StartGo, Goto, Notify
  <1>4. ASSUME NEW c \in Clients, StopFlag(c) PROVE TypeOK'
    BY <1>4 DEF StopFlag, Goto
  <1>5. ASSUME NEW c \in Clients, StopClear(c) PROVE TypeOK'
    <2>1. <<>> \in Seq(1..MaxTasks)
      OBVIOUS
    <2> QED BY <1>5, <2>1 DEF StopClear, Goto
  <1>6. ASSUME NEW c \in Clients, ConnectCall(c) PROVE TypeOK'
    BY <1>6 DEF ConnectCall, Goto
  <1>7. ASSUME NEW c \in Clients, ConnectRefuse(c) PROVE TypeOK'
    BY <1>7 DEF ConnectRefuse, Goto
  <1>8. ASSUME NEW c \in Clients, ConnectBegin(c) PROVE TypeOK'
    BY <1>8 DEF ConnectBegin, Goto
  <1>9. ASSUME NEW c \in Clients, ConnectEnd(c) PROVE TypeOK'
    BY <1>9 DEF ConnectEnd, Goto
  <1>10. CASE WorkerExit
    BY <1>10 DEF WorkerExit
  <1>11. CASE WorkerPark
    <2>1. <<>> \in Seq(1..MaxTasks)
      OBVIOUS
    <2> QED BY <1>11, <2>1 DEF WorkerPark
  <1>12. CASE WorkerTake
    <2>1. Head(tasks) \in 1..MaxTasks
      BY <1>12, TailElements DEF WorkerTake
    <2>2. cur' \in 1..MaxTasks /\ cur' \in 0..MaxTasks
      BY <1>12, <2>1 DEF WorkerTake
    <2> QED BY <1>12, <2>2 DEF WorkerTake
  <1>13. ASSUME NEW m \in ChainMsgs, cur \in TaskIds, Report(cur, m)
         PROVE msgs' \in [TaskIds -> Seq(ChainMsgs)]
    <2>1. msgs[cur] \in Seq(ChainMsgs)
      BY <1>13
    <2>2. Append(msgs[cur], m) \in Seq(ChainMsgs)
      BY <2>1, AppendProperties
    <2> QED BY <1>13, <2>2 DEF Report
  <1>14. CASE ChainStart
    <2>1. msgs' \in [TaskIds -> Seq(ChainMsgs)]
      BY <1>13, <1>14 DEF ChainStart, ChainMsgs
    <2> QED BY <1>14, <2>1 DEF ChainStart
  <1>15. CASE TaskStep
    BY <1>15 DEF TaskStep
  <1>16. ASSUME NEW r \in BOOLEAN, TaskReturn(r) PROVE TypeOK'
    <2>1. finished' \in Seq(1..MaxTasks)
      BY <1>16, AppendProperties DEF TaskReturn
    <2> QED BY <1>16, <2>1 DEF TaskReturn
  <1>17. CASE PopFront
    <2>1. tasks' \in Seq(1..MaxTasks)
      BY <1>17, TailElements DEF PopFront
    <2> QED BY <1>17, <2>1 DEF PopFront
  <1>18. CASE ChainEnd
    <2>1. msgs' \in [TaskIds -> Seq(ChainMsgs)]
      BY <1>13, <1>18 DEF ChainEnd, EndMessage, ChainMsgs
    <2> QED BY <1>18, <2>1 DEF ChainEnd
  <1>19. CASE StopCheck
    <2>1. <<>> \in Seq(1..MaxTasks)
      OBVIOUS
    <2> QED BY <1>19, <2>1 DEF StopCheck
  <1>20. CASE AllCheck
    BY <1>20 DEF AllCheck
  <1>21. CASE AllCompleted
    <2>1. msgs' \in [TaskIds -> Seq(ChainMsgs)]
      BY <1>13, <1>21 DEF AllCompleted, ChainMsgs
    <2>2. <<>> \in Seq(1..MaxTasks)
      OBVIOUS
    <2> QED BY <1>21, <2>1, <2>2 DEF AllCompleted
  <1>22. CASE DelayEnd
    <2>1. msgs' \in [TaskIds -> Seq(ChainMsgs)]
      <3>1. CASE idle
        BY <1>13, <1>22, <3>1 DEF DelayEnd, ChainMsgs
      <3>2. CASE ~idle
        BY <1>22, <3>2 DEF DelayEnd
      <3> QED BY <3>1, <3>2
    <2> QED BY <1>22, <2>1 DEF DelayEnd
  <1>23. CASE SpuriousWake
    BY <1>23 DEF SpuriousWake
  <1>24. CASE DestroyExit
    BY <1>24 DEF DestroyExit
  <1>25. CASE DestroyIdle
    BY <1>25 DEF DestroyIdle
  <1>26. CASE DestroyNotify
    BY <1>26 DEF DestroyNotify, Notify
  <1>27. CASE DestroyJoin
    BY <1>27 DEF DestroyJoin
  <1>28. CASE UNCHANGED vars
    BY <1>28 DEF vars
  <1> QED
    BY <1>1, <1>2, <1>3, <1>4, <1>5, <1>6, <1>7, <1>8, <1>9, <1>10, <1>11,
       <1>12, <1>14, <1>15, <1>16, <1>17, <1>18, <1>19, <1>20, <1>21, <1>22,
       <1>23, <1>24, <1>25, <1>26, <1>27, <1>28
    DEF Next, Client, Worker, Destructor

\* Every variable of the instance stays within its type, and the chain being
\* executed is one that was appended.
THEOREM TypeCorrect == Spec => []TypeOK
  BY TypeInit, TypeNext, PTL DEF Spec

(***************************************************************************)
(* The two flags and the parked worker.  StopIsSeen is inductive; the      *)
(* wake-up invariant needs to know that the destructor sets m_thread_exit  *)
(* before anything else.                                                   *)
(***************************************************************************)
ExitFirst == dpc # "alive" => exit

FlagsInv == StopIsSeen /\ NoLostWakeup /\ ExitFirst

LEMMA FlagsInit == Init => FlagsInv
  BY DEF Init, FlagsInv, StopIsSeen, NoLostWakeup, ExitFirst, InChain

LEMMA FlagsNext == TypeOK /\ FlagsInv /\ [Next]_vars => FlagsInv'
  <1> SUFFICES ASSUME TypeOK, FlagsInv, [Next]_vars PROVE FlagsInv'
    OBVIOUS
  <1> USE DEF FlagsInv, StopIsSeen, NoLostWakeup, ExitFirst, InChain,
              flagVars, workerVars
  <1>1. ASSUME NEW c \in Clients, Client(c) PROVE FlagsInv'
    <2>1. CASE AppendTask(c)
      BY <2>1 DEF AppendTask
    <2>2. CASE StartCheck(c)
      BY <2>2 DEF StartCheck
    <2>3. CASE StartGo(c)
      BY <2>3 DEF StartGo, Notify
    <2>4. CASE StopFlag(c)
      BY <2>4 DEF StopFlag
    <2>5. CASE StopClear(c)
      BY <2>5 DEF StopClear
    <2>6. CASE ConnectCall(c)
      BY <2>6 DEF ConnectCall
    <2>7. CASE ConnectRefuse(c)
      BY <2>7 DEF ConnectRefuse
    <2>8. CASE ConnectBegin(c)
      BY <2>8 DEF ConnectBegin
    <2>9. CASE ConnectEnd(c)
      BY <2>9 DEF ConnectEnd
    <2> QED
      BY <1>1, <2>1, <2>2, <2>3, <2>4, <2>5, <2>6, <2>7, <2>8, <2>9 DEF Client
  <1>2. CASE Worker
    <2>1. CASE WorkerExit
      BY <2>1 DEF WorkerExit
    <2>2. CASE WorkerPark
      BY <2>2 DEF WorkerPark
    <2>3. CASE WorkerTake
      BY <2>3 DEF WorkerTake
    <2>4. CASE ChainStart
      BY <2>4 DEF ChainStart
    <2>5. CASE TaskStep
      BY <2>5 DEF TaskStep
    <2>6. ASSUME NEW r \in BOOLEAN, TaskReturn(r) PROVE FlagsInv'
      BY <2>6 DEF TaskReturn
    <2>7. CASE PopFront
      BY <2>7 DEF PopFront
    <2>8. CASE ChainEnd
      BY <2>8 DEF ChainEnd
    <2>9. CASE StopCheck
      BY <2>9 DEF StopCheck
    <2>10. CASE AllCheck
      BY <2>10 DEF AllCheck
    <2>11. CASE AllCompleted
      BY <2>11 DEF AllCompleted
    <2>12. CASE DelayEnd
      BY <2>12 DEF DelayEnd
    <2> QED
      BY <1>2, <2>1, <2>2, <2>3, <2>4, <2>5, <2>6, <2>7, <2>8, <2>9, <2>10,
         <2>11, <2>12 DEF Worker
  <1>3. CASE SpuriousWake
    BY <1>3 DEF SpuriousWake
  <1>4. CASE Destructor
    <2>1. CASE DestroyExit
      BY <2>1 DEF DestroyExit
    <2>2. CASE DestroyIdle
      BY <2>2 DEF DestroyIdle
    <2>3. CASE DestroyNotify
      BY <2>3 DEF DestroyNotify, Notify
    <2>4. CASE DestroyJoin
      BY <2>4 DEF DestroyJoin
    <2> QED
      BY <1>4, <2>1, <2>2, <2>3, <2>4 DEF Destructor
  <1>5. CASE UNCHANGED vars
    BY <1>5 DEF vars
  <1> QED
    BY <1>1, <1>2, <1>3, <1>4, <1>5 DEF Next

LEMMA FlagsInvariant == Spec => []FlagsInv
  BY FlagsInit, FlagsNext, TypeCorrect, PTL DEF Spec

\* A stop is never masked: while a chain runs, need_exit() is m_thread_idle
\* alone (Assistant.h need_exit, polled by every task).
THEOREM StopAlwaysSeen == Spec => []StopIsSeen
  <1>1. FlagsInv => StopIsSeen
    BY DEF FlagsInv
  <1> QED BY <1>1, FlagsInvariant, PTL

\* No start() and no destructor leaves the worker parked on m_condvar
\* (working_proc waits without a predicate).
THEOREM WorkerNeverLeftParked == Spec => []NoLostWakeup
  <1>1. FlagsInv => NoLostWakeup
    BY DEF FlagsInv
  <1> QED BY <1>1, FlagsInvariant, PTL

(***************************************************************************)
(* The task list.  What is queued behind the current chain only changes by *)
(* an append, a clear, a take and a pop; the messages only for the current *)
(* chain, which is never among those queued.                               *)
(***************************************************************************)
QueueInv == FrontIsRunning /\ QueueIsFresh

\* What is queued behind the current chain is a sequence of ids.
LEMMA BehindType ==
  ASSUME TypeOK
  PROVE  /\ Behind \in Seq(TaskIds)
         /\ Len(Behind) \in Nat
         /\ DOMAIN Behind = 1..Len(Behind)
         /\ \A i \in DOMAIN Behind : Behind[i] \in TaskIds
  <1>1. Behind \in Seq(TaskIds)
    BY TailElements DEF Behind, TypeOK
  <1> QED BY <1>1, LenProperties, ElementOfSeq

\* A step that touches none of the list, the current chain and the messages.
LEMMA QuietStep ==
  ASSUME QueueInv, UNCHANGED <<tasks, cur, msgs, lastId, cleared>>,
         wpc' \in Holding <=> wpc \in Holding
  PROVE  QueueInv' /\ Behind' = Behind
  BY DEF QueueInv, FrontIsRunning, QueueIsFresh, Behind

\* A step that sends a message about the current chain.
LEMMA ReportStep ==
  ASSUME TypeOK, QueueInv, UNCHANGED <<tasks, cur, lastId, cleared>>,
         wpc' \in Holding <=> wpc \in Holding, cur \in TaskIds,
         NEW m \in ChainMsgs, Report(cur, m)
  PROVE  QueueInv' /\ Behind' = Behind
  <1>1. Behind' = Behind
    BY DEF Behind
  <1>2. \A id \in TaskIds : id # cur => msgs'[id] = msgs[id]
    BY DEF Report, TypeOK
  <1>3. \A i \in DOMAIN Behind : Behind[i] # cur /\ Behind[i] \in TaskIds
    BY BehindType DEF QueueInv, QueueIsFresh, TaskIds
  <1>4. \A i \in DOMAIN Behind : msgs'[Behind[i]] = <<>>
    BY <1>2, <1>3 DEF QueueInv, QueueIsFresh
  <1>5. \A id \in TaskIds : id > lastId => msgs'[id] = <<>>
    <2> SUFFICES ASSUME NEW id \in TaskIds, id > lastId PROVE msgs'[id] = <<>>
      OBVIOUS
    <2>1. id # cur
      BY DEF QueueInv, QueueIsFresh, TypeOK, TaskIds
    <2> QED BY <1>2, <2>1 DEF QueueInv, QueueIsFresh
  <1> QED BY <1>1, <1>4, <1>5 DEF QueueInv, QueueIsFresh, FrontIsRunning

LEMMA AppendStep ==
  ASSUME TypeOK, QueueInv, NEW c \in Clients, AppendTask(c)
  PROVE  QueueInv' /\ Behind' = Append(Behind, lastId + 1)
  <1> DEFINE id == lastId + 1
  <1>1. id \in TaskIds /\ id > lastId /\ id > cur
    BY DEF AppendTask, QueueInv, QueueIsFresh, TypeOK, TaskIds
  <1>2. /\ tasks' = Append(tasks, id) /\ lastId' = id
        /\ UNCHANGED <<wpc, cur, msgs, cleared>>
    BY DEF AppendTask, workerVars
  <1>3. tasks # <<>> => Head(tasks') = Head(tasks) /\ Tail(tasks') = Append(Tail(tasks), id)
    BY <1>1, <1>2, AppendKeepsFront DEF TypeOK
  <1>4. tasks' # <<>>
    BY <1>1, <1>2, AppendProperties DEF TypeOK
  <1>5. tasks = <<>> => tasks' = <<id>> /\ Head(tasks') = id
    BY <1>2
  <1>6. Behind' = Append(Behind, id)
    <2>1. CASE tasks = <<>>
      <3>1. Behind = <<>>
        BY <2>1 DEF Behind
      <3>2. Behind' = tasks'
        BY <1>1, <1>2, <1>5, <2>1 DEF Behind, TypeOK, TaskIds
      <3> QED BY <1>2, <2>1, <3>1, <3>2
    <2>2. CASE tasks # <<>>
      BY <1>2, <1>3, <1>4, <2>2 DEF Behind
    <2> QED BY <2>1, <2>2
  <1>7. /\ DOMAIN Behind = 1..Len(Behind) /\ Len(Behind) \in Nat
        /\ DOMAIN Behind' = 1..(Len(Behind) + 1)
        /\ \A i \in DOMAIN Behind : Behind'[i] = Behind[i] /\ Behind[i] \in TaskIds
        /\ Behind'[Len(Behind) + 1] = id
    <2>1. Behind \in Seq(TaskIds)
      BY BehindType
    <2> QED BY <1>1, <1>6, <2>1, BehindType, AppendProperties, LenProperties
  <1>8. msgs[id] = <<>>
    BY <1>1 DEF QueueInv, QueueIsFresh
  <1>9. FrontIsRunning'
    BY <1>2, <1>3, <1>4 DEF QueueInv, FrontIsRunning
  <1>10. QueueIsFresh'
    <2>1. cur' <= lastId'
      BY <1>1, <1>2 DEF TypeOK, TaskIds
    <2>2. \A i \in DOMAIN Behind' :
            /\ Behind'[i] > cur' /\ Behind'[i] <= lastId'
            /\ msgs'[Behind'[i]] = <<>>
      <3> SUFFICES ASSUME NEW i \in DOMAIN Behind'
                   PROVE  /\ Behind'[i] > cur' /\ Behind'[i] <= lastId'
                          /\ msgs'[Behind'[i]] = <<>>
        OBVIOUS
      <3>1. CASE i \in DOMAIN Behind
        BY <1>2, <1>7, <3>1 DEF QueueInv, QueueIsFresh, TypeOK, TaskIds
      <3>2. CASE i = Len(Behind) + 1
        BY <1>1, <1>2, <1>7, <1>8, <3>2
      <3> QED BY <1>7, <3>1, <3>2
    <2>3. \A i, j \in DOMAIN Behind' : i < j => Behind'[i] < Behind'[j]
      <3> SUFFICES ASSUME NEW i \in DOMAIN Behind', NEW j \in DOMAIN Behind', i < j
                   PROVE  Behind'[i] < Behind'[j]
        OBVIOUS
      <3>1. i \in DOMAIN Behind
        BY <1>7
      <3>2. CASE j \in DOMAIN Behind
        BY <1>7, <3>1, <3>2 DEF QueueInv, QueueIsFresh
      <3>3. CASE j = Len(Behind) + 1
        <4>1. Behind[i] <= lastId
          BY <3>1 DEF QueueInv, QueueIsFresh
        <4> QED BY <1>1, <1>7, <3>1, <3>3, <4>1 DEF TypeOK, TaskIds
      <3> QED BY <1>7, <3>2, <3>3
    <2>4. \A k \in TaskIds : k > lastId' => msgs'[k] = <<>>
      BY <1>1, <1>2 DEF QueueInv, QueueIsFresh, TypeOK, TaskIds
    <2> QED BY <2>1, <2>2, <2>3, <2>4 DEF QueueIsFresh
  <1> QED BY <1>6, <1>9, <1>10 DEF QueueInv

LEMMA ClearStep ==
  ASSUME TypeOK, QueueInv, NEW c \in Clients, StopClear(c)
  PROVE  QueueInv' /\ Behind' = <<>>
  BY DEF StopClear, workerVars, QueueInv, FrontIsRunning, QueueIsFresh, Behind

LEMMA TakeStep ==
  ASSUME TypeOK, QueueInv, WorkerTake
  PROVE  /\ QueueInv'
         /\ Behind # <<>> /\ cur' = Head(Behind) /\ Behind' = Tail(Behind)
  <1>1. /\ Behind = tasks /\ tasks # <<>> /\ tasks \in Seq(TaskIds)
        /\ UNCHANGED <<tasks, msgs, lastId>>
        /\ cur' = Head(tasks) /\ wpc' = "begin" /\ cleared' = FALSE
    BY DEF WorkerTake, Behind, Holding, TypeOK
  <1>2. Behind' = Tail(tasks)
    BY <1>1 DEF Behind, Holding
  <1>3. /\ Head(tasks) = tasks[1] /\ 1 \in DOMAIN tasks
        /\ DOMAIN tasks = 1..Len(tasks) /\ Len(tasks) \in Nat
        /\ DOMAIN Tail(tasks) = 1..(Len(tasks) - 1)
        /\ \A i \in DOMAIN Tail(tasks) : i + 1 \in DOMAIN tasks /\ Tail(tasks)[i] = tasks[i + 1]
    BY <1>1, TailElements
  <1>4. FrontIsRunning'
    BY <1>1 DEF FrontIsRunning
  <1>5. QueueIsFresh'
    <2>1. cur' <= lastId'
      BY <1>1, <1>3 DEF QueueInv, QueueIsFresh
    <2>2. \A i \in DOMAIN Behind' :
            /\ Behind'[i] > cur' /\ Behind'[i] <= lastId'
            /\ msgs'[Behind'[i]] = <<>>
      <3> SUFFICES ASSUME NEW i \in DOMAIN Tail(tasks)
                   PROVE  /\ Tail(tasks)[i] > tasks[1] /\ Tail(tasks)[i] <= lastId
                          /\ msgs[Tail(tasks)[i]] = <<>>
        BY <1>1, <1>2, <1>3
      <3>1. i + 1 \in DOMAIN tasks /\ 1 < i + 1 /\ Tail(tasks)[i] = tasks[i + 1]
        BY <1>3
      <3>2. tasks[1] < tasks[i + 1] /\ tasks[i + 1] <= lastId /\ msgs[tasks[i + 1]] = <<>>
        BY <1>1, <1>3, <3>1 DEF QueueInv, QueueIsFresh
      <3>3. tasks[1] \in Nat /\ tasks[i + 1] \in Nat
        BY <1>1, <1>3, <3>1, ElementOfSeq DEF TaskIds
      <3> QED BY <3>1, <3>2, <3>3
    <2>3. \A i, j \in DOMAIN Behind' : i < j => Behind'[i] < Behind'[j]
      <3> SUFFICES ASSUME NEW i \in DOMAIN Tail(tasks), NEW j \in DOMAIN Tail(tasks), i < j
                   PROVE  Tail(tasks)[i] < Tail(tasks)[j]
        BY <1>2
      <3>1. i + 1 \in DOMAIN tasks /\ j + 1 \in DOMAIN tasks /\ i + 1 < j + 1
        BY <1>3
      <3>2. tasks[i + 1] < tasks[j + 1]
        BY <1>1, <3>1 DEF QueueInv, QueueIsFresh
      <3> QED BY <1>3, <3>2
    <2>4. \A id \in TaskIds : id > lastId' => msgs'[id] = <<>>
      BY <1>1 DEF QueueInv, QueueIsFresh
    <2> QED BY <2>1, <2>2, <2>3, <2>4 DEF QueueIsFresh
  <1> QED BY <1>1, <1>2, <1>4, <1>5 DEF QueueInv

\* pop_front() leaves what was queued behind the chain, unless the list was
\* cleared meanwhile: then it takes the oldest of the chains appended since.
LEMMA PopStep ==
  ASSUME TypeOK, QueueInv, PopFront
  PROVE  /\ QueueInv'
         /\ \/ Behind' = Behind
            \/ Behind # <<>> /\ Behind' = Tail(Behind)
  <1>1. /\ UNCHANGED <<cur, msgs, lastId, cleared>>
        /\ wpc = "pop" /\ wpc' = "report"
        /\ tasks' = IF tasks = <<>> THEN <<>> ELSE Tail(tasks)
    BY DEF PopFront
  <1>2. Behind' = tasks'
    BY <1>1 DEF Behind, Holding
  <1>3. FrontIsRunning'
    BY <1>1 DEF FrontIsRunning, Holding
  <1>4. CASE Behind' = Behind
    <2>1. QueueIsFresh'
      BY <1>1, <1>4 DEF QueueInv, QueueIsFresh
    <2> QED BY <1>3, <1>4, <2>1 DEF QueueInv
  <1>5. CASE Behind' # Behind
    <2>1. tasks # <<>> /\ Behind = tasks /\ Behind' = Tail(tasks)
      BY <1>1, <1>2, <1>5 DEF Behind, Holding
    <2>2. /\ DOMAIN tasks = 1..Len(tasks) /\ Len(tasks) \in Nat
          /\ DOMAIN Tail(tasks) = 1..(Len(tasks) - 1)
          /\ \A i \in DOMAIN Tail(tasks) : i + 1 \in DOMAIN tasks /\ Tail(tasks)[i] = tasks[i + 1]
      BY <2>1, TailElements DEF TypeOK
    <2>3. cur' <= lastId'
      BY <1>1 DEF QueueInv, QueueIsFresh
    <2>4. \A i \in DOMAIN Behind' :
            /\ Behind'[i] > cur' /\ Behind'[i] <= lastId'
            /\ msgs'[Behind'[i]] = <<>>
      BY <1>1, <2>1, <2>2 DEF QueueInv, QueueIsFresh
    <2>5. \A i, j \in DOMAIN Behind' : i < j => Behind'[i] < Behind'[j]
      <3> SUFFICES ASSUME NEW i \in DOMAIN Tail(tasks), NEW j \in DOMAIN Tail(tasks), i < j
                   PROVE  Tail(tasks)[i] < Tail(tasks)[j]
        BY <2>1
      <3>1. i + 1 \in DOMAIN tasks /\ j + 1 \in DOMAIN tasks /\ i + 1 < j + 1
        BY <2>2
      <3>2. tasks[i + 1] < tasks[j + 1]
        BY <2>1, <3>1 DEF QueueInv, QueueIsFresh
      <3> QED BY <2>2, <3>2
    <2>6. \A id \in TaskIds : id > lastId' => msgs'[id] = <<>>
      BY <1>1 DEF QueueInv, QueueIsFresh
    <2>7. QueueIsFresh'
      BY <2>3, <2>4, <2>5, <2>6 DEF QueueIsFresh
    <2> QED BY <1>3, <2>1, <2>7 DEF QueueInv
  <1> QED BY <1>4, <1>5

(***************************************************************************)
(* One pass over the actions gives both the invariant of the list and the  *)
(* step of the service that the action implements.                         *)
(***************************************************************************)
ServiceStep == [Service!Next]_(Service!vars)

LEMMA QueueInit == Init => QueueInv /\ Service!Init
  <1> SUFFICES ASSUME Init PROVE QueueInv /\ Service!Init
    OBVIOUS
  <1>1. Behind = <<>> /\ Current = 0
    BY DEF Init, Behind, Current, Holding, InChain
  <1>2. QueueInv
    BY <1>1 DEF Init, QueueInv, FrontIsRunning, QueueIsFresh, Holding
  <1> QED BY <1>1, <1>2 DEF Init, Service!Init

\* A step the service does not see.
LEMMA Stutter ==
  ASSUME Behind' = Behind, Current' = Current, lastId' = lastId
  PROVE  ServiceStep
  BY DEF ServiceStep, Service!vars

LEMMA QueueNext ==
  ASSUME TypeOK, QueueInv, [Next]_vars
  PROVE  QueueInv' /\ ServiceStep
  <1> USE DEF flagVars, workerVars
  <1>1. ASSUME UNCHANGED <<tasks, cur, msgs, lastId, cleared>>,
               wpc' \in Holding <=> wpc \in Holding,
               wpc' \in InChain <=> wpc \in InChain
        PROVE  QueueInv' /\ ServiceStep
    <2>1. Current' = Current
      BY <1>1 DEF Current
    <2> QED BY <1>1, <2>1, QuietStep, Stutter
  <1>2. ASSUME NEW c \in Clients, Client(c) PROVE QueueInv' /\ ServiceStep
    <2>1. CASE AppendTask(c)
      <3>1. QueueInv' /\ Behind' = Append(Behind, lastId + 1)
        BY <2>1, AppendStep
      <3>2. Service!Submit
        BY <2>1, <3>1 DEF AppendTask, Service!Submit, Current
      <3> QED BY <3>1, <3>2 DEF ServiceStep, Service!Next
    <2>2. CASE StartCheck(c)
      BY <1>1, <2>2 DEF StartCheck
    <2>3. CASE StartGo(c)
      BY <1>1, <2>3 DEF StartGo, Notify, Holding, InChain
    <2>4. CASE StopFlag(c)
      BY <1>1, <2>4 DEF StopFlag
    <2>5. CASE StopClear(c)
      <3>1. QueueInv' /\ Behind' = <<>>
        BY <2>5, ClearStep
      <3>2. Current' = Current /\ lastId' = lastId
        BY <2>5 DEF StopClear, Current
      <3>3. Behind # <<>> => Service!Discard
        BY <3>1, <3>2 DEF Service!Discard
      <3> QED BY <3>1, <3>2, <3>3, Stutter DEF ServiceStep, Service!Next
    <2>6. CASE ConnectCall(c)
      BY <1>1, <2>6 DEF ConnectCall
    <2>7. CASE ConnectRefuse(c)
      BY <1>1, <2>7 DEF ConnectRefuse
    <2>8. CASE ConnectBegin(c)
      BY <1>1, <2>8 DEF ConnectBegin
    <2>9. CASE ConnectEnd(c)
      BY <1>1, <2>9 DEF ConnectEnd
    <2> QED
      BY <1>2, <2>1, <2>2, <2>3, <2>4, <2>5, <2>6, <2>7, <2>8, <2>9 DEF Client
  <1>3. CASE Worker
    <2> USE DEF Holding, InChain
    <2>1. CASE WorkerExit
      BY <1>1, <2>1 DEF WorkerExit
    <2>2. CASE WorkerPark
      BY <1>1, <2>2 DEF WorkerPark
    <2>3. CASE WorkerTake
      <3>1. /\ QueueInv'
            /\ Behind # <<>> /\ cur' = Head(Behind) /\ Behind' = Tail(Behind)
        BY <2>3, TakeStep
      <3>2. Current = 0 /\ Current' = cur' /\ lastId' = lastId
        BY <2>3 DEF WorkerTake, Current
      <3>3. Service!Begin
        BY <3>1, <3>2 DEF Service!Begin
      <3> QED BY <3>1, <3>3 DEF ServiceStep, Service!Next
    <2>4. CASE ChainStart
      <3>1. cur \in TaskIds /\ Report(cur, "Start")
        BY <2>4 DEF ChainStart, TypeOK
      <3>2. QueueInv' /\ Behind' = Behind
        BY <2>4, <3>1, ReportStep DEF ChainStart, ChainMsgs
      <3>3. Current' = Current /\ lastId' = lastId
        BY <2>4 DEF ChainStart, Current
      <3> QED BY <3>2, <3>3, Stutter
    <2>5. CASE TaskStep
      BY <1>1, <2>5 DEF TaskStep
    <2>6. ASSUME NEW r \in BOOLEAN, TaskReturn(r) PROVE QueueInv' /\ ServiceStep
      BY <1>1, <2>6 DEF TaskReturn
    <2>7. CASE PopFront
      <3>1. /\ QueueInv'
            /\ \/ Behind' = Behind
               \/ Behind # <<>> /\ Behind' = Tail(Behind)
        BY <2>7, PopStep
      <3>2. Current' = Current /\ lastId' = lastId
        BY <2>7 DEF PopFront, Current
      <3>3. CASE Behind # <<>> /\ Behind' = Tail(Behind)
        BY <3>1, <3>2, <3>3 DEF Service!Discard, ServiceStep, Service!Next
      <3> QED BY <3>1, <3>2, <3>3, Stutter
    <2>8. CASE ChainEnd
      <3>1. cur \in TaskIds /\ Report(cur, EndMessage) /\ EndMessage \in ChainMsgs
        BY <2>8 DEF ChainEnd, TypeOK, EndMessage, ChainMsgs
      <3>2. QueueInv' /\ Behind' = Behind
        BY <2>8, <3>1, ReportStep DEF ChainEnd
      <3>3. Current = cur /\ cur # 0 /\ Current' = 0 /\ lastId' = lastId
        BY <2>8, <3>1 DEF ChainEnd, Current, TaskIds
      <3>4. Service!End
        BY <3>2, <3>3 DEF Service!End
      <3> QED BY <3>2, <3>4 DEF ServiceStep, Service!Next
    <2>9. CASE StopCheck
      BY <1>1, <2>9 DEF StopCheck
    <2>10. CASE AllCheck
      BY <1>1, <2>10 DEF AllCheck
    <2>11. CASE AllCompleted
      <3>1. cur \in TaskIds /\ Report(cur, "AllCompleted")
        BY <2>11 DEF AllCompleted, TypeOK
      <3>2. QueueInv' /\ Behind' = Behind
        BY <2>11, <3>1, ReportStep DEF AllCompleted, ChainMsgs
      <3>3. Current' = Current /\ lastId' = lastId
        BY <2>11 DEF AllCompleted, Current
      <3> QED BY <3>2, <3>3, Stutter
    <2>12. CASE DelayEnd
      <3>1. CASE idle
        <4>1. cur \in TaskIds /\ Report(cur, "Stopped")
          BY <2>12, <3>1 DEF DelayEnd, TypeOK
        <4>2. QueueInv' /\ Behind' = Behind
          BY <2>12, <4>1, ReportStep DEF DelayEnd, ChainMsgs
        <4>3. Current' = Current /\ lastId' = lastId
          BY <2>12 DEF DelayEnd, Current
        <4> QED BY <4>2, <4>3, Stutter
      <3>2. CASE ~idle
        BY <1>1, <2>12, <3>2 DEF DelayEnd
      <3> QED BY <3>1, <3>2
    <2> QED
      BY <1>3, <2>1, <2>2, <2>3, <2>4, <2>5, <2>6, <2>7, <2>8, <2>9, <2>10,
         <2>11, <2>12 DEF Worker
  <1>4. CASE SpuriousWake
    BY <1>1, <1>4 DEF SpuriousWake, Holding, InChain
  <1>5. CASE Destructor
    <2>1. CASE DestroyExit
      BY <1>1, <2>1 DEF DestroyExit
    <2>2. CASE DestroyIdle
      BY <1>1, <2>2 DEF DestroyIdle
    <2>3. CASE DestroyNotify
      BY <1>1, <2>3 DEF DestroyNotify, Notify, Holding, InChain
    <2>4. CASE DestroyJoin
      BY <1>1, <2>4 DEF DestroyJoin
    <2> QED
      BY <1>5, <2>1, <2>2, <2>3, <2>4 DEF Destructor
  <1>6. CASE UNCHANGED vars
    BY <1>1, <1>6 DEF vars
  <1> QED
    BY <1>2, <1>3, <1>4, <1>5, <1>6 DEF Next

LEMMA QueueInvariant == Spec => []QueueInv
  <1>1. TypeOK /\ QueueInv /\ [Next]_vars => QueueInv'
    BY QueueNext
  <1> QED BY <1>1, QueueInit, TypeCorrect, PTL DEF Spec

\* Unless a stop() cleared the list while it ran, the chain that ran is the one
\* pop_front() removes (working_proc).
THEOREM PopTakesRunning == Spec => []FrontIsRunning
  <1>1. QueueInv => FrontIsRunning
    BY DEF QueueInv
  <1> QED BY <1>1, QueueInvariant, PTL

\* No chain that was announced is queued again, and the queue is in append
\* order, whatever starts, stops, appends and connects overlap.
THEOREM QueueAlwaysFresh == Spec => []QueueIsFresh
  <1>1. QueueInv => QueueIsFresh
    BY DEF QueueInv
  <1> QED BY <1>1, QueueInvariant, PTL

\* The instance with all its threads implements the sequential service: one
\* chain at a time, in the order of their ids, each at most once.
THEOREM ImplementsTaskService == Spec => RefinesTaskService
  <1>1. Init => Service!Init
    BY QueueInit
  <1>2. TypeOK /\ QueueInv /\ [Next]_vars => [Service!Next]_(Service!vars)
    BY QueueNext DEF ServiceStep
  <1> QED
    BY <1>1, <1>2, TypeCorrect, QueueInvariant, PTL
    DEF Spec, RefinesTaskService, Service!Spec

(***************************************************************************)
(* The messages of a chain.  Where working_proc is tells how many of them  *)
(* the current chain has; every other chain has a finished log, or none.   *)
(***************************************************************************)
LogOK(m) ==
  /\ Len(m) >= 1 => m[1] = "Start"
  /\ Len(m) >= 2 => m[2] \in Verdicts
  /\ Len(m) >= 3 => m[3] \in {"AllCompleted", "Stopped"}
  /\ Len(m) >= 4 => m[3] = "AllCompleted" /\ m[4] = "Stopped"
  /\ Len(m) <= 4

LogStage ==
  /\ wpc = "begin" => Len(msgs[cur]) = 0
  /\ wpc \in {"run", "pop", "report"} => Len(msgs[cur]) = 1
  /\ wpc \in {"stopcheck", "allcheck", "all"} => Len(msgs[cur]) = 2
  /\ wpc = "delay" => \/ Len(msgs[cur]) = 2
                      \/ Len(msgs[cur]) = 3 /\ msgs[cur][3] = "AllCompleted"

LogInv ==
  /\ LogStage
  /\ \A id \in TaskIds :
       LogOK(msgs[id]) /\ (Len(msgs[id]) = 1 => id = cur /\ wpc \in InChain)

LEMMA LogInit == Init => LogInv
  <1> SUFFICES ASSUME Init PROVE LogInv
    OBVIOUS
  <1>1. \A id \in TaskIds : Len(msgs[id]) = 0
    BY DEF Init
  <1>2. \A id \in TaskIds : LogOK(msgs[id])
    BY <1>1 DEF LogOK
  <1> QED BY <1>1, <1>2 DEF Init, LogInv, LogStage

\* A step that sends nothing and does not take working_proc to another stage.
LEMMA SilentStep ==
  ASSUME LogInv, UNCHANGED <<msgs, cur>>, LogStage',
         wpc \in InChain => wpc' \in InChain
  PROVE  LogInv'
  BY DEF LogInv

\* What one message adds to the logs.
LEMMA ReportLog ==
  ASSUME TypeOK, cur \in TaskIds, NEW m \in ChainMsgs, Report(cur, m)
  PROVE  /\ \A id \in TaskIds \ {cur} : msgs'[id] = msgs[id]
         /\ Len(msgs[cur]) \in Nat
         /\ Len(msgs'[cur]) = Len(msgs[cur]) + 1
         /\ \A k \in 1..Len(msgs[cur]) : msgs'[cur][k] = msgs[cur][k]
         /\ msgs'[cur][Len(msgs[cur]) + 1] = m
  <1>1. msgs[cur] \in Seq(ChainMsgs) /\ msgs'[cur] = Append(msgs[cur], m)
    BY DEF TypeOK, Report
  <1>2. \A id \in TaskIds \ {cur} : msgs'[id] = msgs[id]
    BY DEF TypeOK, Report
  <1> QED BY <1>1, <1>2, AppendProperties, LenProperties

\* A message is sent only where the log of the current chain may get it, and
\* the other chains are not concerned.
LEMMA ReportKeepsLogs ==
  ASSUME TypeOK, LogInv, cur \in TaskIds, cur' = cur, NEW m \in ChainMsgs,
         Report(cur, m), LogOK(msgs'[cur]),
         Len(msgs'[cur]) = 1 => wpc' \in InChain, LogStage'
  PROVE  LogInv'
  BY ReportLog DEF LogInv

LEMMA LogNext == TypeOK /\ QueueInv /\ LogInv /\ [Next]_vars => LogInv'
  <1> SUFFICES ASSUME TypeOK, QueueInv, LogInv, [Next]_vars PROVE LogInv'
    OBVIOUS
  <1> USE DEF flagVars, workerVars, InChain
  <1>t. wpc \notin {"top", "waiting", "done"} => cur \in TaskIds
    BY DEF TypeOK
  <1>s. LogStage
    BY DEF LogInv
  <1>1. ASSUME UNCHANGED <<msgs, cur>>, wpc' = wpc PROVE LogInv'
    BY <1>1, <1>s, SilentStep DEF LogStage
  <1>2. ASSUME NEW c \in Clients, Client(c) PROVE LogInv'
    <2>1. CASE AppendTask(c) \/ StartCheck(c) \/ StopFlag(c) \/ StopClear(c)
      BY <1>1, <2>1 DEF AppendTask, StartCheck, StopFlag, StopClear
    <2>2. CASE ConnectCall(c) \/ ConnectRefuse(c) \/ ConnectBegin(c) \/ ConnectEnd(c)
      BY <1>1, <2>2 DEF ConnectCall, ConnectRefuse, ConnectBegin, ConnectEnd
    <2>3. CASE StartGo(c)
      BY <2>3, <1>s, SilentStep DEF StartGo, Notify, LogStage
    <2> QED BY <1>2, <2>1, <2>2, <2>3 DEF Client
  <1>3. CASE Worker
    <2>1. CASE WorkerExit \/ WorkerPark
      BY <2>1, SilentStep DEF WorkerExit, WorkerPark, LogStage
    <2>2. CASE WorkerTake
      <3>1. /\ Behind # <<>> /\ cur' = Head(Behind) /\ wpc = "top" /\ wpc' = "begin"
            /\ msgs' = msgs
        BY <2>2, TakeStep DEF WorkerTake
      <3>2. cur' = Behind[1] /\ 1 \in DOMAIN Behind
        BY <3>1, BehindType, TailElements
      <3>3. msgs'[cur'] = <<>>
        BY <3>1, <3>2 DEF QueueInv, QueueIsFresh
      <3>4. LogStage'
        BY <3>1, <3>3 DEF LogStage
      <3> QED BY <3>1, <3>4 DEF LogInv
    <2>3. CASE ChainStart
      <3>1. /\ wpc = "begin" /\ wpc' = "run" /\ cur' = cur /\ cur \in TaskIds
            /\ Report(cur, "Start") /\ "Start" \in ChainMsgs
        BY <2>3, <1>t DEF ChainStart, ChainMsgs
      <3>2. Len(msgs[cur]) = 0
        BY <3>1, <1>s DEF LogStage
      <3>3. Len(msgs'[cur]) = 1 /\ msgs'[cur][1] = "Start"
        BY <3>1, <3>2, ReportLog
      <3> QED BY <3>1, <3>3, ReportKeepsLogs DEF LogOK, LogStage
    <2>4. CASE TaskStep
      BY <1>1, <2>4 DEF TaskStep
    <2>5. ASSUME NEW r \in BOOLEAN, TaskReturn(r) PROVE LogInv'
      BY <2>5, <1>s, SilentStep DEF TaskReturn, LogStage
    <2>6. CASE PopFront
      BY <2>6, <1>s, SilentStep DEF PopFront, LogStage
    <2>7. CASE ChainEnd
      <3>1. /\ wpc = "report" /\ wpc' = "stopcheck" /\ cur' = cur /\ cur \in TaskIds
            /\ Report(cur, EndMessage) /\ EndMessage \in ChainMsgs /\ EndMessage \in Verdicts
        BY <2>7, <1>t DEF ChainEnd, ChainMsgs, EndMessage, Verdicts
      <3>2. Len(msgs[cur]) = 1 /\ msgs[cur][1] = "Start"
        BY <3>1, <1>s DEF LogStage, LogInv, LogOK
      <3>3. Len(msgs'[cur]) = 2 /\ msgs'[cur][1] = "Start" /\ msgs'[cur][2] = EndMessage
        BY <3>1, <3>2, ReportLog
      <3> QED BY <3>1, <3>3, ReportKeepsLogs DEF LogOK, LogStage
    <2>8. CASE StopCheck
      BY <2>8, <1>s, SilentStep DEF StopCheck, LogStage
    <2>9. CASE AllCheck
      BY <2>9, <1>s, SilentStep DEF AllCheck, LogStage
    <2>10. CASE AllCompleted
      <3>1. /\ wpc = "all" /\ wpc' = "delay" /\ cur' = cur /\ cur \in TaskIds
            /\ Report(cur, "AllCompleted") /\ "AllCompleted" \in ChainMsgs
        BY <2>10, <1>t DEF AllCompleted, ChainMsgs
      <3>2. Len(msgs[cur]) = 2 /\ msgs[cur][1] = "Start" /\ msgs[cur][2] \in Verdicts
        BY <3>1, <1>s DEF LogStage, LogInv, LogOK
      <3>3. /\ Len(msgs'[cur]) = 3 /\ msgs'[cur][1] = "Start" /\ msgs'[cur][2] \in Verdicts
            /\ msgs'[cur][3] = "AllCompleted"
        BY <3>1, <3>2, ReportLog
      <3> QED BY <3>1, <3>3, ReportKeepsLogs DEF LogOK, LogStage
    <2>11. CASE DelayEnd /\ idle
      <3>1. /\ wpc = "delay" /\ wpc' = "top" /\ cur' = cur /\ cur \in TaskIds
            /\ Report(cur, "Stopped") /\ "Stopped" \in ChainMsgs
        BY <2>11, <1>t DEF DelayEnd, ChainMsgs
      <3>2. /\ msgs[cur][1] = "Start" /\ msgs[cur][2] \in Verdicts
            /\ \/ Len(msgs[cur]) = 2
               \/ Len(msgs[cur]) = 3 /\ msgs[cur][3] = "AllCompleted"
        BY <3>1, <1>s DEF LogStage, LogInv, LogOK
      <3>3. LogOK(msgs'[cur]) /\ Len(msgs'[cur]) # 1
        <4>1. CASE Len(msgs[cur]) = 2
          <5>1. Len(msgs'[cur]) = 3 /\ msgs'[cur][3] = "Stopped"
            BY <3>1, <4>1, ReportLog
          <5>2. msgs'[cur][1] = "Start" /\ msgs'[cur][2] \in Verdicts
            BY <3>1, <3>2, <4>1, ReportLog
          <5> QED BY <5>1, <5>2 DEF LogOK
        <4>2. CASE Len(msgs[cur]) = 3 /\ msgs[cur][3] = "AllCompleted"
          <5>1. Len(msgs'[cur]) = 4 /\ msgs'[cur][4] = "Stopped"
            BY <3>1, <4>2, ReportLog
          <5>2. /\ msgs'[cur][1] = "Start" /\ msgs'[cur][2] \in Verdicts
                /\ msgs'[cur][3] = "AllCompleted"
            BY <3>1, <3>2, <4>2, ReportLog
          <5> QED BY <5>1, <5>2 DEF LogOK
        <4> QED BY <3>2, <4>1, <4>2
      <3> QED BY <3>1, <3>3, ReportKeepsLogs DEF LogStage
    <2>12. CASE DelayEnd /\ ~idle
      BY <2>12, SilentStep DEF DelayEnd, LogStage
    <2> QED
      BY <1>3, <2>1, <2>2, <2>3, <2>4, <2>5, <2>6, <2>7, <2>8, <2>9, <2>10,
         <2>11, <2>12 DEF Worker
  <1>4. CASE SpuriousWake
    BY <1>4, SilentStep DEF SpuriousWake, LogStage
  <1>5. CASE Destructor
    <2>1. CASE DestroyExit \/ DestroyIdle \/ DestroyJoin
      BY <1>1, <2>1 DEF DestroyExit, DestroyIdle, DestroyJoin
    <2>2. CASE DestroyNotify
      BY <2>2, <1>s, SilentStep DEF DestroyNotify, Notify, LogStage
    <2> QED BY <1>5, <2>1, <2>2 DEF Destructor
  <1>6. CASE UNCHANGED vars
    BY <1>1, <1>6 DEF vars
  <1> QED
    BY <1>2, <1>3, <1>4, <1>5, <1>6 DEF Next

\* Every chain has its messages in order, its verdict once, and a chain that was
\* left behind has its verdict (working_proc).
THEOREM ReportsAlwaysWellFormed == Spec => []ReportsWellFormed
  <1>1. LogInv => ReportsWellFormed
    BY DEF LogInv, LogOK, ReportsWellFormed
  <1> QED BY <1>1, LogInit, LogNext, TypeCorrect, QueueInvariant, PTL DEF Spec

(***************************************************************************)
(* The window (Gui).  It drives the instance by calls any client may make, *)
(* so that what was proved of the instance holds under it; and none of     *)
(* them stops a chain.                                                     *)
(***************************************************************************)
\* The view models' RunningState never changes.
StateInv == state = [Container |-> TRUE, Instance |-> state.Instance]

LEMMA SetIdleKeeps ==
  ASSUME StateInv, NEW i, SetIdle(i)
  PROVE  StateInv'
  <1> DEFINE x == state.Instance
  <1> HIDE DEF x
  <1>1. state = [Container |-> TRUE, Instance |-> x]
    BY DEF StateInv, x
  <1>2. state' = [Container |-> TRUE, Instance |-> i]
    BY <1>1 DEF SetIdle
  <1>3. state'.Instance = i
    BY <1>2
  <1> QED BY <1>2, <1>3 DEF StateInv

LEMMA StateNext == StateInv /\ [GuiNext]_allVars => StateInv'
  <1> SUFFICES ASSUME StateInv, [GuiNext]_allVars PROVE StateInv'
    OBVIOUS
  <1> USE DEF StateInv
  <1>1. CASE UNCHANGED state
    BY <1>1
  <1>2. ASSUME NEW i, SetIdle(i) PROVE StateInv'
    BY <1>2, SetIdleKeeps
  <1>3. CASE Instance \/ MsgGoesOn \/ PoolGoesOn
    <2>1. UNCHANGED state
      BY <1>3 DEF Instance, MsgGoesOn, MsgTake, PostIdle, PoolGoesOn, ProxyInit, ConnectNoHandle,
                  ProxyConnect, ProxyConnected, guiVars
    <2> QED BY <1>1, <2>1
  <1>4. CASE UIGoesOn
    <2>1. UNCHANGED state \/ SetIdle(TRUE) \/ SetIdle(FALSE)
      BY <1>4 DEF UIGoesOn, AddLog, RunPosted, Resume, UIAppend, UIStart, UIStarted, Destroying,
                  Destroyed, guiVars
    <2> QED BY <1>1, <1>2, <2>1
  <1>5. CASE LinkStart \/ ConnectTest \/ Close
    <2>1. UNCHANGED state
      BY <1>5 DEF LinkStart, ConnectTest, Close
    <2> QED BY <1>1, <2>1
  <1>6. CASE LinkStop
    <2>1. UNCHANGED state
      BY <1>6 DEF LinkStop, Idle
    <2> QED BY <1>1, <2>1
  <1>7. CASE UNCHANGED allVars
    <2>1. UNCHANGED state
      BY <1>7 DEF allVars, guiVars
    <2> QED BY <1>1, <2>1
  <1> QED BY <1>3, <1>4, <1>5, <1>6, <1>7 DEF GuiNext

LEMMA StateInvariant == GuiSpec => []StateInv
  <1>1. GuiInit => StateInv
    BY DEF GuiInit, StateInv
  <1> QED BY <1>1, StateNext, PTL DEF GuiSpec

\* What a step of the window is to the instance: one of the working thread, one of
\* the destructor, or one of the few calls its two threads make.
WindowStep ==
  \/ Worker \/ SpuriousWake \/ Destructor
  \/ AppendTask(UI) \/ StartCheck(UI) \/ StartGo(UI)
  \/ ConnectCall(CallThread) \/ ConnectRefuse(CallThread)
  \/ ConnectBegin(CallThread) \/ ConnectEnd(CallThread)
  \/ UNCHANGED vars

LEMMA StepsOfWindow == StateInv /\ [GuiNext]_allVars => WindowStep
  <1> SUFFICES ASSUME StateInv, [GuiNext]_allVars PROVE WindowStep
    OBVIOUS
  <1>1. CASE UNCHANGED vars
    BY <1>1 DEF WindowStep
  <1>2. CASE Instance
    BY <1>2 DEF Instance, WindowStep
  <1>3. CASE MsgGoesOn
    BY <1>3, <1>1 DEF MsgGoesOn, MsgTake, PostIdle
  <1>4. CASE PoolGoesOn
    <2>1. CASE ProxyInit \/ ConnectNoHandle
      BY <2>1, <1>1 DEF ProxyInit, ConnectNoHandle
    <2>2. CASE ProxyConnect
      BY <2>2 DEF ProxyConnect, WindowStep
    <2>3. ASSUME NEW r \in BOOLEAN, ProxyConnected(r) PROVE WindowStep
      BY <2>3 DEF ProxyConnected, WindowStep
    <2> QED BY <1>4, <2>1, <2>2, <2>3 DEF PoolGoesOn
  <1>5. CASE UIGoesOn
    <2>1. CASE AddLog \/ RunPosted \/ Resume \/ Destroyed
      BY <2>1, <1>1 DEF AddLog, RunPosted, Resume, Destroyed
    <2>2. CASE UIAppend
      <3>1. AppendTask(UI) \/ UNCHANGED vars
        BY <2>2 DEF UIAppend
      <3> QED BY <3>1, <1>1 DEF WindowStep
    <2>3. CASE UIStart
      <3>1. StartCheck(UI) \/ UNCHANGED vars
        BY <2>3 DEF UIStart
      <3> QED BY <3>1, <1>1 DEF WindowStep
    <2>4. CASE UIStarted
      BY <2>4 DEF UIStarted, WindowStep
    <2>5. CASE Destroying
      BY <2>5 DEF Destroying, Destructor, WindowStep
    <2> QED BY <1>5, <2>1, <2>2, <2>3, <2>4, <2>5 DEF UIGoesOn
  <1>6. CASE LinkStart \/ ConnectTest
    BY <1>6, <1>1 DEF LinkStart, ConnectTest
  <1>7. CASE Close
    <2>1. DestroyExit \/ UNCHANGED vars
      BY <1>7 DEF Close
    <2> QED BY <2>1, <1>1 DEF Destructor, WindowStep
  <1>8. CASE LinkStop
    <2>1. UNCHANGED vars
      BY <1>8 DEF LinkStop, Idle, StateInv
    <2> QED BY <2>1, <1>1
  <1>9. CASE UNCHANGED allVars
    <2>1. UNCHANGED vars
      BY <1>9 DEF allVars
    <2> QED BY <2>1, <1>1
  <1> QED BY <1>2, <1>3, <1>4, <1>5, <1>6, <1>7, <1>8, <1>9 DEF GuiNext

LEMMA StepsOfClients == ASSUME Windowed, WindowStep PROVE [Next]_vars
  <1>1. UI \in Clients /\ CallThread \in Clients
    BY DEF Windowed
  <1>2. CASE Worker \/ SpuriousWake \/ Destructor \/ UNCHANGED vars
    BY <1>2 DEF Next
  <1>3. CASE AppendTask(UI) \/ StartCheck(UI) \/ StartGo(UI)
    <2>1. Client(UI)
      BY <1>3 DEF Client
    <2> QED BY <1>1, <2>1 DEF Next
  <1>4. CASE \/ ConnectCall(CallThread) \/ ConnectRefuse(CallThread)
             \/ ConnectBegin(CallThread) \/ ConnectEnd(CallThread)
    <2>1. Client(CallThread)
      BY <1>4 DEF Client
    <2> QED BY <1>1, <2>1 DEF Next
  <1> QED BY <1>2, <1>3, <1>4 DEF WindowStep

\* The window uses the instance as its clients may: whatever is clicked, and however
\* the pool, the posted handlers and the callback come in between, each of its steps
\* is one of the instance or leaves it alone (AsstProxy.cs, TaskQueueViewModel.cs).
THEOREM WindowIsClient == ASSUME Windowed PROVE GuiSpec => Spec
  <1>1. GuiInit => Init
    BY DEF GuiInit
  <1>2. StateInv /\ [GuiNext]_allVars => [Next]_vars
    BY StepsOfWindow, StepsOfClients
  <1> QED BY <1>1, <1>2, StateInvariant, PTL DEF GuiSpec, Spec

\* Until the window closes, working_proc is in a chain or in the delay after one
\* only while the instance is not idle; the pool's connect finds it parked, or on its
\* way there, and keeps m_mutex; and nothing was reported as stopped.
Unstopped == \A id \in TaskIds : \A i \in DOMAIN msgs[id] : msgs[id][i] # "Stopped"
Working == {"begin", "run", "pop", "report", "stopcheck", "allcheck", "all", "delay"}

WindowInv ==
  ~exit => /\ wpc \in Working => ~idle
           /\ cpc[CallThread] = "connecting" => lock = CallThread /\ wpc \notin Working
           /\ Unstopped

LEMMA ReportUnstopped ==
  ASSUME TypeOK, Unstopped, cur \in TaskIds,
         NEW m \in ChainMsgs, m # "Stopped", Report(cur, m)
  PROVE  Unstopped'
  <1> SUFFICES ASSUME NEW id \in TaskIds, NEW i \in DOMAIN msgs'[id]
               PROVE  msgs'[id][i] # "Stopped"
    BY DEF Unstopped
  <1> DEFINE s == msgs[cur]
  <1>1. s \in Seq(ChainMsgs) /\ DOMAIN msgs = TaskIds
    BY DEF TypeOK
  <1>2. CASE id # cur
    <2>1. msgs'[id] = msgs[id]
      BY <1>1, <1>2 DEF Report
    <2> QED BY <2>1 DEF Unstopped
  <1>3. CASE id = cur
    <2>1. msgs'[id] = Append(s, m)
      BY <1>1, <1>3 DEF Report
    <2>2. \A j \in DOMAIN s : s[j] # "Stopped"
      BY DEF Unstopped
    <2> HIDE DEF s
    <2>3. /\ Len(Append(s, m)) = Len(s) + 1
          /\ \A j \in 1..Len(s) : Append(s, m)[j] = s[j]
          /\ Append(s, m)[Len(s) + 1] = m
          /\ Append(s, m) \in Seq(ChainMsgs)
      BY <1>1, AppendProperties
    <2>4. DOMAIN s = 1..Len(s) /\ Len(s) \in Nat
      BY <1>1, LenProperties
    <2>5. i \in 1..(Len(s) + 1)
      BY <2>1, <2>3, LenProperties
    <2>6. CASE i = Len(s) + 1
      BY <2>1, <2>3, <2>6
    <2>7. CASE i \in 1..Len(s)
      BY <2>1, <2>2, <2>3, <2>4, <2>7
    <2> QED BY <2>4, <2>5, <2>6, <2>7
  <1> QED BY <1>2, <1>3

LEMMA WindowInit == Init => WindowInv
  BY DEF Init, WindowInv, Working, Unstopped

LEMMA WindowNext ==
  ASSUME Windowed, TypeOK, FlagsInv, WindowInv, WindowStep
  PROVE  WindowInv'
  <1> SUFFICES ASSUME ~exit' PROVE WindowInv'
    BY DEF WindowInv
  <1>e. ~exit
    BY DEF WindowStep, Worker, WorkerExit, WorkerPark, WorkerTake, ChainStart,
           TaskStep, TaskReturn, PopFront, ChainEnd, StopCheck, AllCheck, AllCompleted,
           DelayEnd, SpuriousWake, Destructor, DestroyExit, DestroyIdle, DestroyNotify,
           DestroyJoin, AppendTask, StartCheck, StartGo, ConnectCall, ConnectRefuse,
           ConnectBegin, ConnectEnd, vars, flagVars
  <1>i. /\ wpc \in Working => ~idle
        /\ cpc[CallThread] = "connecting" => lock = CallThread /\ wpc \notin Working
        /\ Unstopped
    BY <1>e DEF WindowInv
  <1>t. /\ cpc \in [Clients -> ClientPC] /\ CallThread \in Clients /\ UI \in Clients
        /\ UI # CallThread /\ CallThread # Nobody
    BY DEF TypeOK, Windowed
  <1>d. dpc = "alive"
    BY <1>e DEF FlagsInv, ExitFirst
  <1>s. UNCHANGED msgs => Unstopped'
    BY <1>i DEF Unstopped
  <1> HIDE DEF TypeOK, FlagsInv
  <1>1. CASE UNCHANGED vars
    BY <1>1, <1>i, <1>s DEF vars, WindowInv
  <1>2. CASE WorkerExit
    BY <1>2, <1>e DEF WorkerExit
  <1>3. CASE WorkerPark
    BY <1>3, <1>i, <1>s DEF WorkerPark, WindowInv, Working
  <1>4. CASE WorkerTake
    BY <1>4, <1>i, <1>s, <1>t DEF WorkerTake, WindowInv, Working
  <1>5. CASE ChainStart
    <2>1. cur \in TaskIds /\ "Start" \in ChainMsgs /\ Report(cur, "Start")
      BY <1>5 DEF ChainStart, ChainMsgs, TypeOK
    <2>2. Unstopped'
      BY <2>1, <1>i, ReportUnstopped
    <2> QED BY <1>5, <1>i, <2>2 DEF ChainStart, WindowInv, Working, flagVars
  <1>6. CASE TaskStep
    BY <1>6, <1>i, <1>s DEF TaskStep, WindowInv, flagVars, workerVars
  <1>7. ASSUME NEW r \in BOOLEAN, TaskReturn(r) PROVE WindowInv'
    BY <1>7, <1>i, <1>s DEF TaskReturn, WindowInv, Working, flagVars
  <1>8. CASE PopFront
    BY <1>8, <1>i, <1>s DEF PopFront, WindowInv, Working, flagVars
  <1>9. CASE ChainEnd
    <2>1. ~idle /\ cur \in TaskIds /\ Report(cur, EndMessage)
      BY <1>9, <1>i DEF ChainEnd, Working, TypeOK
    <2>2. EndMessage \in ChainMsgs /\ EndMessage # "Stopped"
      BY <2>1 DEF EndMessage, ChainMsgs
    <2>3. Unstopped'
      BY <2>1, <2>2, <1>i, ReportUnstopped
    <2> QED BY <1>9, <1>i, <2>3 DEF ChainEnd, WindowInv, Working, flagVars
  <1>10. CASE StopCheck
    BY <1>10, <1>i, <1>s DEF StopCheck, WindowInv, Working, flagVars
  <1>11. CASE AllCheck
    BY <1>11, <1>i, <1>s DEF AllCheck, WindowInv, Working, flagVars
  <1>12. CASE AllCompleted
    <2>1. cur \in TaskIds /\ "AllCompleted" \in ChainMsgs /\ Report(cur, "AllCompleted")
      BY <1>12 DEF AllCompleted, ChainMsgs, TypeOK
    <2>2. Unstopped'
      BY <2>1, <1>i, ReportUnstopped
    <2> QED BY <1>12, <1>i, <2>2 DEF AllCompleted, WindowInv, Working, flagVars
  <1>13. CASE DelayEnd
    <2>1. UNCHANGED msgs
      BY <1>13, <1>i DEF DelayEnd, Working
    <2> QED BY <1>13, <1>i, <1>s, <2>1 DEF DelayEnd, WindowInv, Working, flagVars
  <1>14. CASE SpuriousWake
    BY <1>14, <1>i, <1>s DEF SpuriousWake, WindowInv, Working, flagVars
  <1>15. CASE Destructor
    BY <1>15, <1>d DEF Destructor, DestroyExit, DestroyIdle, DestroyNotify, DestroyJoin
  <1>16. CASE AppendTask(UI)
    BY <1>16, <1>i, <1>s DEF AppendTask, WindowInv, flagVars, workerVars
  <1>17. CASE StartCheck(UI)
    BY <1>17, <1>i, <1>s, <1>t DEF StartCheck, Goto, WindowInv, flagVars, workerVars
  <1>18. CASE StartGo(UI)
    BY <1>18, <1>i, <1>s, <1>t DEF StartGo, Goto, Notify, WindowInv, Working
  <1>19. CASE ConnectCall(CallThread)
    BY <1>19, <1>i, <1>s, <1>t DEF ConnectCall, Goto, WindowInv, flagVars, workerVars
  <1>20. CASE ConnectRefuse(CallThread)
    BY <1>20, <1>i, <1>s, <1>t DEF ConnectRefuse, Goto, WindowInv, flagVars, workerVars
  <1>21. CASE ConnectBegin(CallThread)
    BY <1>21, <1>i, <1>s, <1>t DEF ConnectBegin, Goto, WindowInv, workerVars
  <1>22. CASE ConnectEnd(CallThread)
    BY <1>22, <1>i, <1>s, <1>t DEF ConnectEnd, Goto, WindowInv, workerVars
  <1> QED
    BY <1>1, <1>2, <1>3, <1>4, <1>5, <1>6, <1>7, <1>8, <1>9, <1>10, <1>11, <1>12,
       <1>13, <1>14, <1>15, <1>16, <1>17, <1>18, <1>19, <1>20, <1>21, <1>22
    DEF WindowStep, Worker

\* No chain is stopped, nor said to be, before the window is closed: AsstConnect is
\* refused under a chain (ctrl_connect) and LinkStop returns at its guard.
THEOREM OnlyCloseStopsAlways == ASSUME Windowed PROVE GuiSpec => []OnlyCloseStops
  <1>1. GuiInit => WindowInv
    BY WindowInit DEF GuiInit
  <1>2. StateInv /\ TypeOK /\ FlagsInv /\ WindowInv /\ [GuiNext]_allVars => WindowInv'
    BY StepsOfWindow, WindowNext
  <1>3. WindowInv => OnlyCloseStops
    BY DEF WindowInv, OnlyCloseStops, Unstopped
  <1> QED
    BY <1>1, <1>2, <1>3, StateInvariant, WindowIsClient, TypeCorrect, FlagsInvariant, PTL
    DEF GuiSpec
=============================================================================
