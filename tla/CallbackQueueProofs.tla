------------------------ MODULE CallbackQueueProofs ------------------------
(***************************************************************************)
(* Proofs about CallbackQueue, for a ring of any size and any number of    *)
(* messages.                                                               *)
(***************************************************************************)
EXTENDS CallbackQueue, SequenceTheorems, TLAPS

USE RingAssumption DEF TaskId, Slots

LEMMA NextSlotIsOther ==
  ASSUME NEW i \in Slots
  PROVE  NextSlot(i) \in Slots /\ NextSlot(i) # i
  <1>1. CASE i = MAX_TASKS - 1
    BY <1>1 DEF NextSlot
  <1>2. CASE i # MAX_TASKS - 1
    <2>1. i + 1 \in 0..(MAX_TASKS - 1)
      BY <1>2
    <2> QED BY <2>1 DEF NextSlot
  <1> QED BY <1>1, <1>2

(***************************************************************************)
(* The inductive invariant.  A task's count is the number of those that    *)
(* hold it: the queue or the worker that popped it, and the shim from the  *)
(* addref to the release of its call.  As the shim makes one call at a     *)
(* time, at most one task is queued, and it is the last one pushed.        *)
(***************************************************************************)
Held == Queued \cup ({work} \ {0})
ShimHolds(t) == t = last /\ spc \in {"wait", "parked", "release"}
InCall == {"addref", "wait", "parked"}

Counted ==
  /\ \A t \in TaskId :
       refs[t] = (IF t \in Held THEN 1 ELSE 0) + (IF ShimHolds(t) THEN 1 ELSE 0)
  /\ freed = {t \in 1..last : refs[t] = 0}

OneQueued ==
  head # tail =>
    /\ tail = NextSlot(head) /\ ring[head] = last
    /\ spc \in InCall
    /\ ~done[last]
    /\ wpc \notin {"popped", "invoke", "exit"}

WorkerStage ==
  /\ work = 0 <=> wpc \in {"pop", "lock", "parked", "exit"}
  /\ wpc \in {"popped", "invoke"} => work = last /\ spc \in InCall /\ ~done[last]
  /\ wpc = "release" => IF head = tail THEN work = last /\ done[last]
                                       ELSE work = last - 1

Order ==
  /\ DeliveredInOrder
  /\ Len(delivered) = IF head # tail \/ wpc = "popped" THEN last - 1 ELSE last

ShimStage ==
  /\ spc \in InCall \cup {"release"} => last \in TaskId
  /\ stop <=> spc \in {"join", "gone"}
  /\ wpc = "exit" => stop
  /\ spc = "gone" => wpc = "exit"
  /\ spc = "release" => done[last]
  /\ \A t \in TaskId : t > last => ~done[t]

QueueInv == TypeOK /\ Counted /\ OneQueued /\ WorkerStage /\ Order /\ ShimStage

LEMMA QueueInvInit == Init => QueueInv
  <1> SUFFICES ASSUME Init PROVE QueueInv
    OBVIOUS
  <1>1. <<>> \in Seq(1..MaxMsgs) /\ Len(delivered) = 0 /\ DOMAIN delivered = {}
    BY DEF Init
  <1>2. TypeOK
    <2>1. 0 \in 0..(MAX_TASKS - 1) /\ 0 \in 0..MaxMsgs
      OBVIOUS
    <2>2. delivered \in Seq(1..MaxMsgs)
      BY <1>1 DEF Init
    <2>3. ring \in [Slots -> {0} \cup TaskId] /\ refs \in [TaskId -> 0..2]
          /\ done \in [TaskId -> BOOLEAN]
      BY DEF Init
    <2>4. spc \in ShimPC /\ wpc \in WorkerPC
      BY DEF Init, ShimPC, WorkerPC
    <2> QED BY <2>1, <2>2, <2>3, <2>4 DEF Init, TypeOK
  <1>3. Counted
    BY DEF Init, Counted, Held, Queued, ShimHolds
  <1> QED
    BY <1>1, <1>2, <1>3
    DEF Init, QueueInv, OneQueued, WorkerStage, Order, DeliveredInOrder, ShimStage, InCall

\* A step that leaves the counts and who holds which task alone.
LEMMA SameHolders ==
  ASSUME Counted, Held' = Held, UNCHANGED <<refs, freed, last>>,
         \A t \in TaskId : ShimHolds(t)' = ShimHolds(t)
  PROVE  Counted'
  BY DEF Counted

LEMMA PushStep ==
  ASSUME QueueInv, NEW final \in BOOLEAN, Push(final)
  PROVE  QueueInv'
  <1> DEFINE n == last + 1
  <1> USE DEF queueVars, taskVars, shimVars, workVars
  <1>1. /\ n \in TaskId /\ last' = n /\ spc = "idle" /\ spc' = "addref"
        /\ refs' = [refs EXCEPT ![n] = 1] /\ ring' = [ring EXCEPT ![tail] = n]
        /\ tail' = NextSlot(tail) /\ destroying' = final
        /\ wpc' \in {wpc, "lock"} /\ (wpc' # wpc => wpc = "parked")
        /\ UNCHANGED <<head, stop, stranded, done, freed, undefined, work, delivered>>
    BY DEF Push, QueueInv, TypeOK, WakeWorker
  <1>2. head = tail /\ wpc \notin {"popped", "invoke", "exit"} /\ ~stop
    BY <1>1 DEF QueueInv, OneQueued, WorkerStage, ShimStage, InCall
  <1>3. head' # tail' /\ tail' \in Slots /\ ring'[head'] = n
    BY <1>1, <1>2, NextSlotIsOther DEF QueueInv, TypeOK
  <1>4. Held' = Held \cup {n} /\ n \notin Held
    <2>1. Queued = {} /\ Queued' = {n}
      BY <1>1, <1>2, <1>3 DEF Queued
    <2>2. work # n
      BY <1>1, <1>2 DEF QueueInv, WorkerStage, TypeOK, WorkerPC
    <2> QED BY <1>1, <2>1, <2>2 DEF Held
  <1>5. TypeOK'
    BY <1>1, <1>3 DEF QueueInv, TypeOK, ShimPC, WorkerPC
  <1>6. Counted'
    <2>1. \A t \in TaskId : ~ShimHolds(t) /\ ~ShimHolds(t)'
      BY <1>1 DEF ShimHolds
    <2>2. \A t \in TaskId : refs'[t] = IF t \in Held' THEN 1 ELSE 0
      BY <1>1, <1>4, <2>1 DEF QueueInv, Counted, TypeOK
    <2>3. freed' = {t \in 1..n : refs'[t] = 0}
      <3>1. \A t \in 1..last : refs'[t] = refs[t]
        BY <1>1 DEF QueueInv, TypeOK
      <3>2. refs'[n] = 1 /\ 1..n = (1..last) \cup {n}
        BY <1>1 DEF QueueInv, TypeOK
      <3> QED BY <1>1, <3>1, <3>2 DEF QueueInv, Counted
    <2> QED BY <1>1, <2>1, <2>2, <2>3 DEF Counted
  <1>7. OneQueued'
    BY <1>1, <1>2, <1>3 DEF QueueInv, OneQueued, ShimStage, InCall, TypeOK
  <1>8. WorkerStage'
    BY <1>1, <1>2, <1>3 DEF QueueInv, WorkerStage, TypeOK, WorkerPC
  <1>9. Order'
    BY <1>1, <1>2, <1>3 DEF QueueInv, Order, DeliveredInOrder, TypeOK
  <1>10. ShimStage'
    BY <1>1, <1>2 DEF QueueInv, ShimStage, InCall, TypeOK
  <1> QED BY <1>5, <1>6, <1>7, <1>8, <1>9, <1>10 DEF QueueInv

LEMMA ShimStep ==
  ASSUME QueueInv,
         QueueInit \/ PushAddref \/ PushAddrefFreed \/ TaskWait \/ FreeStop \/ FreeJoin
  PROVE  QueueInv'
  <1> USE DEF QueueInv, queueVars, taskVars, shimVars, workVars
  <1>h. UNCHANGED <<ring, head, tail, work>> => Held' = Held
    BY DEF Held, Queued
  <1>1. CASE QueueInit
    <2>1. TypeOK'
      BY <1>1 DEF QueueInit, TypeOK, ShimPC
    <2>2. Counted'
      BY <1>1, <1>h, SameHolders DEF QueueInit, ShimHolds
    <2> QED
      BY <1>1, <2>1, <2>2
      DEF QueueInit, OneQueued, WorkerStage, Order, DeliveredInOrder, ShimStage, InCall
  <1>2. CASE PushAddref
    <2>1. /\ last \in TaskId /\ last \notin freed /\ refs' = [refs EXCEPT ![last] = @ + 1]
          /\ spc = "addref" /\ spc' = "wait" /\ Held' = Held
          /\ UNCHANGED <<queueVars, done, freed, undefined, last, destroying, workVars>>
      BY <1>2, <1>h DEF PushAddref, ShimStage, InCall
    <2>2. refs[last] = 1 /\ last \in Held
      BY <2>1 DEF Counted, ShimHolds, TypeOK
    <2>3. refs' \in [TaskId -> 0..2] /\ refs'[last] = 2
          /\ \A t \in TaskId \ {last} : refs'[t] = refs[t]
      BY <2>1, <2>2 DEF TypeOK
    <2>4. TypeOK'
      BY <2>1, <2>3 DEF TypeOK, ShimPC
    <2>5. Counted'
      <3>1. \A t \in TaskId : ~ShimHolds(t) /\ (ShimHolds(t)' <=> t = last)
        BY <2>1 DEF ShimHolds
      <3>2. \A t \in TaskId :
              refs'[t] = (IF t \in Held' THEN 1 ELSE 0) + (IF ShimHolds(t)' THEN 1 ELSE 0)
        BY <2>1, <2>2, <2>3, <3>1 DEF Counted
      <3>3. \A t \in 1..last : refs'[t] = 0 <=> refs[t] = 0
        BY <2>2, <2>3 DEF TypeOK
      <3> QED BY <2>1, <3>2, <3>3 DEF Counted
    <2> QED
      BY <2>1, <2>4, <2>5
      DEF OneQueued, WorkerStage, Order, DeliveredInOrder, ShimStage, InCall
  <1>3. CASE PushAddrefFreed
    <2>1. spc = "addref" /\ spc' \in {"free", "idle", "lost"} /\ last \in freed /\ Held' = Held
          /\ UNCHANGED <<queueVars, refs, done, freed, last, destroying, workVars>>
      BY <1>3, <1>h DEF PushAddrefFreed
    <2>2. head = tail /\ wpc \notin {"popped", "invoke"}
      <3>1. last \in TaskId /\ last \notin Held
        BY <2>1 DEF Counted, ShimStage, InCall
      <3> QED BY <3>1 DEF Held, Queued, OneQueued, WorkerStage
    <2>3. TypeOK'
      BY <1>3, <2>1 DEF PushAddrefFreed, TypeOK, ShimPC
    <2>4. Counted'
      BY <2>1, SameHolders DEF ShimHolds
    <2> QED
      BY <2>1, <2>2, <2>3, <2>4
      DEF OneQueued, WorkerStage, Order, DeliveredInOrder, ShimStage, InCall
  <1>4. CASE TaskWait
    <2>1. spc \in {"wait", "parked"} /\ spc' = (IF done[last] THEN "release" ELSE "parked")
          /\ wpc # "invoke" /\ Held' = Held
          /\ UNCHANGED <<queueVars, taskVars, last, destroying, workVars>>
      BY <1>4, <1>h DEF TaskWait
    <2>2. TypeOK'
      BY <2>1 DEF TypeOK, ShimPC
    <2>3. Counted'
      BY <2>1, SameHolders DEF ShimHolds
    <2> QED
      BY <2>1, <2>2, <2>3
      DEF OneQueued, WorkerStage, Order, DeliveredInOrder, ShimStage, InCall
  <1>5. CASE FreeStop
    <2>1. /\ spc = "free" /\ spc' = "join" /\ stop' = TRUE /\ Held' = Held
          /\ wpc' \in {wpc, "lock"} /\ (wpc' # wpc => wpc = "parked")
          /\ UNCHANGED <<ring, head, tail, stranded, taskVars, last, destroying, work, delivered>>
      BY <1>5, <1>h DEF FreeStop, WakeWorker
    <2>2. TypeOK'
      BY <2>1 DEF TypeOK, ShimPC, WorkerPC
    <2>3. Counted'
      BY <2>1, SameHolders DEF ShimHolds
    <2> QED
      BY <2>1, <2>2, <2>3
      DEF OneQueued, WorkerStage, Order, DeliveredInOrder, ShimStage, InCall
  <1>6. CASE FreeJoin
    <2>1. spc = "join" /\ spc' = "gone" /\ wpc = "exit" /\ Held' = Held
          /\ UNCHANGED <<queueVars, taskVars, last, destroying, workVars>>
      BY <1>6, <1>h DEF FreeJoin
    <2>2. TypeOK'
      BY <2>1 DEF TypeOK, ShimPC
    <2>3. Counted'
      BY <2>1, SameHolders DEF ShimHolds
    <2> QED
      BY <2>1, <2>2, <2>3
      DEF OneQueued, WorkerStage, Order, DeliveredInOrder, ShimStage, InCall
  <1> QED BY <1>1, <1>2, <1>3, <1>4, <1>5, <1>6

\* Giving up one reference keeps the counts right if it is the holder that goes.
LEMMA ReleaseCounts ==
  ASSUME QueueInv, NEW t \in 1..last, TaskRelease(t), last' = last,
         refs[t] \in {1, 2},
         \A u \in TaskId \ {t} : /\ u \in Held' <=> u \in Held
                                 /\ ShimHolds(u)' <=> ShimHolds(u),
         \/ t \in Held /\ t \notin Held' /\ (ShimHolds(t)' <=> ShimHolds(t))
         \/ ShimHolds(t) /\ ~ShimHolds(t)' /\ (t \in Held' <=> t \in Held)
  PROVE  Counted' /\ refs' \in [TaskId -> 0..2] /\ freed' \subseteq TaskId
  <1> USE DEF QueueInv, TypeOK
  <1>1. t \in TaskId /\ refs'[t] = refs[t] - 1 /\ refs' \in [TaskId -> 0..2]
        /\ \A u \in TaskId \ {t} : refs'[u] = refs[u]
    BY DEF TaskRelease
  <1>2. ASSUME NEW u \in TaskId
        PROVE  refs'[u] = (IF u \in Held' THEN 1 ELSE 0) + (IF ShimHolds(u)' THEN 1 ELSE 0)
    <2>1. refs[u] = (IF u \in Held THEN 1 ELSE 0) + (IF ShimHolds(u) THEN 1 ELSE 0)
      BY DEF Counted
    <2>2. CASE u # t
      BY <1>1, <2>1, <2>2
    <2>3. CASE u = t
      BY <1>1, <2>1, <2>3
    <2> QED BY <2>2, <2>3
  <1>3. freed' = {u \in 1..last : refs'[u] = 0}
    <2>1. t \notin freed
      BY DEF Counted
    <2>2. \A u \in 1..last \ {t} : refs'[u] = 0 <=> u \in freed
      BY <1>1 DEF Counted
    <2>3. refs'[t] = 0 <=> refs[t] = 1
      BY <1>1
    <2>4. freed \subseteq 1..last
      BY DEF Counted
    <2> QED BY <2>1, <2>2, <2>3, <2>4 DEF TaskRelease
  <1> QED BY <1>1, <1>2, <1>3 DEF Counted

LEMMA ShimReleaseStep ==
  ASSUME QueueInv, ShimRelease
  PROVE  QueueInv'
  <1> USE DEF QueueInv, queueVars, taskVars, shimVars, workVars
  <1>1. /\ spc = "release" /\ spc' \in {"free", "idle"} /\ TaskRelease(last)
        /\ UNCHANGED <<queueVars, done, undefined, last, destroying, workVars>>
        /\ last \in TaskId /\ last \in 1..last /\ done[last]
    BY DEF ShimRelease, ShimStage, TypeOK
  <1>2. Held' = Held
    BY <1>1 DEF Held, Queued
  <1>3. \A t \in TaskId : (ShimHolds(t) <=> t = last) /\ ~ShimHolds(t)'
    BY <1>1 DEF ShimHolds
  <1>4. refs[last] \in {1, 2}
    BY <1>1, <1>3 DEF Counted
  <1>5. Counted' /\ refs' \in [TaskId -> 0..2] /\ freed' \subseteq TaskId
    BY <1>1, <1>2, <1>3, <1>4, ReleaseCounts
  <1>6. TypeOK'
    BY <1>1, <1>5 DEF TypeOK, ShimPC
  <1> QED
    BY <1>1, <1>5, <1>6
    DEF OneQueued, WorkerStage, Order, DeliveredInOrder, ShimStage, InCall

LEMMA PopStep ==
  ASSUME QueueInv, PopCheck \/ PopWait \/ PopStopped \/ SpuriousWake
  PROVE  QueueInv'
  <1> USE DEF QueueInv, queueVars, taskVars, shimVars, workVars
  <1>1. /\ wpc \in {"pop", "lock", "parked"} /\ wpc' \in {"lock", "parked", "exit"}
        /\ wpc' = "exit" => stop
        /\ UNCHANGED <<queueVars, taskVars, shimVars, work, delivered>>
    BY DEF PopCheck, PopWait, PopStopped, SpuriousWake
  <1>2. Held' = Held
    BY <1>1 DEF Held, Queued
  <1>3. TypeOK'
    BY <1>1 DEF TypeOK, WorkerPC
  <1>4. Counted'
    BY <1>1, <1>2, SameHolders DEF ShimHolds
  <1> QED
    BY <1>1, <1>3, <1>4
    DEF OneQueued, WorkerStage, Order, DeliveredInOrder, ShimStage, InCall

\* What the worker pops is the last task pushed, and the ring is empty again.
LEMMA TakeStep ==
  ASSUME QueueInv, PopTake
  PROVE  QueueInv'
  <1> USE DEF QueueInv, queueVars, taskVars, shimVars, workVars
  <1>1. /\ wpc = "lock" /\ wpc' = "popped" /\ head # tail /\ work = 0
        /\ work' = last /\ head' = tail /\ spc \in InCall /\ ~done[last] /\ last \in TaskId
        /\ ring[head] = last
        /\ UNCHANGED <<ring, tail, stop, stranded, taskVars, shimVars, delivered>>
    BY DEF PopTake, OneQueued, WorkerStage, ShimStage
  <1>2. Held' = Held
    BY <1>1 DEF Held, Queued
  <1>3. TypeOK'
    BY <1>1 DEF TypeOK, WorkerPC
  <1>4. Counted'
    BY <1>1, <1>2, SameHolders DEF ShimHolds
  <1> QED
    BY <1>1, <1>3, <1>4
    DEF OneQueued, WorkerStage, Order, DeliveredInOrder, ShimStage, InCall

LEMMA InvokeStep ==
  ASSUME QueueInv, InvokeBegin \/ InvokeEnd
  PROVE  QueueInv'
  <1> USE DEF QueueInv, queueVars, taskVars, shimVars, workVars
  <1>0. /\ wpc \in {"popped", "invoke"} /\ work = last /\ last \in TaskId /\ spc \in InCall
        /\ head = tail /\ ~stop
    BY DEF InvokeBegin, InvokeEnd, WorkerStage, OneQueued, ShimStage, InCall
  <1>1. CASE InvokeBegin
    <2>1. /\ wpc = "popped" /\ wpc' = "invoke" /\ delivered' = Append(delivered, last)
          /\ UNCHANGED <<queueVars, taskVars, shimVars, work>>
      BY <1>0, <1>1 DEF InvokeBegin
    <2>2. delivered \in Seq(1..MaxMsgs) /\ Len(delivered) = last - 1
      BY <1>0, <2>1 DEF TypeOK, Order
    <2>3. /\ delivered' \in Seq(1..MaxMsgs) /\ Len(delivered') = last
          /\ DOMAIN delivered = 1..(last - 1) /\ DOMAIN delivered' = 1..last
          /\ \A i \in 1..(last - 1) : delivered'[i] = delivered[i]
          /\ delivered'[last] = last
      BY <1>0, <2>1, <2>2, AppendProperties, LenProperties
    <2>4. Order'
      <3>1. ASSUME NEW i \in DOMAIN delivered' PROVE delivered'[i] = i
        <4>1. CASE i = last
          BY <2>3, <4>1
        <4>2. CASE i # last
          BY <1>0, <2>3, <4>2 DEF Order, DeliveredInOrder
        <4> QED BY <4>1, <4>2
      <3> QED BY <1>0, <2>1, <2>3, <3>1 DEF Order, DeliveredInOrder
    <2>5. TypeOK'
      BY <2>1, <2>3 DEF TypeOK, WorkerPC
    <2>6. Counted'
      BY <2>1, SameHolders DEF ShimHolds, Held, Queued
    <2> QED
      BY <1>0, <2>1, <2>4, <2>5, <2>6 DEF OneQueued, WorkerStage, ShimStage, InCall
  <1>2. CASE InvokeEnd
    <2>1. /\ wpc = "invoke" /\ wpc' = "release" /\ done' = [done EXCEPT ![last] = TRUE]
          /\ spc' = (IF spc = "parked" THEN "wait" ELSE spc)
          /\ UNCHANGED <<queueVars, refs, freed, undefined, last, destroying, work, delivered>>
      BY <1>0, <1>2 DEF InvokeEnd
    <2>2. done'[last] /\ \A t \in TaskId \ {last} : done'[t] = done[t]
      BY <1>0, <2>1 DEF TypeOK
    <2>3. TypeOK'
      BY <1>0, <2>1 DEF TypeOK, ShimPC, WorkerPC, InCall
    <2>4. Counted'
      BY <2>1, SameHolders DEF ShimHolds, Held, Queued
    <2> QED
      BY <1>0, <2>1, <2>2, <2>3, <2>4
      DEF OneQueued, WorkerStage, Order, DeliveredInOrder, ShimStage, InCall
  <1> QED BY <1>1, <1>2

LEMMA WorkerReleaseStep ==
  ASSUME QueueInv, WorkerRelease
  PROVE  QueueInv'
  <1> USE DEF QueueInv, queueVars, taskVars, shimVars, workVars
  <1>1. /\ wpc = "release" /\ wpc' = "pop" /\ TaskRelease(work) /\ work' = 0
        /\ UNCHANGED <<queueVars, done, undefined, shimVars, delivered>>
        /\ work \in TaskId /\ work \in 1..last
    BY DEF WorkerRelease, WorkerStage, TypeOK
  <1>2. work \in Held /\ Held' = Held \ {work}
    <2>1. work \notin Queued
      BY <1>1 DEF Queued, OneQueued, WorkerStage, TypeOK
    <2> QED BY <1>1, <2>1 DEF Held, Queued
  <1>3. \A t \in TaskId : ShimHolds(t)' <=> ShimHolds(t)
    BY <1>1 DEF ShimHolds
  <1>4. refs[work] \in {1, 2}
    BY <1>1, <1>2 DEF Counted
  <1>5. Counted' /\ refs' \in [TaskId -> 0..2] /\ freed' \subseteq TaskId
    BY <1>1, <1>2, <1>3, <1>4, ReleaseCounts
  <1>6. TypeOK'
    BY <1>1, <1>5 DEF TypeOK, WorkerPC
  <1> QED
    BY <1>1, <1>5, <1>6
    DEF OneQueued, WorkerStage, Order, DeliveredInOrder, ShimStage, InCall

LEMMA QueueInvNext == QueueInv /\ [Next]_vars => QueueInv'
  <1> SUFFICES ASSUME QueueInv, [Next]_vars PROVE QueueInv'
    OBVIOUS
  <1>1. CASE Shim
    BY <1>1, PushStep, ShimStep, ShimReleaseStep DEF Shim
  <1>2. CASE Worker
    BY <1>2, PopStep, TakeStep, InvokeStep, WorkerReleaseStep DEF Worker
  <1>3. CASE SpuriousWake
    BY <1>3, PopStep
  <1>4. CASE UNCHANGED vars
    BY <1>4
    DEF vars, QueueInv, TypeOK, Counted, Held, Queued, ShimHolds, OneQueued,
        WorkerStage, Order, DeliveredInOrder, ShimStage, InCall
  <1> QED BY <1>1, <1>2, <1>3, <1>4 DEF Next

LEMMA QueueInvariant == Spec => []QueueInv
  BY QueueInvInit, QueueInvNext, PTL DEF Spec

\* The variables stay within their types: no count leaves 0..2, no index leaves
\* the ring.
THEOREM QueueTypeCorrect == Spec => []TypeOK
  <1>1. QueueInv => TypeOK
    BY DEF QueueInv
  <1> QED BY <1>1, QueueInvariant, PTL

\* The task the worker pops or works on is allocated, although the shim takes
\* its reference only after the push (task_queue.c).
THEOREM WorkerNeverUsesFreed == Spec => []WorkerTaskAllocated
  <1>1. QueueInv => WorkerTaskAllocated
    <2> SUFFICES ASSUME QueueInv, NEW t \in Held PROVE t \notin freed /\ refs[t] >= 1
      BY DEF WorkerTaskAllocated, Held
    <2>1. t \in TaskId
      BY DEF QueueInv, OneQueued, ShimStage, Held, Queued, TypeOK
    <2> QED BY <2>1 DEF QueueInv, Counted
  <1> QED BY <1>1, QueueInvariant, PTL

\* The Win32 callback gets every message once and in order (maacore.c).
THEOREM CallbackInOrder == Spec => []DeliveredInOrder
  <1>1. QueueInv => DeliveredInOrder
    BY DEF QueueInv, Order
  <1> QED BY <1>1, QueueInvariant, PTL

\* The callback runs only while the shim whose stack it reads is in its call
\* (UnixCallbackShim).
THEOREM InvocationAlwaysOnStack == Spec => []InvocationOnStack
  <1>1. QueueInv => InvocationOnStack
    BY DEF QueueInv, WorkerStage, InvocationOnStack, InCall
  <1> QED BY <1>1, QueueInvariant, PTL

\* When the queue is freed its worker has left it, every message was delivered
\* and every task given back (task_queue_free).
THEOREM QueueFreedLast == Spec => []FreedLast
  <1>1. QueueInv => FreedLast
    <2> SUFFICES ASSUME QueueInv, spc = "gone" PROVE FreedLast
      BY DEF FreedLast
    <2>1. wpc = "exit" /\ work = 0 /\ head = tail /\ Len(delivered) = last
      BY DEF QueueInv, ShimStage, WorkerStage, OneQueued, Order, InCall
    <2>2. Held = {} /\ \A t \in TaskId : ~ShimHolds(t)
      BY <2>1 DEF Held, Queued, ShimHolds
    <2>3. \A t \in 1..last : t \in TaskId /\ refs[t] = 0
      BY <2>2 DEF QueueInv, Counted, TypeOK
    <2> QED BY <2>1, <2>3 DEF QueueInv, Counted, FreedLast
  <1> QED BY <1>1, QueueInvariant, PTL
=============================================================================
