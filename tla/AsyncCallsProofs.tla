--------------------------- MODULE AsyncCallsProofs ---------------------------
(***************************************************************************)
(* Proofs about AsyncCalls, for any set of callers and any number of calls.*)
(***************************************************************************)
EXTENDS AsyncCalls, SequenceTheorems, TLAPS

USE CallsAssumption DEF Ids

\* What is left of a list without its first member.
LEMMA TailMembers ==
  ASSUME NEW S, NEW s \in Seq(S), s # <<>>
  PROVE  /\ Head(s) \in S /\ Tail(s) \in Seq(S)
         /\ 1 \in DOMAIN s /\ Head(s) = s[1]
         /\ \A k \in DOMAIN Tail(s) : /\ k \in Nat \ {0} /\ k + 1 \in DOMAIN s
                                      /\ Tail(s)[k] = s[k + 1]
  <1>1. Len(s) \in Nat \ {0} /\ DOMAIN s = 1..Len(s)
    BY EmptySeq, LenProperties
  <1>2. /\ Head(s) \in S /\ Tail(s) \in Seq(S) /\ Len(Tail(s)) = Len(s) - 1
        /\ \A i \in 1..Len(Tail(s)) : Tail(s)[i] = s[i + 1]
    BY HeadTailProperties
  <1>3. DOMAIN Tail(s) = 1..(Len(s) - 1)
    BY <1>2, LenProperties
  <1> QED BY <1>1, <1>2, <1>3

\* The members of a list that grew at its end are the old ones and the new one.
LEMMA AppendMembers ==
  ASSUME NEW S, NEW s \in Seq(S), NEW x \in S
  PROVE  /\ Append(s, x) \in Seq(S) /\ Append(s, x) # <<>>
         /\ Len(s) \in Nat /\ DOMAIN s = 1..Len(s)
         /\ DOMAIN Append(s, x) = 1..(Len(s) + 1)
         /\ \A k \in DOMAIN s : Append(s, x)[k] = s[k]
         /\ Append(s, x)[Len(s) + 1] = x
  BY AppendProperties, LenProperties

\* Taking the first of t to the end of s leaves the two together as they were.
LEMMA MoveKeepsTogether ==
  ASSUME NEW S, NEW s \in Seq(S), NEW t \in Seq(S), t # <<>>
  PROVE  Append(s, Head(t)) \o Tail(t) = s \o t
  <1> DEFINE u == Append(s, Head(t)) \o Tail(t)
             v == s \o t
  <1>1. Head(t) \in S /\ Tail(t) \in Seq(S) /\ Len(Tail(t)) = Len(t) - 1
    BY HeadTailProperties
  <1>2. Append(s, Head(t)) \in Seq(S) /\ Len(Append(s, Head(t))) = Len(s) + 1
    BY <1>1, AppendProperties
  <1>3. Len(s) \in Nat /\ Len(t) \in Nat \ {0}
    BY LenProperties, EmptySeq
  <1>4. /\ u \in Seq(S) /\ v \in Seq(S)
        /\ Len(u) = Len(s) + Len(t) /\ Len(v) = Len(s) + Len(t)
    BY <1>1, <1>2, <1>3, ConcatProperties
  <1>5. ASSUME NEW i \in 1..Len(u) PROVE u[i] = v[i]
    <2>1. v[i] = IF i <= Len(s) THEN s[i] ELSE t[i - Len(s)]
      BY <1>3, <1>4, ConcatProperties
    <2>2. u[i] = IF i <= Len(s) + 1 THEN Append(s, Head(t))[i]
                                    ELSE Tail(t)[i - (Len(s) + 1)]
      BY <1>1, <1>2, <1>3, <1>4, ConcatProperties
    <2>3. CASE i <= Len(s)
      BY <2>1, <2>2, <2>3, <1>1, <1>3, AppendProperties
    <2>4. CASE i = Len(s) + 1
      <3>1. Append(s, Head(t))[i] = Head(t)
        BY <2>4, <1>1, AppendProperties
      <3> QED BY <3>1, <2>1, <2>2, <2>4, <1>3
    <2>5. CASE i > Len(s) + 1
      <3>1. i - (Len(s) + 1) \in 1..Len(Tail(t))
        BY <2>5, <1>1, <1>3, <1>4
      <3>2. Tail(t)[i - (Len(s) + 1)] = t[i - (Len(s) + 1) + 1]
        BY <3>1, HeadTailProperties
      <3> QED BY <3>2, <2>1, <2>2, <2>5, <1>3
    <2> QED BY <2>3, <2>4, <2>5, <1>3, <1>4
  <1> HIDE DEF u, v
  <1>6. u = v
    BY <1>4, <1>5, SeqEqual
  <1> QED BY <1>6 DEF u, v

\* What is appended to the second of two lists is appended to the two together.
LEMMA AppendTogether ==
  ASSUME NEW S, NEW s \in Seq(S), NEW t \in Seq(S), NEW x \in S
  PROVE  s \o Append(t, x) = Append(s \o t, x)
  <1> DEFINE last == <<x>>
  <1>1. last \in Seq(S)
    OBVIOUS
  <1>2. s \o t \in Seq(S)
    BY ConcatProperties
  <1>3. Append(t, x) = t \o last /\ Append(s \o t, x) = (s \o t) \o last
    BY <1>2, AppendIsConcat
  <1> HIDE DEF last
  <1>4. (s \o t) \o last = s \o (t \o last)
    BY <1>1
  <1> QED BY <1>3, <1>4

\* What a step of one caller makes of the others and of itself.
Call == [pc : CallerPC, id : 0..MaxCalls, block : BOOLEAN]

LEMMA SetPc ==
  ASSUME NEW r \in Call, NEW p \in CallerPC
  PROVE  /\ [r EXCEPT !.pc = p] \in Call
         /\ [r EXCEPT !.pc = p].pc = p /\ [r EXCEPT !.pc = p].id = r.id
  BY DEF Call

LEMMA NotCallingIsCall == NotCalling \in Call /\ NotCalling.pc = "idle"
  BY DEF NotCalling, Call, CallerPC

LEMMA PushedCaller ==
  ASSUME caller \in [Callers -> Call], NEW c \in Callers, AppendPush(c)
  PROVE  /\ caller' \in [Callers -> Call]
         /\ \A d \in Callers \ {c} : caller'[d] = caller[d]
         /\ caller'[c].pc \in {"idle", "checking"}
  <1>1. caller[c] \in Call
    OBVIOUS
  <1>2. caller' = [caller EXCEPT ![c] = IF caller[c].block THEN [caller[c] EXCEPT !.pc = "checking"]
                                        ELSE NotCalling]
    BY DEF AppendPush
  <1>3. [caller[c] EXCEPT !.pc = "checking"] \in Call
        /\ [caller[c] EXCEPT !.pc = "checking"].pc = "checking"
    BY <1>1, SetPc DEF CallerPC
  <1> QED BY <1>2, <1>3, NotCallingIsCall

LEMMA WaitingCaller ==
  ASSUME caller \in [Callers -> Call], NEW c \in Callers,
         WaitReturn(c) \/ WaitPark(c) \/ WaitSpurious(c)
  PROVE  /\ caller' \in [Callers -> Call]
         /\ \A d \in Callers \ {c} : caller'[d] = caller[d]
         /\ caller'[c].pc \in {"idle", "checking", "parked"}
         /\ caller'[c].pc = "parked" => caller'[c].id > completed
  <1>1. CASE WaitReturn(c)
    BY <1>1, NotCallingIsCall DEF WaitReturn
  <1>2. CASE WaitPark(c)
    BY <1>2, SetPc DEF WaitPark, CallerPC
  <1>3. CASE WaitSpurious(c)
    BY <1>3, SetPc DEF WaitSpurious, CallerPC
  <1> QED BY <1>1, <1>2, <1>3

LEMMA PublishedCallers ==
  ASSUME caller \in [Callers -> Call], CallPublish
  PROVE  /\ caller' \in [Callers -> Call]
         /\ \A d \in Callers : /\ caller'[d].pc # "parked"
                               /\ caller[d].pc # "parked" => caller'[d] = caller[d]
                               /\ caller'[d].pc = "numbered" => caller'[d] = caller[d]
  <1>1. \A d \in Callers : [caller[d] EXCEPT !.pc = "checking"] \in Call
                         /\ [caller[d] EXCEPT !.pc = "checking"].pc = "checking"
    BY SetPc DEF CallerPC
  <1> QED BY <1>1 DEF CallPublish, Waiters

(***************************************************************************)
(* Type correctness.                                                       *)
(***************************************************************************)
LEMMA TypeInit == Init => TypeOK
  <1> SUFFICES ASSUME Init PROVE TypeOK
    OBVIOUS
  <1>1. <<>> \in Seq(1..MaxCalls)
    OBVIOUS
  <1>2. caller \in [Callers -> [pc : CallerPC, id : 0..MaxCalls, block : BOOLEAN]]
    BY NotCallingIsCall DEF Init, Call
  <1>3. \A c \in Callers : caller[c].pc = "idle"
    BY NotCallingIsCall DEF Init
  <1>4. 0 \in 0..MaxCalls
    OBVIOUS
  <1> QED BY <1>1, <1>2, <1>3, <1>4 DEF Init, TypeOK, ThreadPC, DestroyPC

LEMMA TypeNext == TypeOK /\ [Next]_vars => TypeOK'
  <1> SUFFICES ASSUME TypeOK, [Next]_vars PROVE TypeOK'
    OBVIOUS
  <1> USE DEF TypeOK, ThreadPC, CallerPC, DestroyPC
  <1>1. ASSUME NEW c \in Callers, AppendNumber(c) PROVE TypeOK'
    BY <1>1 DEF AppendNumber
  <1>2. ASSUME NEW c \in Callers, AppendPush(c) PROVE TypeOK'
    <2>1. callQueue' \in Seq(1..MaxCalls)
      BY <1>2, AppendMembers DEF AppendPush
    <2>2. callLock' = {} \/ \E d \in Callers : callLock' = {d}
      BY <1>2 DEF AppendPush
    <2>3. caller' \in [Callers -> [pc : CallerPC, id : 0..MaxCalls, block : BOOLEAN]]
      BY <1>2, PushedCaller DEF Call
    <2>4. \A d \in Callers : caller'[d].pc = "numbered" => caller'[d].id \in 1..MaxCalls
      BY <1>2, PushedCaller DEF Call
    <2> QED BY <1>2, <2>1, <2>2, <2>3, <2>4 DEF AppendPush, Wake
  <1>3. ASSUME NEW c \in Callers, WaitReturn(c) \/ WaitPark(c) \/ WaitSpurious(c)
        PROVE TypeOK'
    <2>1. caller' \in [Callers -> Call]
          /\ \A d \in Callers : caller'[d].pc = "numbered" => caller'[d].id \in 1..MaxCalls
      BY <1>3, WaitingCaller DEF Call
    <2>2. UNCHANGED <<exit, lastCall, callLock, callQueue, completed, msgQueue,
                      callPc, item, msgPc, delivered, dpc>>
      BY <1>3 DEF WaitReturn, WaitPark, WaitSpurious
    <2> QED BY <2>1, <2>2 DEF Call
  <1>6. CASE OtherInstance
    BY <1>6 DEF OtherInstance
  <1>7. CASE CallTop
    <2>1. CASE callQueue # <<>> /\ callPc' = "busy"
      <3>1. Head(callQueue) \in 1..MaxCalls /\ Tail(callQueue) \in Seq(1..MaxCalls)
        BY <2>1, TailMembers
      <3>2. /\ item' = Head(callQueue) /\ callQueue' = Tail(callQueue)
            /\ UNCHANGED <<exit, lastCall, callLock, completed, msgQueue, msgPc,
                           delivered, caller, dpc>>
        BY <1>7, <2>1 DEF CallTop
      <3>3. item' \in 1..MaxCalls /\ item' \in 0..MaxCalls
        BY <3>1, <3>2
      <3> QED BY <2>1, <3>1, <3>2, <3>3
    <2>2. CASE callPc' # "busy"
      BY <1>7, <2>2 DEF CallTop
    <2> QED BY <1>7, <2>1, <2>2 DEF CallTop
  <1>8. CASE CallExecute
    BY <1>8 DEF CallExecute
  <1>9. CASE CallPublish
    <2>1. caller' \in [Callers -> Call]
          /\ \A d \in Callers : caller'[d].pc = "numbered" => caller'[d].id \in 1..MaxCalls
      BY <1>9, PublishedCallers DEF Call
    <2> QED BY <1>9, <2>1 DEF CallPublish, Call
  <1>10. CASE CallInform
    <2>1. msgQueue' \in Seq(1..MaxCalls)
      BY <1>10, AppendMembers DEF CallInform
    <2> QED BY <1>10, <2>1 DEF CallInform, Wake
  <1>11. CASE MsgTop
    <2>1. CASE msgQueue # <<>> /\ msgPc' = "busy"
      <3>1. Head(msgQueue) \in 1..MaxCalls /\ Tail(msgQueue) \in Seq(1..MaxCalls)
        BY <2>1, TailMembers
      <3>2. Append(delivered, Head(msgQueue)) \in Seq(1..MaxCalls)
        BY <3>1, AppendMembers
      <3> QED BY <1>11, <2>1, <3>1, <3>2 DEF MsgTop
    <2>2. CASE msgPc' # "busy"
      BY <1>11, <2>2 DEF MsgTop
    <2> QED BY <1>11, <2>1, <2>2 DEF MsgTop
  <1>12. CASE MsgReturn
    BY <1>12 DEF MsgReturn
  <1>13. CASE DestroyExit
    BY <1>13 DEF DestroyExit
  <1>14. CASE DestroyNotifyCall \/ DestroyNotifyMsg
    BY <1>14 DEF DestroyNotifyCall, DestroyNotifyMsg, Wake
  <1>15. CASE DestroyJoin
    BY <1>15 DEF DestroyJoin
  <1>16. CASE UNCHANGED vars
    BY <1>16 DEF vars
  <1> QED
    BY <1>1, <1>2, <1>3, <1>6, <1>7, <1>8, <1>9, <1>10, <1>11, <1>12, <1>13,
       <1>14, <1>15, <1>16
    DEF Next, CallBody, CallThread, MsgThread, DestroyBody

\* The variables stay within their types (TypeOK), whatever the callers do.
THEOREM CallsTypeCorrect == Spec => []TypeOK
  BY TypeInit, TypeNext, PTL DEF Spec

(***************************************************************************)
(* Numbers and completion.  A call is right to return when the counter     *)
(* reaches its number because numbers are drawn and queued under one lock: *)
(* the caller that holds it has the newest number of all.                  *)
(***************************************************************************)
Drawn ==
  /\ completed <= lastCall /\ item <= lastCall
  /\ \A k \in DOMAIN callQueue : callQueue[k] <= lastCall

NumberedIsNewest ==
  \A c \in Callers : caller[c].pc = "numbered" =>
    /\ callLock = {c}
    /\ caller[c].id <= lastCall
    /\ caller[c].id > completed /\ caller[c].id > item
    /\ \A k \in DOMAIN callQueue : caller[c].id > callQueue[k]

CallInv == CompletedIsPrefix /\ Drawn /\ NumberedIsNewest

LEMMA CallInvInit == Init => CallInv
  BY DEF Init, CallInv, CompletedIsPrefix, Drawn, NumberedIsNewest, NotCalling

LEMMA CallInvNext == TypeOK /\ CallInv /\ [Next]_vars => CallInv'
  <1> SUFFICES ASSUME TypeOK, CallInv, [Next]_vars PROVE CallInv'
    OBVIOUS
  <1> USE DEF TypeOK, CallInv, CompletedIsPrefix, Drawn, NumberedIsNewest
  <1>t. /\ callQueue \in Seq(1..MaxCalls) /\ Len(callQueue) \in Nat
        /\ DOMAIN callQueue = 1..Len(callQueue)
        /\ \A k \in DOMAIN callQueue : callQueue[k] \in 1..MaxCalls
    BY LenProperties
  <1>1. ASSUME NEW c \in Callers, AppendNumber(c) PROVE CallInv'
    <2>1. \A d \in Callers : caller[d].pc # "numbered"
      BY <1>1 DEF AppendNumber
    <2>2. \A d \in Callers : caller'[d].pc = "numbered" =>
             d = c /\ caller'[d].id = lastCall + 1
      BY <1>1, <2>1 DEF AppendNumber
    <2>3. NumberedIsNewest'
      BY <1>1, <1>t, <2>2 DEF AppendNumber
    <2> QED BY <1>1, <1>t, <2>3 DEF AppendNumber
  <1>2. ASSUME NEW c \in Callers, AppendPush(c) PROVE CallInv'
    <2>1. caller[c].id \in 1..MaxCalls
      BY <1>2 DEF AppendPush
    <2>2. /\ DOMAIN callQueue' = 1..(Len(callQueue) + 1)
          /\ \A k \in DOMAIN callQueue : callQueue'[k] = callQueue[k]
          /\ callQueue'[Len(callQueue) + 1] = caller[c].id
      BY <1>2, <2>1, AppendMembers DEF AppendPush
    <2>3. \A d \in Callers : caller'[d].pc # "numbered"
      <3>1. \A d \in Callers : caller[d].pc = "numbered" => d = c
        BY <1>2 DEF AppendPush
      <3> QED BY <1>2, <3>1, PushedCaller DEF Call
    <2>4. CompletedIsPrefix'
      <3>1. UNCHANGED <<completed, item>> /\ (callPc' \in {"busy", "publish"} => callPc' = callPc)
        BY <1>2 DEF AppendPush, Wake
      <3>2. \A k \in DOMAIN callQueue' : k \in DOMAIN callQueue \/ k = Len(callQueue) + 1
        BY <2>2, <1>t
      <3>3. ASSUME NEW k \in DOMAIN callQueue'
            PROVE  callQueue'[k] > completed /\ (callPc \in {"busy", "publish"} => callQueue'[k] > item)
        BY <3>2, <2>1, <2>2, <1>2, <1>t DEF AppendPush
      <3>4. ASSUME NEW k \in DOMAIN callQueue', NEW l \in DOMAIN callQueue', k < l
            PROVE  callQueue'[k] < callQueue'[l]
        <4>1. k \in DOMAIN callQueue
          BY <3>4, <2>2, <1>t
        <4> QED BY <3>4, <4>1, <3>2, <2>1, <2>2, <1>2, <1>t DEF AppendPush
      <3> QED BY <3>1, <3>3, <3>4
    <2>5. Drawn'
      BY <1>2, <1>t, <2>1, <2>2 DEF AppendPush
    <2> QED BY <2>3, <2>4, <2>5
  <1>3. ASSUME NEW c \in Callers, WaitReturn(c) \/ WaitPark(c) \/ WaitSpurious(c)
        PROVE CallInv'
    <2>1. \A d \in Callers : caller'[d].pc = "numbered" => caller'[d] = caller[d]
      BY <1>3, WaitingCaller DEF Call
    <2>2. UNCHANGED <<lastCall, callLock, callQueue, completed, item, callPc>>
      BY <1>3 DEF WaitReturn, WaitPark, WaitSpurious
    <2> QED BY <2>1, <2>2
  <1>4. CASE OtherInstance
    BY <1>4, <1>t DEF OtherInstance
  <1>5. CASE CallTop
    <2>1. \A c \in Callers : caller'[c].pc # "numbered"
      BY <1>5 DEF CallTop
    <2>2. CASE callQueue # <<>> /\ callPc' = "busy"
      <3>1. item' = callQueue[1] /\ 1 \in DOMAIN callQueue
        BY <1>5, <2>2, TailMembers DEF CallTop
      <3>2. \A k \in DOMAIN callQueue' :
               k \in Nat \ {0} /\ k + 1 \in DOMAIN callQueue /\ callQueue'[k] = callQueue[k + 1]
        BY <1>5, <2>2, TailMembers DEF CallTop
      <3>3. UNCHANGED <<completed, lastCall, callLock>>
        BY <1>5 DEF CallTop
      <3>4. CompletedIsPrefix'
        <4>1. callQueue[1] \in 1..MaxCalls /\ callQueue[1] > completed
          BY <1>t, <3>1
        <4>2. ASSUME NEW k \in DOMAIN callQueue' PROVE callQueue'[k] > completed /\ callQueue'[k] > item'
          <5>1. k \in Nat \ {0} /\ k + 1 \in DOMAIN callQueue /\ callQueue'[k] = callQueue[k + 1]
            BY <3>2
          <5>2. 1 < k + 1
            BY <5>1
          <5>3. callQueue[1] < callQueue[k + 1]
            BY <3>1, <5>1, <5>2
          <5> QED BY <1>t, <3>1, <5>1, <5>3
        <4>3. ASSUME NEW k \in DOMAIN callQueue', NEW l \in DOMAIN callQueue', k < l
              PROVE  callQueue'[k] < callQueue'[l]
          <5>1. /\ k + 1 \in DOMAIN callQueue /\ callQueue'[k] = callQueue[k + 1]
                /\ l + 1 \in DOMAIN callQueue /\ callQueue'[l] = callQueue[l + 1]
                /\ k \in Nat /\ l \in Nat
            BY <3>2
          <5>2. k + 1 < l + 1
            BY <4>3, <5>1
          <5> QED BY <5>1, <5>2
        <4> QED BY <2>2, <3>1, <3>3, <4>1, <4>2, <4>3
      <3>5. Drawn'
        BY <1>t, <3>1, <3>2, <3>3
      <3> QED BY <2>1, <3>4, <3>5
    <2>3. CASE callPc' # "busy"
      BY <1>5, <2>1, <2>3 DEF CallTop
    <2> QED BY <1>5, <2>2, <2>3 DEF CallTop
  <1>6. CASE CallExecute
    BY <1>6 DEF CallExecute
  <1>7. CASE CallPublish
    <2>1. \A d \in Callers : caller'[d].pc = "numbered" => caller'[d] = caller[d]
      BY <1>7, PublishedCallers DEF Call
    <2> QED BY <1>7, <2>1 DEF CallPublish
  <1>8. CASE CallInform
    BY <1>8 DEF CallInform
  <1>9. CASE MsgThread \/ DestroyExit \/ DestroyNotifyMsg \/ DestroyJoin
    BY <1>9 DEF MsgThread, MsgTop, MsgReturn, DestroyExit, DestroyNotifyMsg, DestroyJoin
  <1>10. CASE DestroyNotifyCall
    BY <1>10 DEF DestroyNotifyCall, Wake
  <1>11. CASE UNCHANGED vars
    BY <1>11 DEF vars
  <1> QED
    BY <1>1, <1>2, <1>3, <1>4, <1>5, <1>6, <1>7, <1>8, <1>9, <1>10, <1>11
    DEF Next, CallBody, CallThread, DestroyBody

\* A caller that goes on because the counter has reached its number was executed,
\* and so was everything numbered before it in this instance (CompletedIsPrefix,
\* Assistant.cpp:565), for any number of callers and instances.
THEOREM CompletionByCounter == Spec => []CompletedIsPrefix
  <1>1. CallInv => CompletedIsPrefix
    BY DEF CallInv
  <1> QED BY CallsTypeCorrect, CallInvInit, CallInvNext, <1>1, PTL DEF Spec

(***************************************************************************)
(* Parking.  A thread parks only while ~exit, and the destructor sets the  *)
(* flag before it notifies anyone.                                         *)
(***************************************************************************)
ParkInv == ParkedForAReason /\ (exit <=> dpc # "alive")

LEMMA ParkInvInit == Init => ParkInv
  BY DEF Init, ParkInv, ParkedForAReason, Waiters, NotCalling

LEMMA ParkInvNext == TypeOK /\ ParkInv /\ [Next]_vars => ParkInv'
  <1> SUFFICES ASSUME TypeOK, ParkInv, [Next]_vars PROVE ParkInv'
    OBVIOUS
  <1> USE DEF TypeOK, ParkInv, ParkedForAReason, Waiters
  <1>1. ASSUME NEW c \in Callers,
               AppendNumber(c) \/ AppendPush(c) \/ WaitReturn(c) \/ WaitPark(c) \/ WaitSpurious(c)
        PROVE ParkInv'
    <2>1. \A d \in Callers : caller'[d].pc = "parked" => caller'[d].id > completed
      <3>1. CASE AppendNumber(c)
        BY <3>1 DEF AppendNumber
      <3>2. CASE AppendPush(c)
        BY <3>2, PushedCaller DEF Call
      <3>3. CASE WaitReturn(c) \/ WaitPark(c) \/ WaitSpurious(c)
        BY <3>3, WaitingCaller DEF Call
      <3> QED BY <1>1, <3>1, <3>2, <3>3
    <2>2. callPc' = "parked" => callPc = "parked" /\ callQueue' = callQueue
      BY <1>1 DEF AppendNumber, AppendPush, WaitReturn, WaitPark, WaitSpurious, Wake
    <2>3. UNCHANGED <<exit, dpc, completed, msgPc, msgQueue>>
      BY <1>1 DEF AppendNumber, AppendPush, WaitReturn, WaitPark, WaitSpurious
    <2> QED BY <2>1, <2>2, <2>3
  <1>2. CASE OtherInstance \/ CallExecute \/ MsgReturn
    BY <1>2 DEF OtherInstance, CallExecute, MsgReturn
  <1>3. CASE CallTop
    BY <1>3 DEF CallTop
  <1>4. CASE CallPublish
    <2>1. \A d \in Callers : caller'[d].pc # "parked"
      BY <1>4, PublishedCallers DEF Call
    <2> QED BY <1>4, <2>1 DEF CallPublish
  <1>5. CASE CallInform
    BY <1>5 DEF CallInform, Wake
  <1>6. CASE MsgTop
    BY <1>6 DEF MsgTop
  <1>7. CASE DestroyExit \/ DestroyBody
    BY <1>7 DEF DestroyExit, DestroyBody, DestroyNotifyCall, DestroyNotifyMsg, DestroyJoin,
                DestroyPC, Wake
  <1>8. CASE UNCHANGED vars
    BY <1>8 DEF vars
  <1> QED
    BY <1>1, <1>2, <1>3, <1>4, <1>5, <1>6, <1>7, <1>8
    DEF Next, CallBody, CallThread, MsgThread

\* No thread of the instance sleeps on a condition variable while there is
\* something for it to do (ParkedForAReason; Assistant.cpp 524-687).
THEOREM NobodyParkedInVain == Spec => []ParkedForAReason
  <1>1. ParkInv => ParkedForAReason
    BY DEF ParkInv
  <1> QED BY CallsTypeCorrect, ParkInvInit, ParkInvNext, <1>1, PTL DEF Spec

(***************************************************************************)
(* Messages.  Between the publication of a call and its message nothing    *)
(* that was told is as new as the counter.                                 *)
(***************************************************************************)
ToldInv ==
  /\ InfoInOrder
  /\ callPc = "inform" => item = completed /\ \A k \in DOMAIN Told : Told[k] < completed

LEMMA ToldInvInit == Init => ToldInv
  <1> SUFFICES ASSUME Init PROVE ToldInv
    OBVIOUS
  <1>1. <<>> \in Seq({}) /\ Told = <<>> \o <<>>
    BY DEF Init, Told
  <1>2. Told = <<>> /\ DOMAIN Told = {}
    BY <1>1, ConcatEmptySeq
  <1> QED BY <1>2 DEF Init, ToldInv, InfoInOrder

LEMMA ToldInvNext == TypeOK /\ CallInv /\ ToldInv /\ [Next]_vars => ToldInv'
  <1> SUFFICES ASSUME TypeOK, CallInv, ToldInv, [Next]_vars PROVE ToldInv'
    OBVIOUS
  <1> USE DEF TypeOK, ToldInv, InfoInOrder
  <1>t. /\ Told \in Seq(1..MaxCalls) /\ Len(Told) \in Nat /\ DOMAIN Told = 1..Len(Told)
        /\ \A k \in DOMAIN Told : Told[k] \in 1..MaxCalls
    <2>1. Told \in Seq(1..MaxCalls)
      BY ConcatProperties DEF Told
    <2> QED BY <2>1, LenProperties
  <1>1. CASE CallTop
    <2>1. callPc' # "inform" /\ callPc # "inform" /\ UNCHANGED <<delivered, msgQueue, completed>>
      BY <1>1 DEF CallTop
    <2>2. Told' = Told
      BY <2>1 DEF Told
    <2> QED BY <2>1, <2>2
  <1>2. CASE CallPublish
    <2>1. item > completed /\ completed' = item /\ item' = item /\ callPc' = "inform"
      BY <1>2 DEF CallPublish, CallInv, CompletedIsPrefix
    <2>2. Told' = Told
      BY <1>2 DEF CallPublish, Told
    <2> QED BY <2>1, <2>2, <1>t
  <1>3. CASE CallInform
    <2>1. item \in 1..MaxCalls /\ callPc = "inform" /\ callPc' # "inform" /\ completed' = completed
      BY <1>3 DEF CallInform
    <2>2. Told' = Append(Told, item)
      <3>1. delivered \in Seq(1..MaxCalls) /\ msgQueue \in Seq(1..MaxCalls)
        OBVIOUS
      <3>2. msgQueue' = Append(msgQueue, item) /\ delivered' = delivered
        BY <1>3 DEF CallInform
      <3> QED BY <2>1, <3>1, <3>2, AppendTogether DEF Told
    <2>3. /\ DOMAIN Told' = 1..(Len(Told) + 1)
          /\ \A k \in DOMAIN Told : Told'[k] = Told[k]
          /\ Told'[Len(Told) + 1] = item
      BY <2>1, <2>2, <1>t, AppendMembers
    <2>4. \A k \in DOMAIN Told' : k \in DOMAIN Told \/ k = Len(Told) + 1
      BY <2>3, <1>t
    <2>5. ASSUME NEW k \in DOMAIN Told', NEW l \in DOMAIN Told', k < l
          PROVE  Told'[k] < Told'[l]
      <3>1. k \in DOMAIN Told
        BY <2>3, <2>5, <1>t
      <3> QED BY <2>1, <2>3, <2>4, <2>5, <3>1, <1>t
    <2>6. Len(Told) + 1 \in DOMAIN Told' /\ Told'[Len(Told) + 1] = completed'
      BY <2>1, <2>3, <1>t
    <2>7. \A k \in DOMAIN Told' : Told'[k] <= completed'
      <3>1. ASSUME NEW k \in DOMAIN Told PROVE Told'[k] <= completed'
        <4>1. Told'[k] = Told[k] /\ Told[k] < completed /\ Told[k] \in 1..MaxCalls
          BY <2>1, <2>3, <1>t
        <4> QED BY <4>1, <2>1
      <3> QED BY <3>1, <2>1, <2>4, <2>6
    <2> QED BY <2>1, <2>5, <2>6, <2>7
  <1>4. CASE MsgTop
    <2>1. Told' = Told
      BY <1>4, MoveKeepsTogether DEF MsgTop, Told
    <2> QED BY <1>4, <2>1 DEF MsgTop
  <1>5. ASSUME Told' = Told, UNCHANGED <<completed, item>>,
               (callPc = "inform") = (callPc' = "inform")
        PROVE ToldInv'
    BY <1>5
  <1>6. ASSUME NEW c \in Callers,
               AppendNumber(c) \/ AppendPush(c) \/ WaitReturn(c) \/ WaitPark(c) \/ WaitSpurious(c)
        PROVE ToldInv'
    BY <1>5, <1>6 DEF AppendNumber, AppendPush, WaitReturn, WaitPark, WaitSpurious, Wake, Told
  <1>7. CASE OtherInstance \/ CallExecute \/ MsgReturn
    BY <1>5, <1>7 DEF OtherInstance, CallExecute, MsgReturn, Told
  <1>8. CASE DestroyExit \/ DestroyBody
    BY <1>5, <1>8 DEF DestroyExit, DestroyBody, DestroyNotifyCall, DestroyNotifyMsg,
                      DestroyJoin, Wake, Told
  <1>9. CASE UNCHANGED vars
    BY <1>5, <1>9 DEF vars, Told
  <1> QED
    BY <1>1, <1>2, <1>3, <1>4, <1>6, <1>7, <1>8, <1>9
    DEF Next, CallBody, CallThread, MsgThread

\* AsyncCallInfo is told in the order of the calls, of completed ones only, and of
\* each (InfoInOrder; Assistant.cpp:662).
THEOREM InfoAlwaysInOrder == Spec => []InfoInOrder
  <1>1. ToldInv => InfoInOrder
    BY DEF ToldInv
  <1> QED
    BY CallsTypeCorrect, CallInvInit, CallInvNext, ToldInvInit, ToldInvNext, <1>1, PTL DEF Spec
=============================================================================
