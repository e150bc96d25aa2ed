-------------------------- MODULE ProcessTaskProofs --------------------------
(***************************************************************************)
(* Proofs about ProcessTask, for any task data, any chain and any depth of *)
(* subs.                                                                   *)
(***************************************************************************)
EXTENDS ProcessTask, SequenceTheorems, TLAPS

USE TaskDataAssumption

(***************************************************************************)
(* The inductive invariant.  Every ProcessTask on the stack keeps within   *)
(* its limits; only the innermost one is anywhere but in its subs, and not *)
(* even it while a return value is being passed on.                        *)
(***************************************************************************)
HasHit == {"hit", "preDelay", "act", "postDelay", "sub"}
Counts(r) ==
  \A t \in Limited :
    /\ r.exec[t] <= MaxTimes[t]
    /\ r.pc \in {"preDelay", "act"} /\ r.hit = t => r.exec[t] >= 1
Good ==
  {r \in Frame : Counts(r) /\ (r.pc \in HasHit => r.hit \in Task) /\ r.subIdx # 0}

StackInv ==
  /\ stack \in Seq(Good)
  /\ \A i \in 1..Len(stack) : i < Len(stack) \/ ret # "none" => stack[i].pc = "sub"

PackageInv ==
  /\ stack # <<>> \/ ret # "none" => ppc = "running"
  /\ ppc = "running" => item <= Len(Package)

LateInv ==
  /\ AtMostOneLateAction
  /\ late = 1 => stopping /\ \A i \in 1..Len(stack) : stack[i].pc # "act"

ErrorInv ==
  /\ 1 \in errors => \/ ppc = "running" /\ stack = <<>> /\ ret = "failed"
                     \/ ppc = "done" /\ result = "failed"
  /\ ret = "failed" /\ stack = <<>> => 1 \in errors
  /\ ppc = "done" /\ result = "failed" /\ ~stopping => 1 \in errors

ProcessInv == TypeOK /\ StackInv /\ PackageInv /\ LateInv /\ ErrorInv

\* The innermost ProcessTask, and what is left when it goes.
LEMMA LastFront ==
  ASSUME NEW S, NEW s \in Seq(S), s # <<>>
  PROVE  /\ Len(s) \in Nat \ {0} /\ Last(s) = s[Len(s)] /\ Last(s) \in S
         /\ Front(s) \in Seq(S) /\ Len(Front(s)) = Len(s) - 1
         /\ \A i \in 1..(Len(s) - 1) : Front(s)[i] = s[i]
  <1>1. Len(s) \in Nat \ {0} /\ \A i \in 1..(Len(s) - 1) : s[i] \in S
    BY EmptySeq, ElementOfSeq
  <1>2. Last(s) = s[Len(s)] /\ Last(s) \in S
    BY <1>1 DEF Last
  <1>3. Len(s) - 1 \in Int /\ \A i \in 1..(Len(s) - 1) : s[1 + i - 1] = s[i]
    BY <1>1
  <1> DEFINE q == SubSeq(s, 1, Len(s) - 1)
  <1>4. /\ q \in Seq(S)
        /\ Len(q) = IF 1 <= Len(s) - 1 THEN Len(s) - 1 - 1 + 1 ELSE 0
        /\ \A i \in 1..(Len(s) - 1 - 1 + 1) : q[i] = s[1 + i - 1]
    BY <1>1, <1>3, SubSeqProperties
  <1>5. Front(s) = q
    BY DEF Front
  <1> HIDE DEF q
  <1>6. Len(q) = Len(s) - 1
    <2>1. CASE Len(s) = 1
      BY <1>4, <2>1
    <2>2. CASE Len(s) > 1
      <3>1. 1 <= Len(s) - 1 /\ Len(s) - 1 - 1 + 1 = Len(s) - 1
        BY <1>1, <2>2
      <3> QED BY <1>4, <3>1
    <2>3. Len(s) \in Nat /\ Len(s) # 0
      BY <1>1
    <2>4. Len(s) = 1 \/ Len(s) > 1
      <3>1. \A n \in Nat : n # 0 => n = 1 \/ n > 1
        OBVIOUS
      <3> QED BY <2>3, <3>1
    <2> QED BY <2>1, <2>2, <2>4
  <1>7. \A i \in 1..(Len(s) - 1) : q[i] = s[i]
    <2>1. Len(s) - 1 - 1 + 1 = Len(s) - 1
      BY <1>1
    <2> QED BY <1>3, <1>4, <2>1
  <1> QED BY <1>1, <1>2, <1>4, <1>5, <1>6, <1>7

LEMMA GoodIsFrame == ASSUME NEW s \in Seq(Good) PROVE s \in Seq(Frame)
  <1>1. Good \subseteq Frame
    BY DEF Good
  <1> QED BY <1>1

(***************************************************************************)
(* What the steps make of one ProcessTask.                                 *)
(***************************************************************************)
LEMMA NewIsGood ==
  ASSUME NEW list \in Lists
  PROVE  NewFrame(list) \in Good /\ NewFrame(list).pc = "find"
  BY DEF NewFrame, Good, Frame, ProcessPC, Counts, HasHit

LEMMA SetPc ==
  ASSUME NEW r \in Good, NEW p \in ProcessPC,
         p \in HasHit => r.pc \in HasHit,
         p = "act" => r.pc = "preDelay", p # "preDelay"
  PROVE  [r EXCEPT !.pc = p] \in Good /\ [r EXCEPT !.pc = p].pc = p
  BY DEF Good, Frame, Counts, HasHit

LEMMA SetHit ==
  ASSUME NEW r \in Good, NEW t \in Task
  PROVE  [r EXCEPT !.pc = "hit", !.hit = t] \in Good
         /\ [r EXCEPT !.pc = "hit", !.hit = t].pc = "hit"
  BY DEF Good, Frame, ProcessPC, Counts, HasHit

LEMMA SetRetry ==
  ASSUME NEW r \in Good
  PROVE  [r EXCEPT !.retry = @ + 1] \in Good /\ [r EXCEPT !.retry = @ + 1].pc = r.pc
  <1> DEFINE g == [r EXCEPT !.retry = @ + 1]
  <1>1. r \in Frame /\ Counts(r) /\ (r.pc \in HasHit => r.hit \in Task) /\ r.subIdx # 0
    BY DEF Good
  <1>2. r.retry + 1 \in Nat
    BY <1>1 DEF Frame
  <1>3. g \in Frame
    BY <1>1, <1>2 DEF Frame, ProcessPC
  <1>4. g.pc = r.pc /\ g.hit = r.hit /\ g.exec = r.exec
    BY <1>1, <1>2 DEF Frame
  <1>5. g.subIdx = r.subIdx /\ g.subIdx # 0
    BY <1>1, <1>2 DEF Frame
  <1> HIDE DEF g
  <1>6. Counts(g)
    BY <1>1, <1>2, <1>4 DEF Counts
  <1>7. g \in Good /\ g.pc = r.pc
    BY <1>1, <1>3, <1>4, <1>5, <1>6 DEF Good, HasHit
  <1> QED BY <1>7 DEF g

LEMMA SetNext ==
  ASSUME NEW r \in Good, NEW list \in Lists, NEW t \in Task \cup {None}
  PROVE  [r EXCEPT !.pc = "find", !.list = list, !.cur = t, !.retry = 0] \in Good
         /\ [r EXCEPT !.pc = "find", !.list = list, !.cur = t, !.retry = 0].pc = "find"
  BY DEF Good, Frame, ProcessPC, Counts, HasHit

\* run_task counts the task only when its count is below the limit.
LEMMA SetCounted ==
  ASSUME NEW r \in Good, r.pc = "hit",
         r.hit \in Limited => r.exec[r.hit] < MaxTimes[r.hit]
  PROVE  [r EXCEPT !.pc = "preDelay", !.exec = Count(@, r.hit)] \in Good
         /\ [r EXCEPT !.pc = "preDelay", !.exec = Count(@, r.hit)].pc = "preDelay"
  <1> DEFINE g == [r EXCEPT !.pc = "preDelay", !.exec = Count(@, r.hit)]
  <1>1. r \in Frame /\ Counts(r) /\ (r.pc \in HasHit => r.hit \in Task) /\ r.subIdx # 0
    BY DEF Good
  <1>2. r.exec \in [Limited -> Nat] /\ Count(r.exec, r.hit) \in [Limited -> Nat]
    BY <1>1 DEF Frame, Count
  <1>3. g \in Frame
    BY <1>1, <1>2 DEF Frame, ProcessPC
  <1>4. g.pc = "preDelay" /\ g.hit = r.hit /\ g.exec = Count(r.exec, r.hit)
    BY <1>1, <1>2 DEF Frame
  <1>5. g.subIdx = r.subIdx /\ g.subIdx # 0
    BY <1>1, <1>2 DEF Frame
  <1> HIDE DEF g
  <1>6. Counts(g)
    BY <1>1, <1>2, <1>4 DEF Counts, Count
  <1>7. g \in Good /\ g.pc = "preDelay"
    BY <1>1, <1>3, <1>4, <1>5, <1>6 DEF Good, HasHit
  <1> QED BY <1>7 DEF g

\* reduce_other_times only takes away.
LEMMA SetReduced ==
  ASSUME NEW r \in Good, r.pc = "act"
  PROVE  [r EXCEPT !.pc = "postDelay", !.exec = Reduce(@, r.hit)] \in Good
         /\ [r EXCEPT !.pc = "postDelay", !.exec = Reduce(@, r.hit)].pc = "postDelay"
  <1> DEFINE g == [r EXCEPT !.pc = "postDelay", !.exec = Reduce(@, r.hit)]
  <1>1. r \in Frame /\ Counts(r) /\ (r.pc \in HasHit => r.hit \in Task) /\ r.subIdx # 0
    BY DEF Good
  <1>2. r.exec \in [Limited -> Nat] /\ Reduce(r.exec, r.hit) \in [Limited -> Nat]
    BY <1>1 DEF Frame, Reduce
  <1>3. g \in Frame
    BY <1>1, <1>2 DEF Frame, ProcessPC
  <1>4. g.pc = "postDelay" /\ g.hit = r.hit /\ g.exec = Reduce(r.exec, r.hit)
    BY <1>1, <1>2 DEF Frame
  <1>5. g.subIdx = r.subIdx /\ g.subIdx # 0
    BY <1>1, <1>2 DEF Frame
  <1> HIDE DEF g
  <1>6. Counts(g)
    BY <1>1, <1>2, <1>4 DEF Counts, Reduce
  <1>7. g \in Good /\ g.pc = "postDelay"
    BY <1>1, <1>3, <1>4, <1>5, <1>6 DEF Good, HasHit
  <1> QED BY <1>7 DEF g

LEMMA SetSub ==
  ASSUME NEW r \in Good, r.pc \in HasHit
  PROVE  [r EXCEPT !.pc = "sub", !.subIdx = 1] \in Good
         /\ [r EXCEPT !.pc = "sub", !.subIdx = 1].pc = "sub"
  <1> DEFINE g == [r EXCEPT !.pc = "sub", !.subIdx = 1]
  <1>1. r \in Frame /\ Counts(r) /\ (r.pc \in HasHit => r.hit \in Task) /\ r.subIdx # 0
    BY DEF Good
  <1>2. r.exec \in [Limited -> Nat]
    BY <1>1 DEF Frame
  <1>3. g \in Frame
    BY <1>1, <1>2 DEF Frame, ProcessPC
  <1>4. g.pc = "sub" /\ g.hit = r.hit /\ g.exec = r.exec
    BY <1>1, <1>2 DEF Frame
  <1>5. g.subIdx = 1 /\ g.subIdx # 0
    BY <1>1, <1>2 DEF Frame
  <1> HIDE DEF g
  <1>6. Counts(g)
    BY <1>1, <1>2, <1>4 DEF Counts
  <1>7. g \in Good /\ g.pc = "sub"
    BY <1>1, <1>3, <1>4, <1>5, <1>6 DEF Good, HasHit
  <1> QED BY <1>7 DEF g

LEMMA SetSubIdx ==
  ASSUME NEW r \in Good
  PROVE  [r EXCEPT !.subIdx = @ + 1] \in Good /\ [r EXCEPT !.subIdx = @ + 1].pc = r.pc
  <1> DEFINE g == [r EXCEPT !.subIdx = @ + 1]
  <1>1. r \in Frame /\ Counts(r) /\ (r.pc \in HasHit => r.hit \in Task) /\ r.subIdx # 0
    BY DEF Good
  <1>2. r.subIdx + 1 \in Nat \ {0}
    BY <1>1 DEF Frame
  <1>3. g \in Frame
    BY <1>1, <1>2 DEF Frame, ProcessPC
  <1>4. g.pc = r.pc /\ g.hit = r.hit /\ g.exec = r.exec
    BY <1>1, <1>2 DEF Frame
  <1>5. g.subIdx = r.subIdx + 1 /\ g.subIdx # 0
    BY <1>1, <1>2 DEF Frame
  <1> HIDE DEF g
  <1>6. Counts(g)
    BY <1>1, <1>2, <1>4 DEF Counts
  <1>7. g \in Good /\ g.pc = r.pc
    BY <1>1, <1>3, <1>4, <1>5, <1>6 DEF Good, HasHit
  <1> QED BY <1>7 DEF g

(***************************************************************************)
(* What the steps make of the stack.                                       *)
(***************************************************************************)
LEMMA Innermost ==
  ASSUME ProcessInv, stack # <<>>
  PROVE  /\ f \in Good /\ f \in Frame /\ Len(stack) \in Nat \ {0} /\ f = stack[Len(stack)]
         /\ ppc = "running" /\ 1 \notin errors
         /\ Front(stack) \in Seq(Good) /\ Len(Front(stack)) = Len(stack) - 1
         /\ \A i \in 1..(Len(stack) - 1) :
              Front(stack)[i] = stack[i] /\ stack[i].pc = "sub"
  <1>1. stack \in Seq(Good)
    BY DEF ProcessInv, StackInv
  <1>2. /\ f \in Good /\ Len(stack) \in Nat \ {0} /\ f = stack[Len(stack)]
        /\ Front(stack) \in Seq(Good) /\ Len(Front(stack)) = Len(stack) - 1
        /\ \A i \in 1..(Len(stack) - 1) : Front(stack)[i] = stack[i]
    BY <1>1, LastFront DEF f
  <1>3. ASSUME NEW i \in 1..(Len(stack) - 1) PROVE stack[i].pc = "sub"
    <2>1. i \in 1..Len(stack) /\ i < Len(stack)
      BY <1>2
    <2> QED BY <2>1 DEF ProcessInv, StackInv
  <1>4. f \in Frame
    BY <1>2 DEF Good
  <1>5. ppc = "running" /\ 1 \notin errors
    BY DEF ProcessInv, PackageInv, ErrorInv
  <1> QED BY <1>2, <1>3, <1>4, <1>5

\* The innermost ProcessTask becomes g.
LEMMA StackBecome ==
  ASSUME ProcessInv, stack # <<>>, NEW g \in Good,
         ret = "none" \/ g.pc = "sub", ret' = "none", stack' = [stack EXCEPT ![Len(stack)] = g]
  PROVE  /\ StackInv' /\ stack' # <<>>
         /\ \A i \in 1..Len(stack') : stack'[i].pc \in {g.pc, "sub"}
  <1>1. /\ stack \in Seq(Good) /\ Len(stack) \in 1..Len(stack) /\ Len(stack) \in Nat \ {0}
        /\ \A i \in 1..(Len(stack) - 1) : stack[i].pc = "sub"
    BY Innermost DEF ProcessInv, StackInv
  <1>2. /\ stack' \in Seq(Good) /\ Len(stack') = Len(stack)
        /\ \A j \in 1..Len(stack) : stack'[j] = IF j = Len(stack) THEN g ELSE stack[j]
    BY <1>1, ExceptSeq
  <1>3. ASSUME NEW i \in 1..Len(stack')
        PROVE  IF i = Len(stack) THEN stack'[i] = g ELSE stack'[i].pc = "sub"
    <2>1. \A n \in Nat \ {0} : i \in 1..n /\ i # n => i \in 1..(n - 1)
      OBVIOUS
    <2>2. i # Len(stack) => i \in 1..(Len(stack) - 1)
      BY <1>1, <1>2, <2>1
    <2> QED BY <1>1, <1>2, <2>2
  <1>4. stack' # <<>>
    <2>1. Len(stack') # 0 /\ Len(<<>>) = 0
      BY <1>1, <1>2, EmptySeq
    <2> QED BY <2>1
  <1>5. ASSUME NEW i \in 1..Len(stack'), i < Len(stack') PROVE stack'[i].pc = "sub"
    <2>1. Len(stack) \in Nat /\ i \in Nat /\ i < Len(stack)
      BY <1>1, <1>2, <1>5
    <2>2. \A n, m \in Nat : n < m => n # m
      OBVIOUS
    <2> QED BY <1>3, <2>1
  <1>6. \A i \in 1..Len(stack') : stack'[i].pc \in {g.pc, "sub"}
    BY <1>3
  <1> QED BY <1>2, <1>4, <1>5, <1>6 DEF StackInv

LEMMA StackReturn ==
  ASSUME ProcessInv, stack # <<>>, stack' = Front(stack)
  PROVE  /\ StackInv' /\ (stack' = <<>> <=> Len(stack) = 1)
         /\ \A i \in 1..Len(stack') : stack'[i].pc = "sub"
  <1>1. /\ Len(stack) \in Nat \ {0}
        /\ stack' \in Seq(Good) /\ Len(stack') = Len(stack) - 1
        /\ \A i \in 1..(Len(stack) - 1) : stack'[i].pc = "sub"
    BY Innermost
  <1>2. stack' = <<>> <=> Len(stack') = 0
    BY <1>1, EmptySeq
  <1> QED BY <1>1, <1>2 DEF StackInv

(***************************************************************************)
(* The ways a step of the engine ends.                                     *)
(***************************************************************************)
LEMMA EndBecome ==
  ASSUME ProcessInv, stack # <<>>, NEW g \in Good,
         ret = "none" \/ g.pc = "sub", ret' = "none", stack' = [stack EXCEPT ![Len(stack)] = g],
         g.pc = "act" => ~stopping,
         UNCHANGED <<stopping, packageVars, historyVars>>
  PROVE  ProcessInv'
  <1> USE DEF packageVars, historyVars
  <1>1. /\ StackInv' /\ stack' # <<>>
        /\ \A i \in 1..Len(stack') : stack'[i].pc \in {g.pc, "sub"}
    BY StackBecome
  <1>2. TypeOK'
    BY <1>1, GoodIsFrame DEF ProcessInv, TypeOK, StackInv
  <1>3. ppc = "running" /\ 1 \notin errors
    BY Innermost
  <1>4. PackageInv' /\ ErrorInv'
    BY <1>1, <1>3 DEF ProcessInv, PackageInv, ErrorInv
  <1>5. LateInv'
    BY <1>1 DEF ProcessInv, LateInv, AtMostOneLateAction
  <1> QED BY <1>1, <1>2, <1>4, <1>5 DEF ProcessInv

LEMMA EndReturn ==
  ASSUME ProcessInv, stack # <<>>, Return("ok"),
         UNCHANGED <<stopping, packageVars, historyVars>>
  PROVE  ProcessInv'
  <1> USE DEF packageVars, historyVars, Return
  <1>1. StackInv' /\ \A i \in 1..Len(stack') : stack'[i].pc = "sub"
    BY StackReturn
  <1>2. TypeOK'
    BY <1>1, GoodIsFrame DEF ProcessInv, TypeOK, StackInv
  <1>3. ppc = "running" /\ 1 \notin errors
    BY Innermost
  <1>4. PackageInv' /\ ErrorInv'
    BY <1>3 DEF ProcessInv, PackageInv, ErrorInv
  <1>5. LateInv'
    BY <1>1 DEF ProcessInv, LateInv, AtMostOneLateAction
  <1> QED BY <1>1, <1>2, <1>4, <1>5 DEF ProcessInv

\* A SubTaskError is of depth 1 exactly when the stack is empty after it.
LEMMA EndFail ==
  ASSUME ProcessInv, stack # <<>>, Fail,
         UNCHANGED <<stopping, packageVars, late, halted>>
  PROVE  ProcessInv'
  <1> USE DEF packageVars, Return, Fail
  <1>1. /\ StackInv' /\ (stack' = <<>> <=> Len(stack) = 1)
        /\ \A i \in 1..Len(stack') : stack'[i].pc = "sub"
    BY StackReturn
  <1>2. ppc = "running" /\ 1 \notin errors /\ Len(stack) \in Nat
    BY Innermost
  <1>3. TypeOK'
    BY <1>1, <1>2, GoodIsFrame DEF ProcessInv, TypeOK, StackInv
  <1>4. PackageInv' /\ ErrorInv'
    BY <1>1, <1>2 DEF ProcessInv, PackageInv, ErrorInv
  <1>5. LateInv'
    BY <1>1 DEF ProcessInv, LateInv, AtMostOneLateAction
  <1> QED BY <1>1, <1>3, <1>4, <1>5 DEF ProcessInv

LEMMA EndAdvance ==
  ASSUME ProcessInv, stack # <<>>, ret = "none", NEW list \in Seq(Task),
         NEW t \in Task \cup {None}, Advance(f, list, t),
         UNCHANGED <<stopping, packageVars, historyVars>>
  PROVE  ProcessInv'
  <1>1. CASE list = <<>> \/ NeedExit
    <2>1. Return("ok")
      BY <1>1 DEF Advance
    <2> QED BY <2>1, EndReturn
  <1>2. CASE ~(list = <<>> \/ NeedExit)
    <2> DEFINE g == [f EXCEPT !.pc = "find", !.list = list, !.cur = t, !.retry = 0]
    <2>1. f \in Good /\ list \in Lists
      BY <1>2, Innermost DEF Lists
    <2>2. g \in Good /\ g.pc = "find"
      BY <2>1, SetNext
    <2>3. stack' = [stack EXCEPT ![Len(stack)] = g] /\ ret' = "none"
      BY <1>2 DEF Advance, Become
    <2> HIDE DEF g
    <2> QED BY <2>2, <2>3, EndBecome
  <1> QED BY <1>1, <1>2

LEMMA EndUnless ==
  ASSUME ProcessInv, stack # <<>>, ret = "none", NEW p \in ProcessPC,
         Unless(NeedExit, p), p \in HasHit => f.pc \in HasHit,
         p = "act" => f.pc = "preDelay", p # "preDelay",
         UNCHANGED <<stopping, packageVars, historyVars>>
  PROVE  ProcessInv'
  <1>1. CASE NeedExit
    BY <1>1, EndReturn DEF Unless
  <1>2. CASE ~NeedExit
    <2> DEFINE g == [f EXCEPT !.pc = p]
    <2>1. g \in Good /\ g.pc = p
      BY Innermost, SetPc
    <2>2. stack' = [stack EXCEPT ![Len(stack)] = g] /\ ret' = "none" /\ ~stopping
      BY <1>2 DEF Unless, Become, NeedExit
    <2> HIDE DEF g
    <2> QED BY <2>1, <2>2, EndBecome
  <1> QED BY <1>1, <1>2

(***************************************************************************)
(* The steps.                                                              *)
(***************************************************************************)
LEMMA AtInnermost ==
  ASSUME ProcessInv, NEW pc, At(pc)
  PROVE  stack # <<>> /\ ret = "none" /\ f.pc = pc /\ f \in Good /\ f \in Frame
  BY Innermost DEF At

LEMMA RecognizeSteps ==
  ASSUME ProcessInv,
         FindTask \/ RecognizeInterrupted \/ (\E t \in Task : RecognizeHit(t))
         \/ RecognizeMiss \/ RetryFailed
  PROVE  ProcessInv'
  <1>1. CASE FindTask
    BY <1>1, AtInnermost, EndUnless DEF FindTask, ProcessPC, HasHit
  <1>2. CASE RecognizeInterrupted
    BY <1>2, AtInnermost, EndReturn DEF RecognizeInterrupted
  <1>3. ASSUME NEW t \in Task, RecognizeHit(t) PROVE ProcessInv'
    <2> DEFINE g == [f EXCEPT !.pc = "hit", !.hit = t]
    <2>1. stack # <<>> /\ ret = "none" /\ f \in Good
      BY <1>3, AtInnermost DEF RecognizeHit
    <2>2. g \in Good /\ g.pc = "hit"
      BY <2>1, SetHit
    <2>3. /\ stack' = [stack EXCEPT ![Len(stack)] = g] /\ ret' = "none"
          /\ UNCHANGED <<stopping, packageVars, historyVars>>
      BY <1>3, <2>1 DEF RecognizeHit, Hit, Become
    <2> HIDE DEF g
    <2> QED BY <2>1, <2>2, <2>3, EndBecome
  <1>4. CASE RecognizeMiss
    <2> DEFINE g == [f EXCEPT !.retry = @ + 1]
    <2>1. stack # <<>> /\ ret = "none" /\ f \in Good /\ f.pc = "recognize"
      BY <1>4, AtInnermost DEF RecognizeMiss
    <2>2. g \in Good /\ g.pc = f.pc
      BY <2>1, SetRetry
    <2>3. /\ stack' = [stack EXCEPT ![Len(stack)] = g] /\ ret' = "none"
          /\ UNCHANGED <<stopping, packageVars, historyVars>>
      BY <1>4, <2>1 DEF RecognizeMiss, Become
    <2> HIDE DEF g
    <2> QED BY <2>1, <2>2, <2>3, EndBecome
  <1>5. CASE RetryFailed
    <2>1. stack # <<>> /\ ret = "none" /\ f \in Frame
      BY <1>5, AtInnermost DEF RetryFailed
    <2>2. CASE f.cur = None \/ OnErrorNext[f.cur] = <<>>
      BY <1>5, <2>1, <2>2, EndFail DEF RetryFailed
    <2>3. CASE ~(f.cur = None \/ OnErrorNext[f.cur] = <<>>)
      <3>1. OnErrorNext[f.cur] \in Seq(Task)
        BY <2>1, <2>3 DEF Frame, TaskDataAssumption
      <3>2. Advance(f, OnErrorNext[f.cur], None)
            /\ UNCHANGED <<stopping, packageVars, historyVars>>
        BY <1>5, <2>3 DEF RetryFailed, historyVars
      <3> QED BY <2>1, <3>1, <3>2, EndAdvance
    <2> QED BY <2>2, <2>3
  <1> QED BY <1>1, <1>2, <1>3, <1>4, <1>5

LEMMA RunTaskStep ==
  ASSUME ProcessInv, RunTask
  PROVE  ProcessInv'
  <1>1. /\ stack # <<>> /\ ret = "none" /\ f \in Good /\ f \in Frame /\ f.pc = "hit"
        /\ f.hit \in Task /\ UNCHANGED <<stopping, packageVars, historyVars>>
    <2>1. stack # <<>> /\ ret = "none" /\ f \in Good /\ f \in Frame /\ f.pc = "hit"
      BY AtInnermost DEF RunTask
    <2> QED BY <2>1 DEF RunTask, Good, HasHit
  <1>2. CASE NeedExit
    BY <1>1, <1>2, EndReturn DEF RunTask
  <1>3. CASE ~NeedExit /\ RunOut(f.hit)
    <2>1. ExceededNext[f.hit] \in Seq(Task)
      BY <1>1 DEF TaskDataAssumption
    <2>2. Advance(f, ExceededNext[f.hit], f.hit)
      BY <1>3 DEF RunTask
    <2> QED BY <1>1, <2>1, <2>2, EndAdvance
  <1>4. CASE ~NeedExit /\ ~RunOut(f.hit)
    <2> DEFINE g == [f EXCEPT !.pc = "preDelay", !.exec = Count(@, f.hit)]
    <2>1. f.hit \in Limited => f.exec[f.hit] < MaxTimes[f.hit]
      <3>1. f.exec \in [Limited -> Nat] /\ MaxTimes \in [Limited -> Nat]
        BY <1>1 DEF Frame, TaskDataAssumption
      <3> QED BY <1>4, <3>1 DEF RunOut, Limit
    <2>2. g \in Good /\ g.pc = "preDelay"
      BY <1>1, <2>1, SetCounted
    <2>3. stack' = [stack EXCEPT ![Len(stack)] = g] /\ ret' = "none"
      BY <1>1, <1>4 DEF RunTask, Become
    <2> HIDE DEF g
    <2> QED BY <1>1, <2>2, <2>3, EndBecome
  <1> QED BY <1>2, <1>3, <1>4

\* The one step that acts: after a stop only a ProcessTask whose poll came before
\* it can still take it, and then nobody is left who could take another.
LEMMA ActionStep ==
  ASSUME ProcessInv, RunAction
  PROVE  ProcessInv'
  <1> USE DEF packageVars, historyVars
  <1>1. /\ stack # <<>> /\ ret = "none" /\ f \in Good /\ f.pc = "act"
        /\ UNCHANGED <<stopping, packageVars, errors>>
        /\ halted' \in {TRUE, halted}
        /\ late' = IF stopping /\ late < 2 THEN late + 1 ELSE late
    <2>1. stack # <<>> /\ ret = "none" /\ f \in Good /\ f.pc = "act"
      BY AtInnermost DEF RunAction
    <2> QED BY <2>1 DEF RunAction
  <1>2. late = 0
    <2>1. Len(stack) \in 1..Len(stack) /\ stack[Len(stack)].pc = "act"
      BY <1>1, Innermost
    <2>2. late # 1
      BY <2>1 DEF ProcessInv, LateInv
    <2>3. late \in 0..2 /\ late <= 1
      BY DEF ProcessInv, LateInv, AtMostOneLateAction, TypeOK
    <2> QED BY <2>2, <2>3
  <1>3. /\ StackInv' /\ \A i \in 1..Len(stack') : stack'[i].pc # "act"
        /\ (stack' # <<>> /\ ret' = "none") \/ ret' = "ok"
    <2>1. CASE f.hit \in StopAction
      <3>1. stack' = Front(stack) /\ ret' = "ok"
        BY <2>1 DEF RunAction, Return
      <3> QED BY <1>1, <3>1, StackReturn
    <2>2. CASE f.hit \notin StopAction
      <3> DEFINE g == [f EXCEPT !.pc = "postDelay", !.exec = Reduce(@, f.hit)]
      <3>1. g \in Good /\ g.pc = "postDelay"
        BY <1>1, SetReduced
      <3>2. stack' = [stack EXCEPT ![Len(stack)] = g] /\ ret' = "none"
        BY <1>1, <2>2 DEF RunAction, Become
      <3> HIDE DEF g
      <3> QED BY <1>1, <3>1, <3>2, StackBecome
    <2> QED BY <2>1, <2>2
  <1>4. TypeOK'
    <2>1. stack' \in Seq(Frame)
      BY <1>3, GoodIsFrame DEF StackInv
    <2>2. late' \in 0..2
      BY <1>1, <1>2
    <2>3. halted' \in BOOLEAN
      BY <1>1 DEF ProcessInv, TypeOK
    <2>4. ret' \in {"none", "ok", "failed"}
      BY <1>3
    <2> QED BY <1>1, <2>1, <2>2, <2>3, <2>4 DEF ProcessInv, TypeOK
  <1>5. ppc = "running" /\ 1 \notin errors
    BY <1>1, Innermost
  <1>6. PackageInv' /\ ErrorInv'
    BY <1>1, <1>3, <1>5 DEF ProcessInv, PackageInv, ErrorInv
  <1>7. LateInv'
    BY <1>1, <1>2, <1>3 DEF ProcessInv, LateInv, AtMostOneLateAction
  <1> QED BY <1>3, <1>4, <1>6, <1>7 DEF ProcessInv

LEMMA DelaySteps ==
  ASSUME ProcessInv, PreDelay \/ PostDelay
  PROVE  ProcessInv'
  <1>1. CASE PreDelay
    BY <1>1, AtInnermost, EndUnless DEF PreDelay, ProcessPC, HasHit
  <1>2. CASE PostDelay
    <2> DEFINE g == [f EXCEPT !.pc = "sub", !.subIdx = 1]
    <2>1. /\ stack # <<>> /\ ret = "none" /\ f \in Good /\ f.pc = "postDelay"
          /\ UNCHANGED <<stopping, packageVars, historyVars>>
      BY <1>2, AtInnermost DEF PostDelay
    <2>2. CASE NeedExit
      BY <1>2, <2>1, <2>2, EndReturn DEF PostDelay
    <2>3. CASE ~NeedExit
      <3>1. g \in Good /\ g.pc = "sub"
        BY <2>1, SetSub DEF HasHit
      <3>2. stack' = [stack EXCEPT ![Len(stack)] = g] /\ ret' = "none"
        BY <1>2, <2>1, <2>3 DEF PostDelay, Become
      <3> HIDE DEF g
      <3> QED BY <2>1, <3>1, <3>2, EndBecome
    <2> QED BY <2>2, <2>3
  <1> QED BY <1>1, <1>2

LEMMA SubSteps ==
  ASSUME ProcessInv, CallSub \/ SubReturned \/ CompleteTask
  PROVE  ProcessInv'
  <1>1. CASE CallSub
    <2> DEFINE sub == Sub[f.hit][f.subIdx]
               new == NewFrame(<<sub>>)
    <2>1. /\ stack # <<>> /\ ret = "none" /\ f \in Good /\ f \in Frame /\ f.pc = "sub"
          /\ f.hit \in Task /\ f.subIdx \in Nat \ {0}
          /\ UNCHANGED <<stopping, packageVars, ret, historyVars>>
          /\ f.subIdx <= Len(Sub[f.hit])
      <3>1. stack # <<>> /\ ret = "none" /\ f \in Good /\ f \in Frame /\ f.pc = "sub"
        BY <1>1, AtInnermost DEF CallSub
      <3>2. f.hit \in Task /\ f.subIdx # 0
        BY <3>1 DEF Good, HasHit
      <3>3. f.subIdx \in Nat
        BY <3>1 DEF Frame
      <3> QED BY <1>1, <3>1, <3>2, <3>3 DEF CallSub
    <2>2. sub \in Task
      <3>1. Sub[f.hit] \in Seq(Task)
        BY <2>1 DEF TaskDataAssumption
      <3> QED BY <2>1, <3>1, ElementOfSeq
    <2>3. new \in Good /\ new.pc = "find"
      <3>1. <<sub>> \in Lists
        BY <2>2 DEF Lists
      <3> QED BY <3>1, NewIsGood
    <2>4. stack' = Append(stack, new)
      BY <1>1 DEF CallSub
    <2> HIDE DEF sub, new
    <2>5. /\ stack \in Seq(Good) /\ Len(stack) \in Nat /\ stack[Len(stack)].pc = "sub"
          /\ stack' \in Seq(Good) /\ Len(stack') = Len(stack) + 1 /\ stack' # <<>>
          /\ stack'[Len(stack) + 1] = new
          /\ \A i \in 1..Len(stack) : stack'[i] = stack[i]
      <3>1. stack \in Seq(Good) /\ Len(stack) \in Nat /\ stack[Len(stack)].pc = "sub"
        BY <2>1, Innermost DEF ProcessInv, StackInv
      <3>2. /\ stack' \in Seq(Good) /\ Len(stack') = Len(stack) + 1
            /\ \A i \in 1..Len(stack) : stack'[i] = stack[i]
            /\ stack'[Len(stack) + 1] = new
        BY <2>3, <2>4, <3>1, AppendProperties
      <3>3. Len(<<>>) = 0 /\ Len(stack') # 0
        BY <3>1, <3>2, EmptySeq
      <3>4. stack' # <<>>
        BY <3>3
      <3> QED BY <3>1, <3>2, <3>4
    <2>6. ASSUME NEW i \in 1..Len(stack') PROVE IF i = Len(stack') THEN stack'[i] = new
                                                ELSE stack'[i].pc = "sub"
      <3>1. \A n \in Nat : i \in 1..(n + 1) => i = n + 1 \/ i = n \/ i \in 1..(n - 1)
        OBVIOUS
      <3>2. i = Len(stack) + 1 \/ i = Len(stack) \/ i \in 1..(Len(stack) - 1)
        BY <2>5, <3>1
      <3>3. i \in 1..(Len(stack) - 1) => i \in 1..Len(stack) /\ stack[i].pc = "sub"
        BY <2>1, <2>5, Innermost
      <3>4. i = Len(stack) => i \in 1..Len(stack)
        BY <2>1, Innermost
      <3> QED BY <2>5, <3>2, <3>3, <3>4
    <2>7. ASSUME NEW i \in 1..Len(stack'), i < Len(stack') PROVE stack'[i].pc = "sub"
      <3>1. Len(stack') \in Nat /\ \A n, m \in Nat : n < m => n # m
        BY <2>5
      <3> QED BY <2>6, <2>7, <3>1
    <2>8. \A i \in 1..Len(stack') : stack'[i].pc # "act"
      BY <2>3, <2>6
    <2>9. StackInv'
      BY <2>1, <2>5, <2>7 DEF StackInv
    <2> USE DEF packageVars, historyVars
    <2>10. TypeOK'
      BY <2>1, <2>5, GoodIsFrame DEF ProcessInv, TypeOK
    <2>11. ppc = "running" /\ 1 \notin errors
      BY <2>1, Innermost
    <2>12. PackageInv' /\ ErrorInv'
      BY <2>1, <2>5, <2>11 DEF ProcessInv, PackageInv, ErrorInv
    <2>13. LateInv'
      BY <2>1, <2>8 DEF ProcessInv, LateInv, AtMostOneLateAction
    <2> QED BY <2>9, <2>10, <2>12, <2>13 DEF ProcessInv
  <1>2. CASE SubReturned
    <2>1. stack # <<>> /\ ret # "none" /\ UNCHANGED <<stopping, packageVars, late, halted>>
      BY <1>2 DEF SubReturned
    <2>2. CASE ret = "failed" /\ f.hit \notin SubErrorIgnored
      BY <1>2, <2>1, <2>2, EndFail DEF SubReturned
    <2>3. CASE ~(ret = "failed" /\ f.hit \notin SubErrorIgnored)
      <3>1. UNCHANGED historyVars
        BY <1>2, <2>1, <2>3 DEF SubReturned, historyVars
      <3>2. CASE NeedExit
        BY <1>2, <2>1, <2>3, <3>1, <3>2, EndReturn DEF SubReturned
      <3>3. CASE ~NeedExit
        <4> DEFINE g == [f EXCEPT !.subIdx = @ + 1]
        <4>1. f \in Good /\ f = stack[Len(stack)] /\ f.pc = "sub"
          <5>1. f \in Good /\ f = stack[Len(stack)] /\ Len(stack) \in 1..Len(stack)
            BY <2>1, Innermost
          <5> QED BY <2>1, <5>1 DEF ProcessInv, StackInv
        <4>2. g \in Good /\ g.pc = "sub"
          BY <4>1, SetSubIdx
        <4>3. ret' = "none" /\ stack' = [stack EXCEPT ![Len(stack)].subIdx = @ + 1]
          BY <1>2, <2>3, <3>3 DEF SubReturned
        <4>4. stack' = [stack EXCEPT ![Len(stack)] = g]
          BY <4>1, <4>3
        <4> HIDE DEF g
        <4> QED BY <2>1, <3>1, <4>2, <4>3, <4>4, EndBecome
      <3> QED BY <3>2, <3>3
    <2> QED BY <2>2, <2>3
  <1>3. CASE CompleteTask
    <2>1. stack # <<>> /\ ret = "none" /\ f \in Good /\ f.pc = "sub"
      BY <1>3, AtInnermost DEF CompleteTask
    <2>2. f.hit \in Task
      BY <2>1 DEF Good, HasHit
    <2>3. NextOf[f.hit] \in Seq(Task)
      BY <2>2 DEF TaskDataAssumption
    <2> QED BY <1>3, <2>1, <2>2, <2>3, EndAdvance DEF CompleteTask
  <1> QED BY <1>1, <1>2, <1>3

LEMMA PackageSteps ==
  ASSUME ProcessInv, PackageNext \/ PackageReturned \/ PackageDone \/ StopCall
  PROVE  ProcessInv'
  <1> USE DEF packageVars, historyVars
  <1>1. CASE PackageNext
    <2>1. stack = <<>> /\ ret = "none" /\ ppc = "loop" /\ item \in 1..Len(Package)
          /\ 1 \notin errors
          /\ UNCHANGED <<stopping, item, ret, historyVars>>
      <3>1. Len(Package) \in Nat
        BY LenProperties DEF TaskDataAssumption
      <3> QED BY <1>1, <3>1 DEF PackageNext, ProcessInv, PackageInv, ErrorInv, TypeOK
    <2>2. CASE NeedExit
      <3>1. ppc' = "done" /\ result' = "failed" /\ stack' = stack /\ stopping
        BY <1>1, <2>2 DEF PackageNext, NeedExit
      <3>2. TypeOK'
        BY <2>1, <3>1 DEF ProcessInv, TypeOK
      <3> QED
        BY <2>1, <3>1, <3>2
        DEF ProcessInv, StackInv, PackageInv, LateInv, AtMostOneLateAction, ErrorInv
    <2>3. CASE ~NeedExit
      <3> DEFINE new == NewFrame(Package[item])
      <3>1. ppc' = "running" /\ stack' = <<new>> /\ result' = result
        BY <1>1, <2>3 DEF PackageNext
      <3>2. new \in Good /\ new.pc = "find"
        <4>1. Package[item] \in Lists
          BY <2>1, ElementOfSeq DEF TaskDataAssumption
        <4> QED BY <4>1, NewIsGood
      <3> HIDE DEF new
      <3>3. /\ stack' \in Seq(Good) /\ Len(stack') = 1 /\ stack'[1] = new /\ stack' # <<>>
        BY <3>1, <3>2
      <3>4. TypeOK'
        <4>1. stack' \in Seq(Frame)
          BY <3>3, GoodIsFrame
        <4> QED BY <2>1, <3>1, <4>1 DEF ProcessInv, TypeOK
      <3>5. StackInv'
        BY <2>1, <3>3 DEF StackInv
      <3>6. LateInv'
        BY <2>1, <3>2, <3>3 DEF ProcessInv, LateInv, AtMostOneLateAction
      <3>7. PackageInv' /\ ErrorInv'
        BY <2>1, <3>1, <3>3 DEF ProcessInv, PackageInv, ErrorInv
      <3> QED BY <3>4, <3>5, <3>6, <3>7 DEF ProcessInv
    <2> QED BY <2>2, <2>3
  <1>2. CASE PackageReturned
    <2>1. /\ stack = <<>> /\ stack' = <<>> /\ ret' = "none" /\ ppc = "running"
          /\ UNCHANGED <<stopping, historyVars>>
          /\ ret = "failed" <=> 1 \in errors
      BY <1>2 DEF PackageReturned, ProcessInv, ErrorInv
    <2>2. item \in 1..Len(Package) /\ item + 1 \in 1..(Len(Package) + 1)
      <3>1. Len(Package) \in Nat
        BY LenProperties DEF TaskDataAssumption
      <3> QED BY <2>1, <3>1 DEF ProcessInv, PackageInv, TypeOK
    <2>3. StackInv' /\ LateInv'
      BY <2>1 DEF ProcessInv, StackInv, LateInv, AtMostOneLateAction
    <2>4. CASE ret = "failed"
      <3>1. ppc' = "done" /\ result' = "failed" /\ item' = item
        BY <1>2, <2>4 DEF PackageReturned
      <3>2. TypeOK'
        BY <2>1, <3>1 DEF ProcessInv, TypeOK
      <3> QED BY <2>1, <2>3, <2>4, <3>1, <3>2 DEF ProcessInv, PackageInv, ErrorInv
    <2>5. CASE ret # "failed"
      <3>1. ppc' = "loop" /\ item' = item + 1 /\ result' = result
        BY <1>2, <2>5 DEF PackageReturned
      <3>2. TypeOK'
        BY <2>1, <2>2, <3>1 DEF ProcessInv, TypeOK
      <3> QED BY <2>1, <2>3, <2>5, <3>1, <3>2 DEF ProcessInv, PackageInv, ErrorInv
    <2> QED BY <2>4, <2>5
  <1>3. CASE PackageDone
    <2>1. TypeOK'
      BY <1>3 DEF PackageDone, ProcessInv, TypeOK
    <2>2. 1 \notin errors
      BY <1>3 DEF PackageDone, ProcessInv, PackageInv, ErrorInv
    <2> QED
      BY <1>3, <2>1, <2>2
      DEF PackageDone, ProcessInv, StackInv, PackageInv, LateInv, AtMostOneLateAction,
          ErrorInv
  <1>4. CASE StopCall
    <2>1. TypeOK'
      BY <1>4 DEF StopCall, ProcessInv, TypeOK
    <2> QED
      BY <1>4, <2>1
      DEF StopCall, ProcessInv, StackInv, PackageInv, LateInv, AtMostOneLateAction, ErrorInv
  <1> QED BY <1>1, <1>2, <1>3, <1>4

LEMMA ProcessInit == Init => ProcessInv
  <1> SUFFICES ASSUME Init PROVE ProcessInv
    OBVIOUS
  <1>1. Len(Package) \in Nat
    BY LenProperties DEF TaskDataAssumption
  <1>2. stack \in Seq(Good) /\ stack \in Seq(Frame) /\ Len(stack) = 0
    BY EmptySeq DEF Init
  <1>3. TypeOK
    <2>1. 1 \in 1..(Len(Package) + 1) /\ 0 \in 0..2
      BY <1>1
    <2> QED BY <1>2, <2>1 DEF Init, TypeOK
  <1> QED
    BY <1>2, <1>3
    DEF Init, ProcessInv, StackInv, PackageInv, LateInv, AtMostOneLateAction, ErrorInv

LEMMA ProcessNext == ProcessInv /\ [Next]_vars => ProcessInv'
  <1> SUFFICES ASSUME ProcessInv, [Next]_vars PROVE ProcessInv'
    OBVIOUS
  <1>1. CASE Engine
    BY <1>1, RecognizeSteps, RunTaskStep, DelaySteps, ActionStep, SubSteps, PackageSteps
    DEF Engine
  <1>2. CASE StopCall
    BY <1>2, PackageSteps
  <1>3. CASE UNCHANGED vars
    <2>1. TypeOK'
      BY <1>3 DEF vars, ProcessInv, TypeOK
    <2> QED
      BY <1>3, <2>1
      DEF vars, ProcessInv, StackInv, PackageInv, LateInv, AtMostOneLateAction, ErrorInv
  <1> QED BY <1>1, <1>2, <1>3 DEF Next

LEMMA ProcessInvariant == Spec => []ProcessInv
  BY ProcessInit, ProcessNext, PTL DEF Spec

\* Every ProcessTask on the stack is within its types (TypeOK): the list it looks
\* for is never empty and the task it executes is one of the data.
THEOREM EngineTypeCorrect == Spec => []TypeOK
  <1>1. ProcessInv => TypeOK
    BY DEF ProcessInv
  <1> QED BY <1>1, ProcessInvariant, PTL

\* Once need_exit() holds at most one more action reaches the game
\* (AtMostOneLateAction; ProcessTask.cpp run_task), at any depth of subs.
THEOREM StopLetsOneActionThrough == Spec => []AtMostOneLateAction
  <1>1. ProcessInv => AtMostOneLateAction
    BY DEF ProcessInv, LateInv
  <1> QED BY <1>1, ProcessInvariant, PTL

\* No ProcessTask executes a task more often than its max_times, reductions by
\* other tasks included (WithinLimit; ProcessTask.cpp run_task).
THEOREM ExecutionsWithinLimit == Spec => []WithinLimit
  <1>1. ProcessInv => WithinLimit
    <2> SUFFICES ASSUME ProcessInv, NEW i \in DOMAIN stack PROVE Counts(stack[i])
      BY DEF WithinLimit, Counts
    <2>1. stack \in Seq(Good) /\ i \in 1..Len(stack)
      BY LenProperties DEF ProcessInv, StackInv
    <2> QED BY <2>1, ElementOfSeq DEF Good
  <1> QED BY <1>1, ProcessInvariant, PTL

\* The verdict of a chain that was not stopped and the SubTaskError it sent agree
\* (VerdictMatchesErrors; PackageTask::run and ProcessTask::run).
THEOREM VerdictAlwaysMatches == Spec => []VerdictMatchesErrors
  <1>1. ProcessInv => VerdictMatchesErrors
    BY DEF ProcessInv, ErrorInv, VerdictMatchesErrors
  <1> QED BY <1>1, ProcessInvariant, PTL
=============================================================================
