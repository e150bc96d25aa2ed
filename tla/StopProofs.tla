----------------------------- MODULE StopProofs -----------------------------
(* How many commands a call in progress still begins on the device once a stop     *)
(* has come, for any device and any configuration: each call in progress owes       *)
(* commands to the one that waits for it, and what is owed never exceeds three.     *)
EXTENDS ControllerProofs

Fails(r) == r \in {"none", "no"}
ShotWaits == {"ctrl.looked", "image.taken", "image.last"}
Imaging == {"image", "image.taken", "image.last"}
Retrying == {"reconnect", "reconnect.slept", "reconnect.connected", "reconnect.recalled",
             "reconnect.fail"}

\* The length of Installation, and how many commands follow the failure of its n-th:
\* one after abilist, and one after orientation when abilist was answered (c = 1);
\* the place in a gesture at which it presses escape.
Steps(t) == IF t = "minitouch" THEN 4 ELSE 2
Found(f) == IF f.flag THEN 1 ELSE 0
Spare(t, n, c) == IF t = "minitouch" /\ (n = 1 \/ (n = 2 /\ c = 1)) THEN 1 ELSE 0
EscAt(t, c) == IF c = "pause" /\ t # "maatouch" THEN 3 ELSE IF c = "late" THEN 5 ELSE 0

\* Each call owes commands to the one that waits for it: d.most at most, when it
\* is not itself to blame for an end of it all; d.least when it fails.
Debts == {d \in [least : 0 .. 3, most : 0 .. 3, at : Labels \cup {""}] : d.least <= d.most}
Nothing == [least |-> 0, most |-> 0, at |-> ""]

\* From the n-th step of the installation on.
Installing(t, n, c, d) ==
  IF n > Steps(t) THEN d.most ELSE 1 + (Spare(t, n, c) + d.least)

\* The commands that are begun, if a stop comes now, from the call f on and down to
\* the outermost one, when what lies below f owes d: at most, whatever the call that
\* f waits for answers...
MostOfCall(f, d) ==
  IF f.at = "reconnect.recalled" THEN IF d.most > d.least THEN d.most ELSE 1 + d.least
  ELSE IF f.at \in Over THEN IF Fails(f.cmd) THEN d.least ELSE d.most
  ELSE IF f.at \in {"call.done", "reconnect.failed"} THEN d.least
  ELSE 1 + d.least
MostOfCommand(f, d) ==
  IF f.at = "command" THEN IF f.flag THEN 2 + d.least ELSE 1 + d.least
  ELSE IF f.flag THEN 1 + d.least ELSE d.most
MostOfShot(f, d) ==
  IF f.at = "screencap" THEN 3 + d.most
  ELSE IF f.at = "probe" THEN IF f.n <= 3 THEN 4 - f.n + d.most ELSE d.most
  ELSE IF f.at = "probe.done" THEN 3 - f.n + d.most
  ELSE IF f.at = "capture" THEN 1 + d.least
  ELSE d.most
MostOfLink(f, d) ==
  IF \/ f.at = "connect.listed" \/ (f.at = "connect.query" /\ f.n = 2)
     \/ (f.at = "connect.answer" /\ f.n = 1)
  THEN 1 + d.least ELSE d.least
MostOfGesture(t, f) ==
  IF f.n < EscAt(t, f.cmd) \/ (f.n = EscAt(t, f.cmd) /\ f.at # "gesture.sent") THEN 1 ELSE 0
MostOfTouch(t, f, d) ==
  IF f.at = "touch.connect" THEN d.least
  ELSE IF f.at = "touch.ready" THEN d.most
  ELSE IF f.at = "touch.probed" THEN Installing(t, f.n + 1, 1, d)
  ELSE Installing(t, f.n, Found(f), d)
MostOfCtrl(o, f) ==
  IF f.at = "ctrl.connect" THEN 2 ELSE IF f.at = "ctrl.create" THEN 1
  ELSE IF f.at = "ctrl.connected" /\ o \in AdbFamily THEN 3 ELSE 0
MostOfClient(f) == IF f.at = "exit" THEN 1 ELSE 0
Most(t, o, f, d) ==
  IF f.at \in CallBody THEN MostOfCall(f, d)
  ELSE IF f.at \in CommandBody THEN MostOfCommand(f, d)
  ELSE IF f.at \in ShotBody THEN MostOfShot(f, d)
  ELSE IF f.at \in LinkBody THEN MostOfLink(f, d)
  ELSE IF f.at \in GestureBody THEN MostOfGesture(t, f)
  ELSE IF f.at \in TouchBody THEN MostOfTouch(t, f, d)
  ELSE IF f.at \in CtrlBody THEN MostOfCtrl(o, f)
  ELSE IF f.at \in ClientBody THEN MostOfClient(f)
  ELSE IF f.at \in {"io", "release"} THEN 1 + d.most
  ELSE d.most

\* ...and when that fails.
Least(t, o, f, d) ==
  IF f.at = "reconnect.recalled" THEN 1 + d.least
  ELSE IF \/ f.at \in {"capture.decode", "connect.answer", "input.rewrite", "touch.connected",
                       "touch.ready"}
          \/ f.at = "command.done" /\ ~f.flag
  THEN d.least
  ELSE IF f.at = "touch.probed" THEN Spare(t, f.n, Found(f)) + d.least
  ELSE IF f.at = "gesture.started" THEN 0
  ELSE IF f.at = "ctrl.connected" THEN IF o \in AdbFamily THEN 1 ELSE 0
  ELSE Most(t, o, f, d)

Due(t, o, f, d, r) == IF Fails(r) THEN Least(t, o, f, d) ELSE Most(t, o, f, d)
Debt(t, o, f, d) == [least |-> Least(t, o, f, d), most |-> Most(t, o, f, d), at |-> f.at]

\* What a call f needs of the debts below it: a reconnect adds two commands, and
\* where there is no room for them the controller is not said to work.
Able(f, d) ==
  /\ f.at \in {"call", "call.done", "capture"} /\ f.flag => d.least <= 1
  /\ f.at \notin TouchBody
  /\ f.at = "probe" => f.n # 1
Room(t, works, f, d) ==
  /\ f.at \in Retrying \cup LinkBody \cup TouchBody => d.least <= 1
  /\ f.at \in {"adb.connect", "connect.listed", "connect.connected", "touch.connect",
               "touch.connected"} => f.n = 1
  /\ f.at = "touch.probed" => f.n <= Steps(t)
  /\ f.at \in CommandBody \cup CtrlBody => d.most = 0
  /\ f.at \in {"screencap", "probe", "probe.done"} => d.most = 0 /\ d.at \in ShotWaits
  /\ f.at = "probe.done" => f.n <= 3
  /\ f.at \in Imaging => d.at = ""
  /\ works => Able(f, d)

\* The debts of the calls in progress, one below the other.
Chain(w) ==
  /\ w \in Seq(Debts) /\ Len(w) = Len(stack)
  /\ stack # <<>> => w[Len(stack)] = Nothing
  /\ \A i \in 1 .. Len(stack) - 1 : w[i] = Debt(touch, object, stack[i + 1], w[i + 1])
  /\ \A i \in 1 .. Len(stack) : Room(touch, inited, stack[i], w[i])
  /\ stack # <<>> => late + Due(touch, object, Top, w[1], result) <= 3

LateInv ==
  /\ late \in Nat /\ late <= 3
  /\ stack # <<>> /\ ~need_exit => late = 0
  /\ inited => method # "UnknownYet"
  /\ \E w : Chain(w)

\* What a step leaves alone: the debts of the calls below the innermost one.
RestOwed(w) ==
  /\ \A i \in 1 .. Len(stack) - 1 : w[i] = Debt(touch', object', stack[i + 1], w[i + 1])
  /\ \A i \in 2 .. Len(stack) : Room(touch', inited', stack[i], w[i])

-----------------------------------------------------------------------------
(* Debts.                                                                          *)

LEMMA FamilyMost ==
  ASSUME NEW t, NEW o, NEW f, NEW d
  PROVE  /\ f.at \in CallBody => Most(t, o, f, d) = MostOfCall(f, d)
         /\ f.at \in CommandBody => Most(t, o, f, d) = MostOfCommand(f, d)
         /\ f.at \in ShotBody => Most(t, o, f, d) = MostOfShot(f, d)
         /\ f.at \in LinkBody => Most(t, o, f, d) = MostOfLink(f, d)
         /\ f.at \in GestureBody => Most(t, o, f, d) = MostOfGesture(t, f)
         /\ f.at \in TouchBody => Most(t, o, f, d) = MostOfTouch(t, f, d)
         /\ f.at \in CtrlBody => Most(t, o, f, d) = MostOfCtrl(o, f)
         /\ f.at \in ClientBody => Most(t, o, f, d) = MostOfClient(f)
         /\ f.at \in {"io", "release"} => Most(t, o, f, d) = 1 + d.most
         /\ f.at \in (IOBody \ {"io"}) \cup {"release.done"} \cup HupBody \cup InputBody
              \cup InjectBody \cup OpenBody \cup CommitBody \cup PlayBody \cup PlayCalls
              \cup UnitBody \cup UnitCalls => Most(t, o, f, d) = d.most
  <1> USE DEF Most
  <1> DEFINE Old == CallBody \cup CommandBody \cup ShotBody \cup LinkBody
             New == GestureBody \cup TouchBody \cup CtrlBody \cup ClientBody
  <1>1. f.at \in Old => f.at \notin New
    BY DEF CallBody, CommandBody, ShotBody, LinkBody, GestureBody, TouchBody, CtrlBody, ClientBody
  <1>2. /\ f.at \in CallBody => f.at \notin CommandBody \cup ShotBody \cup LinkBody
        /\ f.at \in CommandBody => f.at \notin ShotBody \cup LinkBody
        /\ f.at \in ShotBody => f.at \notin LinkBody
    BY AdbLabels
  <1>3. /\ f.at \in GestureBody => f.at \notin TouchBody \cup CtrlBody \cup ClientBody
        /\ f.at \in TouchBody => f.at \notin CtrlBody \cup ClientBody
        /\ f.at \in CtrlBody => f.at \notin ClientBody
    BY DEF GestureBody, TouchBody, CtrlBody, ClientBody
  <1>4. f.at \in {"io", "release"} => f.at \notin Old \cup New
    BY DEF CallBody, CommandBody, ShotBody, LinkBody, GestureBody, TouchBody, CtrlBody, ClientBody
  <1>5. f.at \in (IOBody \ {"io"}) \cup {"release.done"} \cup HupBody \cup InputBody \cup InjectBody =>
          f.at \notin Old \cup New \cup {"io", "release"}
    BY DEF CallBody, CommandBody, ShotBody, LinkBody, GestureBody, TouchBody, CtrlBody, ClientBody,
           IOBody, HupBody, InputBody, InjectBody
  <1>6. f.at \in OpenBody \cup CommitBody \cup PlayBody \cup PlayCalls \cup UnitBody \cup UnitCalls =>
          f.at \notin Old \cup New \cup {"io", "release"}
    BY DEF CallBody, CommandBody, ShotBody, LinkBody, GestureBody, TouchBody, CtrlBody, ClientBody,
           OpenBody, CommitBody, PlayBody, PlayCalls, UnitBody, UnitCalls
  <1>7. CASE f.at \in Old
    BY <1>1, <1>2, <1>4, <1>5, <1>6, <1>7
  <1>8. CASE f.at \in New
    BY <1>1, <1>3, <1>4, <1>5, <1>6, <1>8
  <1>9. CASE f.at \notin Old \cup New
    BY <1>5, <1>6, <1>9
  <1> QED BY <1>7, <1>8, <1>9

\* What is owed on a failure is another amount only where the answer is looked at.
Choosing ==
  {"reconnect.recalled", "command.done", "capture.decode", "connect.answer", "input.rewrite",
   "touch.connected", "touch.ready", "touch.probed", "gesture.started", "ctrl.connected"}
LEMMA LeastElse ==
  ASSUME NEW t, NEW o, NEW f, NEW d, f.at \notin Choosing
  PROVE  Least(t, o, f, d) = Most(t, o, f, d)
  BY DEF Least, Choosing

LEMMA UpToThree ==
  /\ \A x \in 0 .. 3 : x \in Nat /\ x <= 3
  /\ \A x, y \in Nat : x <= y /\ y <= 3 => x \in 0 .. 3 /\ y \in 0 .. 3
  OBVIOUS

LEMMA DebtFacts ==
  ASSUME NEW d \in Debts
  PROVE  /\ d.least \in Nat /\ d.most \in Nat /\ d.least <= d.most /\ d.most <= 3
         /\ d.least \in 0 .. 3 /\ d.most \in 0 .. 3
  <1>1. d \in [least : 0 .. 3, most : 0 .. 3, at : Labels \cup {""}] /\ d.least <= d.most
    BY DEF Debts
  <1>2. d.least \in 0 .. 3 /\ d.most \in 0 .. 3
    BY <1>1
  <1> QED BY <1>1, <1>2, UpToThree

LEMMA DebtMade ==
  ASSUME NEW x \in Nat, NEW y \in Nat, x <= y, y <= 3, NEW l \in Labels \cup {""}
  PROVE  [least |-> x, most |-> y, at |-> l] \in Debts
  <1>1. x \in 0 .. 3 /\ y \in 0 .. 3
    BY UpToThree
  <1>2. [least |-> x, most |-> y, at |-> l]
          \in [least : 0 .. 3, most : 0 .. 3, at : Labels \cup {""}]
    BY <1>1
  <1> QED BY <1>2 DEF Debts

LEMMA DebtFits ==
  ASSUME NEW t, NEW o, NEW works, NEW f \in Frames, f.at \in Waits, NEW d \in Debts,
         Room(t, works, f, d)
  PROVE  Debt(t, o, f, d) \in Debts
  <1> DEFINE l == Least(t, o, f, d)
             m == Most(t, o, f, d)
  <1>1. f.n \in Nat \ {0} /\ f.flag \in BOOLEAN /\ f.at \in Labels
    BY DEF Frames
  <1> SUFFICES l \in Nat /\ m \in Nat /\ l <= m /\ m <= 3
    <2> HIDE DEF l, m
    <2>1. Debt(t, o, f, d) = [least |-> l, most |-> m, at |-> f.at]
      BY DEF Debt, l, m
    <2>2. f.at \in Labels \cup {""}
      BY <1>1
    <2> QED BY <2>1, <2>2, DebtMade
  <1>2. /\ d.least \in Nat /\ d.most \in Nat /\ d.least <= d.most /\ d.most <= 3
    BY DebtFacts
  <1>3. CASE f.at \in {"call.done", "reconnect.failed", "reconnect.connected", "reconnect.hup"}
    <2>1. m = MostOfCall(f, d) /\ l = m
      BY <1>3, FamilyMost, LeastElse DEF CallBody, Choosing
    <2>2. f.at = "reconnect.connected" => d.least <= 1
      BY DEF Room, Retrying
    <2> HIDE DEF l, m
    <2> QED BY <1>2, <1>3, <2>1, <2>2 DEF MostOfCall, Over
  <1>4. CASE f.at = "reconnect.recalled"
    <2>1. m = MostOfCall(f, d) /\ l = 1 + d.least
      BY <1>4, FamilyMost DEF CallBody, Least
    <2>2. d.least <= 1
      BY <1>4 DEF Room, Retrying
    <2> HIDE DEF l, m
    <2> QED BY <1>2, <1>4, <2>1, <2>2 DEF MostOfCall
  <1>5. CASE f.at = "command.done"
    <2>1. m = MostOfCommand(f, d)
      BY <1>5, FamilyMost DEF CommandBody
    <2>2. d.most = 0
      BY <1>5 DEF Room, CommandBody
    <2>3. (f.flag => l = m) /\ (~f.flag => l = d.least)
      BY <1>5 DEF Least
    <2> HIDE DEF l, m
    <2> QED BY <1>1, <1>2, <1>5, <2>1, <2>2, <2>3 DEF MostOfCommand
  <1>6. CASE f.at = "capture.decode"
    <2>1. m = MostOfShot(f, d) /\ l = d.least
      BY <1>6, FamilyMost DEF ShotBody, Least
    <2> HIDE DEF l, m
    <2> QED BY <1>2, <1>6, <2>1 DEF MostOfShot
  <1>7. CASE f.at = "probe.done"
    <2>1. m = MostOfShot(f, d) /\ l = m
      BY <1>7, FamilyMost, LeastElse DEF ShotBody, Choosing
    <2>2. f.n <= 3 /\ d.most = 0
      BY <1>7 DEF Room, ShotBody
    <2> HIDE DEF l, m
    <2> QED BY <1>1, <1>2, <1>7, <2>1, <2>2 DEF MostOfShot
  <1>8. CASE f.at \in {"connect.listed", "connect.connected", "connect.server"}
    <2>1. m = MostOfLink(f, d) /\ l = m
      BY <1>8, FamilyMost, LeastElse DEF LinkBody, Choosing
    <2>2. d.least <= 1
      BY <1>8 DEF LinkBody, Room
    <2> HIDE DEF l, m
    <2> QED BY <1>2, <1>8, <2>1, <2>2 DEF MostOfLink
  <1>9. CASE f.at = "connect.answer"
    <2>1. m = MostOfLink(f, d)
      BY <1>9, FamilyMost DEF LinkBody
    <2>2. l = d.least
      BY <1>9 DEF Least
    <2>3. d.least <= 1
      BY <1>9 DEF LinkBody, Room
    <2> HIDE DEF l, m
    <2> QED BY <1>2, <1>9, <2>1, <2>2, <2>3 DEF MostOfLink
  <1>10. CASE f.at \in {"gesture.started", "gesture.sent"}
    <2>1. m = MostOfGesture(t, f) /\ (l = m \/ l = 0)
      BY <1>10, FamilyMost, LeastElse DEF GestureBody, Least, Choosing
    <2> HIDE DEF l, m
    <2> QED BY <2>1 DEF MostOfGesture
  <1>11. CASE f.at \in {"touch.connected", "touch.ready", "touch.probed"}
    <2>1. m = MostOfTouch(t, f, d) /\ d.least <= 1
      <3>1. f.at \in TouchBody
        BY <1>11 DEF TouchBody
      <3>2. d.least <= 1
        BY <3>1 DEF Room
      <3> QED BY <3>1, <3>2, FamilyMost
    <2>2. CASE f.at = "touch.connected"
      <3>1. l = d.least
        BY <2>2 DEF Least
      <3> HIDE DEF l, m
      <3>2. m = Installing(t, f.n, Found(f), d)
        BY <2>1, <2>2 DEF MostOfTouch
      <3>3. Spare(t, f.n, Found(f)) \in {0, 1}
        BY DEF Spare
      <3> QED BY <1>1, <1>2, <2>1, <3>1, <3>2, <3>3 DEF Installing
    <2>3. CASE f.at = "touch.ready"
      <3>1. l = d.least
        BY <2>3 DEF Least
      <3> HIDE DEF l, m
      <3> QED BY <1>2, <2>1, <2>3, <3>1 DEF MostOfTouch
    <2>4. CASE f.at = "touch.probed"
      <3>1. l = Spare(t, f.n, Found(f)) + d.least
        BY <2>4 DEF Least
      <3> HIDE DEF l, m
      <3>2. m = Installing(t, f.n + 1, 1, d)
        BY <2>1, <2>4 DEF MostOfTouch
      <3>3. Spare(t, f.n, Found(f)) \in {0, 1} /\ Spare(t, f.n + 1, 1) \in {0, 1}
        BY DEF Spare
      <3>4. Steps(t) \in {2, 4} /\ f.n \in Nat
        BY <1>1 DEF Steps
      <3>5. f.n + 1 > Steps(t) => Spare(t, f.n, Found(f)) = 0
        <4>1. CASE t = "minitouch"
          BY <1>1, <4>1 DEF Steps, Spare
        <4>2. CASE t # "minitouch"
          BY <4>2 DEF Spare
        <4> QED BY <4>1, <4>2
      <3>6. d.least \in Nat /\ d.most \in Nat /\ d.least <= 1 /\ d.most <= 3 /\ d.least <= d.most
        BY <1>2, <2>1
      <3>7. CASE f.n + 1 > Steps(t)
        <4>1. m = d.most
          BY <3>2, <3>7 DEF Installing
        <4> QED BY <3>1, <3>5, <3>6, <3>7, <4>1
      <3>8. CASE ~(f.n + 1 > Steps(t))
        <4>1. m = 1 + (Spare(t, f.n + 1, 1) + d.least)
          BY <3>2, <3>8 DEF Installing
        <4> QED BY <3>1, <3>3, <3>6, <4>1
      <3> QED BY <3>7, <3>8
    <2> QED BY <1>11, <2>2, <2>3, <2>4
  <1>12. CASE f.at \in {"ctrl.create", "ctrl.failed", "ctrl.looked", "ctrl.connected"}
    <2>1. m = MostOfCtrl(o, f) /\ (f.at # "ctrl.connected" => l = m)
      BY <1>12, FamilyMost, LeastElse DEF CtrlBody, Choosing
    <2>2. f.at = "ctrl.connected" => l = IF o \in AdbFamily THEN 1 ELSE 0
      BY DEF Least
    <2> HIDE DEF l, m
    <2> QED BY <1>12, <2>1, <2>2 DEF MostOfCtrl
  <1>13. CASE f.at \in {"image.taken", "image.last", "connected", "exited"}
    <2>1. m = MostOfClient(f) /\ l = m
      BY <1>13, FamilyMost, LeastElse DEF ClientBody, Choosing
    <2> HIDE DEF l, m
    <2> QED BY <2>1 DEF MostOfClient
  <1>14. CASE f.at \in {"release.done", "input.rewrite", "inject.started", "play.read", "play.write",
                        "play.touched"}
    <2>1. m = d.most
      BY <1>14, FamilyMost DEF InputBody, InjectBody, PlayCalls, CommitBody, PlayBody
    <2>2. l = m \/ l = d.least
      BY <1>14, LeastElse DEF Least, Choosing
    <2> HIDE DEF l, m
    <2> QED BY <1>2, <2>1, <2>2
  <1> HIDE DEF l, m
  <1> QED BY <1>3, <1>4, <1>5, <1>6, <1>7, <1>8, <1>9, <1>10, <1>11, <1>12, <1>13, <1>14
       DEF Waits, HupWaits

-----------------------------------------------------------------------------
(* What a step does to the debts.                                                  *)

LEMMA FrontDebt ==
  ASSUME Typed, NEW w, Chain(w), stack # <<>>
  PROVE  /\ w[1] \in Debts /\ Room(touch, inited, Top, w[1])
         /\ late + Due(touch, object, Top, w[1], result) <= 3
         /\ Len(stack) = 1 => w[1] = Nothing
         /\ Len(stack) > 1 => w[1].at = stack[2].at
  <1>1. Len(stack) \in Nat /\ Len(stack) > 0 /\ Top = stack[1]
    BY Popped DEF Typed, Top
  <1>2. w \in Seq(Debts) /\ Len(w) = Len(stack) /\ 1 \in 1 .. Len(stack)
    BY <1>1 DEF Chain
  <1>3. w[1] \in Debts
    BY <1>2
  <1>4. Room(touch, inited, Top, w[1]) /\ late + Due(touch, object, Top, w[1], result) <= 3
    BY <1>1, <1>2 DEF Chain
  <1>5. Len(stack) = 1 => w[1] = Nothing
    BY DEF Chain
  <1>6. Len(stack) > 1 => w[1].at = stack[2].at
    <2> SUFFICES ASSUME Len(stack) > 1 PROVE w[1].at = stack[2].at
      OBVIOUS
    <2>1. 1 \in 1 .. Len(stack) - 1 /\ 1 + 1 = 2
      BY <1>1
    <2>2. w[1] = Debt(touch, object, stack[2], w[2])
      BY <2>1 DEF Chain
    <2> QED BY <2>2 DEF Debt
  <1> QED BY <1>3, <1>4, <1>5, <1>6

LEMMA TailDebts ==
  ASSUME NEW s \in Seq(Debts), s # <<>>
  PROVE  /\ Tail(s) \in Seq(Debts) /\ Len(Tail(s)) = Len(s) - 1
         /\ \A i \in 1 .. Len(s) - 1 : Tail(s)[i] = s[i + 1]
  OBVIOUS

LEMMA MoreDebts ==
  ASSUME NEW s \in Seq(Debts), NEW d \in Debts, NEW t, t = <<d>> \o s
  PROVE  /\ t \in Seq(Debts) /\ Len(t) = Len(s) + 1 /\ t[1] = d
         /\ \A i \in 2 .. Len(t) : t[i] = s[i - 1]
  OBVIOUS

LEMMA LatePop ==
  ASSUME Typed, NEW w, Chain(w), RestOwed(w), stack # <<>>, stack' = Tail(stack),
         Len(stack) > 1 =>
           late' + (IF Fails(result') THEN w[1].least ELSE w[1].most) <= 3
  PROVE  \E v : Chain(v)'
  <1> DEFINE v == Tail(w)
  <1>1. /\ stack' \in Seq(Frames) /\ Len(stack') = Len(stack) - 1 /\ Len(stack) \in Nat
        /\ Len(stack) > 0 /\ \A i \in 1 .. Len(stack) - 1 : stack'[i] = stack[i + 1]
    BY Popped DEF Typed
  <1>2. w \in Seq(Debts) /\ Len(w) = Len(stack) /\ w[Len(stack)] = Nothing
    BY DEF Chain
  <1>3. w # <<>>
    BY <1>1, <1>2
  <1>4. /\ v \in Seq(Debts) /\ Len(v) = Len(stack')
        /\ \A i \in 1 .. Len(stack) - 1 : v[i] = w[i + 1]
    BY <1>1, <1>2, <1>3, TailDebts
  <1> HIDE DEF v
  <1>5. stack' # <<>> => Len(stack) > 1
    BY <1>1
  <1>6. stack' # <<>> => v[Len(stack')] = Nothing
    <2> SUFFICES ASSUME stack' # <<>> PROVE v[Len(stack')] = Nothing
      OBVIOUS
    <2>1. Len(stack') \in 1 .. Len(stack) - 1 /\ Len(stack') + 1 = Len(stack)
      BY <1>1, <1>5
    <2> QED BY <1>2, <1>4, <2>1
  <1>7. \A i \in 1 .. Len(stack') - 1 :
          v[i] = Debt(touch', object', stack'[i + 1], v[i + 1])
    <2> TAKE i \in 1 .. Len(stack') - 1
    <2>1. i \in 1 .. Len(stack) - 1 /\ i + 1 \in 1 .. Len(stack) - 1
      BY <1>1
    <2>2. w[i + 1] = Debt(touch', object', stack[(i + 1) + 1], w[(i + 1) + 1])
      BY <2>1 DEF RestOwed
    <2> QED BY <1>1, <1>4, <2>1, <2>2
  <1>8. \A i \in 1 .. Len(stack') : Room(touch', inited', stack'[i], v[i])
    <2> TAKE i \in 1 .. Len(stack')
    <2>1. i \in 1 .. Len(stack) - 1 /\ i + 1 \in 2 .. Len(stack)
      BY <1>1
    <2>2. Room(touch', inited', stack[i + 1], w[i + 1])
      BY <2>1 DEF RestOwed
    <2> QED BY <1>1, <1>4, <2>1, <2>2
  <1>9. stack' # <<>> => late' + Due(touch', object', Top', v[1], result') <= 3
    <2> SUFFICES ASSUME stack' # <<>>
                 PROVE  late' + Due(touch', object', Top', v[1], result') <= 3
      OBVIOUS
    <2>1. 1 \in 1 .. Len(stack) - 1 /\ Len(stack') > 0 /\ 1 + 1 = 2
      BY <1>1, <1>5
    <2>2. Top' = stack'[1]
      BY <1>1, <2>1 DEF Top
    <2>3. Top' = stack[2] /\ v[1] = w[2]
      BY <1>1, <1>4, <2>1, <2>2
    <2>4. w[1] = Debt(touch', object', Top', v[1])
      BY <2>1, <2>3 DEF RestOwed
    <2>5. /\ w[1].least = Least(touch', object', Top', v[1])
          /\ w[1].most = Most(touch', object', Top', v[1])
      BY <2>4 DEF Debt
    <2> QED BY <1>5, <2>5 DEF Due
  <1>10. Chain(v)'
    BY <1>4, <1>6, <1>7, <1>8, <1>9 DEF Chain
  <1> QED BY <1>10

LEMMA LateMove ==
  ASSUME Typed, Typed', NEW w, Chain(w), RestOwed(w), stack # <<>>,
         NEW f, stack' = <<f>> \o Tail(stack),
         Room(touch', inited', f, w[1]), late' + Due(touch', object', f, w[1], result') <= 3
  PROVE  \E v : Chain(v)'
  <1>1. Tail(stack) \in Seq(Frames) /\ stack' \in Seq(Frames)
    BY Popped DEF Typed
  <1>2. /\ Len(stack') = Len(stack) /\ stack'[1] = f /\ stack' # <<>>
        /\ \A i \in 2 .. Len(stack) : stack'[i] = stack[i]
    BY <1>1, FrontFrame, Replaced DEF Typed
  <1>3. Len(stack) \in Nat /\ Len(stack) > 0
    BY Popped DEF Typed
  <1>4. w \in Seq(Debts) /\ Len(w) = Len(stack') /\ w[Len(stack')] = Nothing
    BY <1>2 DEF Chain
  <1>5. \A i \in 1 .. Len(stack') - 1 :
          w[i] = Debt(touch', object', stack'[i + 1], w[i + 1])
    <2> TAKE i \in 1 .. Len(stack') - 1
    <2>1. i \in 1 .. Len(stack) - 1 /\ i + 1 \in 2 .. Len(stack)
      BY <1>2, <1>3
    <2> QED BY <1>2, <2>1 DEF RestOwed
  <1>6. \A i \in 1 .. Len(stack') : Room(touch', inited', stack'[i], w[i])
    <2> TAKE i \in 1 .. Len(stack')
    <2>1. i = 1 \/ i \in 2 .. Len(stack)
      BY <1>2, <1>3
    <2> QED BY <1>2, <2>1 DEF RestOwed
  <1>7. Top' = f
    BY <1>2, <1>3 DEF Top
  <1>8. Chain(w)'
    BY <1>4, <1>5, <1>6, <1>7 DEF Chain
  <1> QED BY <1>8

LEMMA LatePush ==
  ASSUME Typed, Typed', NEW w, Chain(w), RestOwed(w), stack # <<>>,
         NEW f, NEW g, stack' = <<g, f>> \o Tail(stack), f.at \in Waits,
         Room(touch', inited', f, w[1]),
         NEW d, d = Debt(touch', object', f, w[1]),
         Room(touch', inited', g, d), late' + Due(touch', object', g, d, result') <= 3
  PROVE  \E v : Chain(v)'
  <1>1. Tail(stack) \in Seq(Frames) /\ stack' \in Seq(Frames)
    BY Popped DEF Typed
  <1>2. /\ Len(stack') = Len(stack) + 1 /\ stack'[1] = g /\ stack'[2] = f /\ stack' # <<>>
        /\ \A i \in 3 .. Len(stack') : stack'[i] = stack[i - 1]
        /\ f \in Frames
    BY <1>1, FrontFrames, Entered DEF Typed
  <1>3. Len(stack) \in Nat /\ Len(stack) > 0
    BY Popped DEF Typed
  <1>4. w \in Seq(Debts) /\ Len(w) = Len(stack) /\ w[Len(stack)] = Nothing /\ w[1] \in Debts
    BY FrontDebt DEF Chain
  <1>5. d \in Debts
    BY <1>2, <1>4, DebtFits
  <1> DEFINE v == <<d>> \o w
  <1>6. /\ v \in Seq(Debts) /\ Len(v) = Len(stack') /\ v[1] = d
        /\ \A i \in 2 .. Len(stack') : v[i] = w[i - 1]
    BY <1>2, <1>4, <1>5, MoreDebts
  <1> HIDE DEF v
  <1>7. v[Len(stack')] = Nothing
    <2>1. Len(stack') \in 2 .. Len(stack') /\ Len(stack') - 1 = Len(stack)
      BY <1>2, <1>3
    <2> QED BY <1>4, <1>6, <2>1
  <1>8. v[2] = w[1]
    <2>1. 2 \in 2 .. Len(stack') /\ 2 - 1 = 1
      BY <1>2, <1>3
    <2> QED BY <1>6, <2>1
  <1>9. \A i \in 1 .. Len(stack') - 1 :
          v[i] = Debt(touch', object', stack'[i + 1], v[i + 1])
    <2> TAKE i \in 1 .. Len(stack') - 1
    <2>1. CASE i = 1
      <3>1. 1 + 1 = 2
        OBVIOUS
      <3> QED BY <1>2, <1>6, <1>8, <2>1, <3>1
    <2>2. CASE i # 1
      <3>1. /\ i \in 2 .. Len(stack') /\ i + 1 \in 3 .. Len(stack') /\ i + 1 \in 2 .. Len(stack')
            /\ (i + 1) - 1 = i /\ i - 1 \in 1 .. Len(stack) - 1 /\ (i - 1) + 1 = i
        BY <1>2, <1>3, <2>2
      <3>2. w[i - 1] = Debt(touch', object', stack[i], w[i])
        BY <3>1 DEF RestOwed
      <3>3. v[i] = w[i - 1] /\ v[i + 1] = w[i] /\ stack'[i + 1] = stack[i]
        BY <1>2, <1>6, <3>1
      <3> QED BY <3>2, <3>3
    <2> QED BY <2>1, <2>2
  <1>10. \A i \in 1 .. Len(stack') : Room(touch', inited', stack'[i], v[i])
    <2> TAKE i \in 1 .. Len(stack')
    <2>1. i = 1 \/ i = 2 \/ i \in 3 .. Len(stack')
      BY <1>2, <1>3
    <2>2. CASE i = 1 \/ i = 2
      BY <1>2, <1>6, <1>8, <2>2
    <2>3. CASE i \in 3 .. Len(stack')
      <3>1. i - 1 \in 2 .. Len(stack) /\ i \in 2 .. Len(stack')
        BY <1>2, <1>3, <2>3
      <3>2. Room(touch', inited', stack[i - 1], w[i - 1])
        BY <3>1 DEF RestOwed
      <3> QED BY <1>2, <1>6, <2>3, <3>1, <3>2
    <2> QED BY <2>1, <2>2, <2>3
  <1>11. Top' = g
    BY <1>2, <1>3 DEF Top
  <1>12. Chain(v)'
    BY <1>6, <1>7, <1>9, <1>10, <1>11 DEF Chain
  <1> QED BY <1>12

\* Nothing below the innermost call depends on what a step does that neither makes
\* a new controller nor finds out that it works.
LEMMA NothingOwed ==
  ASSUME NEW w, Chain(w), touch' = touch, object' = object, inited' => inited, Typed
  PROVE  RestOwed(w)
  <1>1. \A i \in 2 .. Len(stack) : i \in 1 .. Len(stack)
    BY DEF Typed
  <1>2. \A f, d : Room(touch, inited, f, d) => Room(touch', inited', f, d)
    BY DEF Room
  <1> QED BY <1>1, <1>2 DEF RestOwed, Chain

-----------------------------------------------------------------------------
(* The forms of a step.                                                            *)

\* Nothing that is counted changes.
Still == UNCHANGED <<late, need_exit>> /\ (inited' => method' # "UnknownYet")
Settled == Still /\ UNCHANGED <<touch, object>> /\ (inited' => inited)

LEMMA LateSame ==
  ASSUME LateInv, Still, stack # <<>>, \E v : Chain(v)'
  PROVE  LateInv'
  BY DEF LateInv, Still

LEMMA NowAfter ==
  ASSUME NEW t, NEW o, NEW f, NEW d
  PROVE  /\ Due(t, o, f, d, "void") = Most(t, o, f, d)
         /\ \A r : f.at \notin Choosing => Due(t, o, f, d, r) = Most(t, o, f, d)
  BY LeastElse DEF Due, Fails

LEMMA JumpLate ==
  ASSUME Typed, Typed', NEW w, Chain(w), RestOwed(w), stack # <<>>,
         NEW l \in Labels, Jump(l),
         \A f \in Frames : f.at = l /\ f.cmd = Top.cmd /\ f.flag = Top.flag /\ f.n = Top.n =>
           Room(touch', inited', f, w[1]) /\ late' + Most(touch', object', f, w[1]) <= 3
  PROVE  \E v : Chain(v)'
  <1> DEFINE f == [Top EXCEPT !.at = l]
  <1>1. f \in Frames /\ f.at = l /\ f.cmd = Top.cmd /\ f.flag = Top.flag /\ f.n = Top.n
    BY TopFrame, FrameMoved
  <1>2. stack' = <<f>> \o Tail(stack) /\ result' = "void"
    BY DEF Jump, Goto, Replace
  <1> HIDE DEF f
  <1>3. Room(touch', inited', f, w[1]) /\ late' + Most(touch', object', f, w[1]) <= 3
    BY <1>1
  <1>4. late' + Due(touch', object', f, w[1], result') <= 3
    BY <1>2, <1>3, NowAfter
  <1> QED BY <1>2, <1>3, <1>4, LateMove

LEMMA AgainLate ==
  ASSUME Typed, Typed', NEW w, Chain(w), RestOwed(w), stack # <<>>,
         NEW l \in Labels, Again(l),
         \A f \in Frames : f.at = l /\ f.cmd = Top.cmd /\ f.flag = Top.flag /\ f.n = Top.n + 1 =>
           Room(touch', inited', f, w[1]) /\ late' + Due(touch', object', f, w[1], result) <= 3
  PROVE  \E v : Chain(v)'
  <1> DEFINE f == [Top EXCEPT !.at = l, !.n = @ + 1]
  <1>1. f \in Frames /\ f.at = l /\ f.cmd = Top.cmd /\ f.flag = Top.flag /\ f.n = Top.n + 1
    BY TopFrame, FrameRepeated
  <1>2. stack' = <<f>> \o Tail(stack) /\ result' = result
    BY DEF Again, Repeat, Replace
  <1> HIDE DEF f
  <1>3. Room(touch', inited', f, w[1]) /\ late' + Due(touch', object', f, w[1], result') <= 3
    BY <1>1, <1>2
  <1> QED BY <1>2, <1>3, LateMove

LEMMA ReturnLate ==
  ASSUME Typed, NEW w, Chain(w), RestOwed(w), stack # <<>>, NEW v, Return(v),
         late' + (IF Fails(v) THEN w[1].least ELSE w[1].most) <= 3
  PROVE  \E u : Chain(u)'
  <1>1. stack' = Tail(stack)
    BY DEF Return
  <1>2. Len(stack) > 1 => result' = v
    <2> SUFFICES ASSUME Len(stack) > 1 PROVE result' = v
      OBVIOUS
    <2>1. Len(Tail(stack)) = Len(stack) - 1 /\ Len(stack) \in Nat
      BY Popped DEF Typed
    <2>2. Tail(stack) # <<>>
      <3>1. Len(Tail(stack)) # 0
        BY <2>1
      <3>2. Len(<<>>) = 0
        OBVIOUS
      <3> QED BY <3>1, <3>2, Zenon
    <2> QED BY <2>2 DEF Return
  <1> QED BY <1>1, <1>2, LatePop

LEMMA CallLate ==
  ASSUME Typed, Typed', NEW w, Chain(w), RestOwed(w), stack # <<>>,
         NEW l \in Labels, l \in Waits, NEW g, Call(g, l),
         \A f \in Frames : f.at = l /\ f.cmd = Top.cmd /\ f.flag = Top.flag /\ f.n = Top.n =>
           LET d == Debt(touch', object', f, w[1])
           IN  /\ Room(touch', inited', f, w[1])
               /\ Room(touch', inited', g, d)
               /\ late' + Most(touch', object', g, d) <= 3
  PROVE  \E v : Chain(v)'
  <1> DEFINE f == [Top EXCEPT !.at = l]
  <1>1. f \in Frames /\ f.at = l /\ f.cmd = Top.cmd /\ f.flag = Top.flag /\ f.n = Top.n
    BY TopFrame, FrameMoved
  <1>2. stack' = <<g, f>> \o Tail(stack) /\ result' = "void"
    BY DEF Call, Enter
  <1> HIDE DEF f
  <1> DEFINE d == Debt(touch', object', f, w[1])
  <1>3. /\ Room(touch', inited', f, w[1]) /\ Room(touch', inited', g, d)
        /\ late' + Most(touch', object', g, d) <= 3
    BY <1>1
  <1>4. d = Debt(touch', object', f, w[1])
    OBVIOUS
  <1> HIDE DEF d
  <1>5. late' + Due(touch', object', g, d, result') <= 3
    BY <1>2, <1>3, NowAfter
  <1> QED BY <1>1, <1>2, <1>3, <1>4, <1>5, LatePush

-----------------------------------------------------------------------------
(* Calls that begin no command of their own and hand on what they are answered.    *)

FlatBody ==
  (IOBody \ {"io"}) \cup {"release.done"} \cup HupBody \cup {"input"} \cup OpenBody \cup CommitBody
    \cup PlayBody \cup PlayCalls \cup UnitBody \cup UnitCalls

LEMMA FlatFacts ==
  ASSUME NEW f, f.at \in FlatBody
  PROVE  /\ \A t, o, d, r : Due(t, o, f, d, r) = d.most /\ Most(t, o, f, d) = d.most
         /\ \A t, o, d : Least(t, o, f, d) = d.most
         /\ \A t, e, d : Room(t, e, f, d)
         /\ f.at \in Labels
  <1>1. \A t, o, d : Most(t, o, f, d) = d.most
    BY FamilyMost DEF FlatBody, InputBody
  <1>2. f.at \notin Choosing
    BY DEF FlatBody, Choosing, IOBody, HupBody, OpenBody, CommitBody, PlayBody, PlayCalls, UnitBody,
           UnitCalls
  <1>3. /\ f.at \notin Retrying \cup LinkBody \cup TouchBody
        /\ f.at \notin {"call", "call.done", "capture", "screencap", "probe", "probe.done"}
    BY DEF FlatBody, Retrying, LinkBody, TouchBody, IOBody, HupBody, OpenBody, CommitBody, PlayBody,
           PlayCalls, UnitBody, UnitCalls
  <1>4. f.at \notin CommandBody \cup CtrlBody /\ f.at \notin Imaging
    BY DEF FlatBody, CommandBody, CtrlBody, Imaging, IOBody, HupBody, OpenBody, CommitBody, PlayBody,
           PlayCalls, UnitBody, UnitCalls
  <1>5. f.at \notin LinkBody /\ f.at \notin TouchBody
    BY <1>3
  <1>6. \A t, e, d : Room(t, e, f, d)
    BY <1>3, <1>4 DEF Room, Able, LinkBody, TouchBody
  <1>7. f.at \in Labels
    BY DEF FlatBody, Labels, ReleaseBody, InputBody
  <1> QED BY <1>1, <1>2, <1>6, <1>7, NowAfter, LeastElse

LEMMA FlatMost ==
  ASSUME NEW f, f.at \in FlatBody, NEW t, NEW o, NEW e, NEW d
  PROVE  Most(t, o, f, d) = d.most /\ Room(t, e, f, d)
  <1>1. \A u, x, y : Most(u, x, f, y) = y.most
    BY FamilyMost DEF FlatBody, InputBody
  <1>2. \A u, x, y : Room(u, x, f, y)
    BY FlatFacts
  <1> QED BY <1>1, <1>2

Flat(f) == f.at \in FlatBody
Flow ==
  /\ stack # <<>> /\ Flat(Top)
  /\ \/ stack' = Tail(stack)
     \/ \E f : stack' = <<f>> \o Tail(stack) /\ Flat(f)
     \/ \E f, g : stack' = <<g, f>> \o Tail(stack) /\ Flat(f) /\ Flat(g) /\ f.at \in Waits

LEMMA LateFlow ==
  ASSUME Typed, Typed', LateInv, Settled, Flow
  PROVE  LateInv'
  <1> SUFFICES \E v : Chain(v)'
    BY LateSame DEF Settled, Flow
  <1>1. PICK w : Chain(w)
    BY DEF LateInv
  <1>2. RestOwed(w)
    BY <1>1, NothingOwed DEF Settled
  <1>3. stack # <<>> /\ Top.at \in FlatBody
    BY DEF Flow, Flat
  <1>4. late + w[1].most <= 3 /\ w[1] \in Debts
    <2>1. Due(touch, object, Top, w[1], result) = w[1].most
      BY <1>3, FlatFacts
    <2> QED BY <1>1, <1>3, <2>1, FrontDebt
  <1>5. late' = late
    BY DEF Settled, Still
  <1>6. CASE stack' = Tail(stack)
    <2>1. w[1].least <= w[1].most /\ w[1].least \in Nat /\ w[1].most \in Nat
      BY <1>4, DebtFacts
    <2>2. late + w[1].least <= 3
      BY <1>4, <2>1 DEF LateInv
    <2>3. late' + (IF Fails(result') THEN w[1].least ELSE w[1].most) <= 3
      BY <1>4, <1>5, <2>2
    <2> QED BY <1>1, <1>2, <1>3, <1>6, <2>3, LatePop
  <1>7. ASSUME NEW f, stack' = <<f>> \o Tail(stack), Flat(f) PROVE \E v : Chain(v)'
    <2>1. Room(touch', inited', f, w[1]) /\ Due(touch', object', f, w[1], result') = w[1].most
      BY <1>7, FlatFacts DEF Flat
    <2>2. late' + Due(touch', object', f, w[1], result') <= 3
      BY <1>4, <1>5, <2>1
    <2> QED BY <1>1, <1>2, <1>3, <1>7, <2>1, <2>2, LateMove
  <1>8. ASSUME NEW f, NEW g, stack' = <<g, f>> \o Tail(stack), Flat(f), Flat(g), f.at \in Waits
        PROVE  \E v : Chain(v)'
    <2> DEFINE d == Debt(touch', object', f, w[1])
    <2>1. Room(touch', inited', f, w[1]) /\ Room(touch', inited', g, d)
      BY <1>8, FlatFacts DEF Flat
    <2>2. d.most = w[1].most
      <3>1. Most(touch', object', f, w[1]) = w[1].most
        BY <1>8, FlatMost DEF Flat
      <3>2. d.most = Most(touch', object', f, w[1])
        BY DEF Debt
      <3> QED BY <3>1, <3>2
    <2>3. Due(touch', object', g, d, result') = d.most
      BY <1>8, FlatFacts DEF Flat
    <2>4. d = Debt(touch', object', f, w[1])
      OBVIOUS
    <2> HIDE DEF d
    <2>5. late' + Due(touch', object', g, d, result') <= 3
      BY <1>4, <1>5, <2>2, <2>3
    <2> QED BY <1>1, <1>2, <1>3, <1>8, <2>1, <2>4, <2>5, LatePush
  <1> QED BY <1>6, <1>7, <1>8 DEF Flow

Flowing == Flow /\ UNCHANGED need_exit

LEMMA SettledBy ==
  ASSUME LateInv, UNCHANGED <<late, need_exit, inited, method, touch, object>>
  PROVE  Settled
  BY DEF LateInv, Settled, Still

LEMMA FlowKeeps ==
  ASSUME Typed, Typed', LateInv, Flowing, UNCHANGED <<late, inited, method, touch, object>>
  PROVE  LateInv'
  BY SettledBy, LateFlow DEF Flowing

LEMMA JumpFlow ==
  ASSUME Typed, stack # <<>>, Flat(Top), NEW l \in FlatBody, Jump(l)
  PROVE  Flowing
  <1> DEFINE f == [Top EXCEPT !.at = l]
  <1>1. l \in Labels
    BY DEF FlatBody, Labels, ReleaseBody, InputBody
  <1>2. f \in Frames /\ f.at = l
    BY <1>1, TopFrame, FrameMoved
  <1>3. stack' = <<f>> \o Tail(stack) /\ need_exit' = need_exit
    BY DEF Jump, Goto, Replace
  <1> HIDE DEF f
  <1> QED BY <1>2, <1>3 DEF Flowing, Flow, Flat

LEMMA AgainFlow ==
  ASSUME Typed, stack # <<>>, Flat(Top), NEW l \in FlatBody, Again(l)
  PROVE  Flowing
  <1> DEFINE f == [Top EXCEPT !.at = l, !.n = @ + 1]
  <1>1. l \in Labels
    BY DEF FlatBody, Labels, ReleaseBody, InputBody
  <1>2. f \in Frames /\ f.at = l
    BY <1>1, TopFrame, FrameRepeated
  <1>3. stack' = <<f>> \o Tail(stack) /\ need_exit' = need_exit
    BY DEF Again, Repeat, Replace
  <1> HIDE DEF f
  <1> QED BY <1>2, <1>3 DEF Flowing, Flow, Flat

LEMMA ReturnFlow ==
  ASSUME stack # <<>>, Flat(Top), NEW v, Return(v)
  PROVE  Flowing
  BY DEF Return, Flowing, Flow

LEMMA ReplaceFlow ==
  ASSUME stack # <<>>, Flat(Top), NEW f, Flat(f), Replace(f), UNCHANGED need_exit
  PROVE  Flowing
  BY DEF Replace, Flowing, Flow

LEMMA CallFlow ==
  ASSUME Typed, stack # <<>>, Flat(Top), NEW l \in FlatBody, l \in Waits, NEW g, Flat(g), Call(g, l)
  PROVE  Flowing
  <1> DEFINE f == [Top EXCEPT !.at = l]
  <1>1. l \in Labels
    BY DEF FlatBody, Labels, ReleaseBody, InputBody
  <1>2. f \in Frames /\ f.at = l
    BY <1>1, TopFrame, FrameMoved
  <1>3. stack' = <<g, f>> \o Tail(stack) /\ need_exit' = need_exit
    BY DEF Call, Enter
  <1> HIDE DEF f
  <1> QED BY <1>2, <1>3 DEF Flowing, Flow, Flat

LEMMA LateUnit == ASSUME Typed, Typed', LateInv, Unit PROVE LateInv'
  <1>1. UNCHANGED <<late, inited, method, touch, object>>
    BY DEF Unit, ioVars, adbVars, shotVars, touchVars, ctrlVars
  <1> SUFFICES Flowing
    BY <1>1, FlowKeeps
  <1>2. UnitBody \cup UnitCalls \subseteq FlatBody
    BY DEF FlatBody
  <1>3. Top.at \in UnitBody \cup UnitCalls => Flat(Top)
    BY <1>2 DEF Flat
  <1> USE DEF At, UnitBody, UnitCalls
  <1>4. CASE AdbUnitConnect \/ Attach32 \/ NativeConnect
    BY <1>4, <1>2, <1>3, JumpFlow DEF AdbUnitConnect, Attach32, NativeConnect
  <1>5. CASE AdbLibrary \/ Win32Library \/ NativeLibrary \/ NativeConfigure
    BY <1>5, <1>2, <1>3, JumpFlow, ReturnFlow
       DEF AdbLibrary, Win32Library, NativeLibrary, NativeConfigure
  <1>6. CASE UnitCreate \/ UnitLink
    BY <1>6, <1>2, <1>3, JumpFlow, ReturnFlow DEF UnitCreate, UnitLink
  <1>7. CASE AdbUnitLook \/ Win32Look \/ NativeReady
    BY <1>7, <1>3, ReturnFlow DEF AdbUnitLook, Win32Look, NativeReady
  <1>8. CASE AdbUnitShot \/ Win32Shot \/ NativeShot
    BY <1>8, <1>3, ReturnFlow DEF AdbUnitShot, Win32Shot, NativeShot
  <1>9. CASE UnitWhole \/ UnitLift
    BY <1>9, <1>3, ReturnFlow DEF UnitWhole, UnitLift
  <1>10. CASE UnitTouch
    <2>1. stack # <<>> /\ Top.at = "unit.gesture"
      BY <1>10 DEF UnitTouch
    <2>2. \/ Again("unit.gesture") \/ Jump("unit.lift") \/ Return("yes") \/ Return("no")
      BY <1>10 DEF UnitTouch
    <2> QED BY <1>2, <1>3, <2>1, <2>2, JumpFlow, AgainFlow, ReturnFlow
  <1>11. CASE AdbUnitInject \/ Win32Inject \/ NativeInject
    BY <1>11, <1>3, ReturnFlow DEF AdbUnitInject, Win32Inject, NativeInject
  <1>12. CASE AdbUnitCommand \/ AdbUnitEsc \/ NativeCommand
    BY <1>12, <1>3, ReturnFlow DEF AdbUnitCommand, AdbUnitEsc, NativeCommand
  <1>13. CASE NativeEsc \/ Win32Esc \/ KeyUp
    BY <1>13, <1>2, <1>3, JumpFlow, ReturnFlow DEF NativeEsc, Win32Esc, KeyUp
  <1>14. CASE Win32Input \/ Win32Start \/ StopWindow
    BY <1>14, <1>2, <1>3, JumpFlow, ReturnFlow DEF Win32Input, Win32Start, StopWindow
  <1>15. CASE StopProcess \/ StopByForce
    BY <1>15, <1>2, <1>3, JumpFlow, ReturnFlow DEF StopProcess, StopByForce
  <1> QED BY <1>4, <1>5, <1>6, <1>7, <1>8, <1>9, <1>10, <1>11, <1>12, <1>13, <1>14, <1>15
       DEF Unit, UnitStep

LEMMA LatePlay == ASSUME Typed, Typed', LateInv, Play PROVE LateInv'
  <1>1. UNCHANGED <<late, inited, method, touch, object>>
    BY DEF Play, ioVars, adbVars, shotVars, touchVars, ctrlVars
  <1> SUFFICES Flowing
    BY <1>1, FlowKeeps
  <1>2. OpenBody \cup CommitBody \cup PlayBody \cup PlayCalls \subseteq FlatBody
    BY DEF FlatBody
  <1>3. Top.at \in OpenBody \cup CommitBody \cup PlayBody \cup PlayCalls => Flat(Top)
    BY <1>2 DEF Flat
  <1>4. Flat(Open)
    BY <1>2 DEF Open, Frame, Flat, OpenBody
  <1>5. {"play.read", "play.write", "play.touched"} \subseteq Waits
    BY DEF Waits
  <1> USE DEF At, OpenBody, CommitBody, PlayBody, PlayCalls
  <1>6. CASE PlayOpen \/ PlayAsk
    BY <1>6, <1>2, <1>3, JumpFlow, AgainFlow, ReturnFlow DEF PlayOpen, PlayAsk
  <1>7. CASE PlayOpened \/ PlayRead \/ PlayWrite
    BY <1>7, <1>3, ReturnFlow DEF PlayOpened, PlayRead, PlayWrite
  <1>8. CASE PlayConnect
    BY <1>8, <1>2, <1>3, <1>4, ReplaceFlow DEF PlayConnect, callVars
  <1>9. CASE PlayShot
    BY <1>9, <1>2, <1>3, <1>4, <1>5, CallFlow, ReturnFlow DEF PlayShot
  <1>10. CASE PlayCommit
    BY <1>10, <1>2, <1>3, <1>4, <1>5, CallFlow DEF PlayCommit
  <1>11. CASE PlayGesture
    <2>1. stack # <<>> /\ Top.at = "play.gesture"
      BY <1>11 DEF PlayGesture
    <2>2. CASE Return(result)
      BY <1>3, <2>1, <2>2, ReturnFlow
    <2>3. CASE ~(Top.n > Len(PlayGestures[Top.cmd]))
               /\ Call(Commit(PlayGestures[Top.cmd][Top.n]), "play.touched")
      <3> DEFINE g == Commit(PlayGestures[Top.cmd][Top.n])
      <3>1. g.at = "play.commit"
        BY DEF Commit, Frame
      <3>2. Call(g, "play.touched")
        BY <2>3
      <3> HIDE DEF g
      <3>3. Flat(g) /\ Flat(Top) /\ "play.touched" \in FlatBody
        BY <1>2, <1>3, <2>1, <3>1 DEF Flat
      <3> QED BY <1>5, <2>1, <3>2, <3>3, CallFlow
    <2> QED BY <1>11, <2>2, <2>3 DEF PlayGesture
  <1>12. CASE PlayTouched
    BY <1>12, <1>2, <1>3, AgainFlow, ReturnFlow DEF PlayTouched
  <1>13. CASE PlayCommand \/ PlayEsc
    BY <1>13, <1>3, ReturnFlow DEF PlayCommand, PlayEsc
  <1> QED BY <1>6, <1>7, <1>8, <1>9, <1>10, <1>11, <1>12, <1>13 DEF Play, PlayStep

\* A command begins; it is counted after a stop.
LEMMA LateCommand ==
  ASSUME Typed, Typed', LateInv, At("io"), CountLate, UNCHANGED <<need_exit, inited, method>>,
         UNCHANGED <<touch, object>>,
         (\E v : Return(v)) \/ (\E l \in FlatBody : Jump(l))
  PROVE  LateInv'
  <1>0. stack # <<>> /\ Top.at = "io"
    BY DEF At
  <1>1. PICK w : Chain(w)
    BY DEF LateInv
  <1>2. RestOwed(w)
    BY <1>1, NothingOwed
  <1>3. w[1] \in Debts /\ late + Due(touch, object, Top, w[1], result) <= 3
    BY <1>0, <1>1, FrontDebt
  <1>4. late + (1 + w[1].most) <= 3
    <2>1. Due(touch, object, Top, w[1], result) = 1 + w[1].most
      <3>1. Most(touch, object, Top, w[1]) = 1 + w[1].most
        BY <1>0, FamilyMost
      <3>2. Top.at \notin Choosing
        BY <1>0 DEF Choosing
      <3>3. Due(touch, object, Top, w[1], result) = Most(touch, object, Top, w[1])
        BY <3>2, NowAfter
      <3> QED BY <3>1, <3>3
    <2> QED BY <1>3, <2>1
  <1>5. late \in Nat /\ w[1].most \in Nat /\ w[1].least \in Nat /\ w[1].least <= w[1].most
    BY <1>3, DebtFacts DEF LateInv
  <1>6. late' = late \/ (late' = late + 1 /\ need_exit)
    BY DEF CountLate
  <1>7. late' \in Nat /\ late' <= 3 /\ late' + w[1].most <= 3 /\ late' + w[1].least <= 3
    BY <1>4, <1>5, <1>6
  <1>8. \E v : Chain(v)'
    <2>1. CASE \E v : Return(v)
      BY <1>0, <1>1, <1>2, <1>7, <2>1, ReturnLate
    <2>2. CASE \E l \in FlatBody : Jump(l)
      <3>1. PICK l \in FlatBody : Jump(l)
        BY <2>2
      <3>2. l \in Labels
        BY DEF FlatBody, Labels, ReleaseBody, InputBody
      <3>3. \A f \in Frames : f.at = l =>
              /\ Room(touch', inited', f, w[1])
              /\ late' + Most(touch', object', f, w[1]) <= 3
        <4> SUFFICES ASSUME NEW f \in Frames, f.at = l
                     PROVE  /\ Room(touch', inited', f, w[1])
                            /\ late' + Most(touch', object', f, w[1]) <= 3
          OBVIOUS
        <4>1. Room(touch', inited', f, w[1]) /\ Most(touch', object', f, w[1]) = w[1].most
          BY FlatFacts
        <4> QED BY <1>7, <4>1
      <3> QED BY <1>0, <1>1, <1>2, <3>1, <3>2, <3>3, JumpLate
    <2> QED BY <2>1, <2>2
  <1>9. stack # <<>> /\ ~need_exit => late' = 0
    BY <1>6 DEF LateInv
  <1> QED BY <1>0, <1>7, <1>8, <1>9 DEF LateInv

LEMMA LateIO == ASSUME Typed, Typed', LateInv, IO PROVE LateInv'
  <1>1. UNCHANGED <<inited, method, touch, object>>
    BY DEF IO, adbVars, shotVars, touchVars, ctrlVars
  <1>2. IOBody \ {"io"} \subseteq FlatBody
    BY DEF FlatBody
  <1>3. Top.at \in IOBody \ {"io"} => Flat(Top)
    BY <1>2 DEF Flat
  <1>4. ASSUME Flowing, late' = late PROVE LateInv'
    BY <1>1, <1>4, FlowKeeps
  <1>5. ASSUME NEW l \in FlatBody, At("io"), CountLate, Jump(l) PROVE LateInv'
    <2>1. need_exit' = need_exit
      BY <1>5 DEF Jump
    <2> QED BY <1>1, <1>5, <2>1, LateCommand
  <1>6. ASSUME NEW v, At("io"), CountLate, Return(v) PROVE LateInv'
    <2>1. need_exit' = need_exit
      BY <1>6 DEF Return
    <2> QED BY <1>1, <1>6, <2>1, LateCommand
  <1>7. {"io.native", "lite.request", "posix.socket", "posix.drain", "win32.wait"} \subseteq FlatBody
    BY <1>2 DEF IOBody
  <1>8. Top.at \in {"io.native", "lite.request", "posix.socket", "posix.drain", "win32.wait"} => Flat(Top)
    BY <1>7 DEF Flat
  <1>9. CASE LiteRefuses \/ LiteBegins
    BY <1>5, <1>7, <1>9 DEF LiteRefuses, LiteBegins
  <1>10. CASE LiteOkay
    BY <1>4, <1>7, <1>8, <1>10, AgainFlow DEF LiteOkay, At, ioVars
  <1>11. CASE LiteMessage \/ LiteData \/ LitePushed
    BY <1>4, <1>8, <1>11, ReturnFlow DEF LiteMessage, LiteData, LitePushed, At, ioVars
  <1>12. CASE LiteThrows
    BY <1>4, <1>7, <1>8, <1>12, JumpFlow, ReturnFlow DEF LiteThrows, At, ioVars
  <1>13. CASE PosixFork
    <2>1. CASE At("io")
      BY <1>5, <1>6, <1>7, <1>13, <2>1 DEF PosixFork, NativeBegins
    <2>2. CASE ~At("io")
      BY <1>4, <1>7, <1>8, <1>13, <2>2, JumpFlow, ReturnFlow DEF PosixFork, NativeBegins, At
    <2> QED BY <2>1, <2>2
  <1>14. CASE Win32Create
    <2>1. CASE At("io")
      BY <1>5, <1>6, <1>7, <1>14, <2>1 DEF Win32Create, NativeBegins
    <2>2. CASE ~At("io")
      BY <1>4, <1>7, <1>8, <1>14, <2>2, JumpFlow, ReturnFlow DEF Win32Create, NativeBegins, At
    <2> QED BY <2>1, <2>2
  <1>15. CASE PosixSocket \/ PosixDrain
    BY <1>4, <1>7, <1>8, <1>15, JumpFlow, ReturnFlow DEF PosixSocket, PosixDrain, At, ioVars
  <1>16. CASE Win32Ended \/ Win32TimedOut \/ Win32Cut
    BY <1>4, <1>8, <1>16, ReturnFlow DEF Win32Ended, Win32TimedOut, Win32Cut, At, ioVars
  <1> QED BY <1>9, <1>10, <1>11, <1>12, <1>13, <1>14, <1>15, <1>16 DEF IO, IOStep

-----------------------------------------------------------------------------
(* The other calls: what is owed in each place.                                    *)

\* What is known of the debt d below the innermost call.
Here(d) ==
  /\ d \in Debts /\ Room(touch, inited, Top, d)
  /\ late + Due(touch, object, Top, d, result) <= 3
  /\ Len(stack) = 1 => d = Nothing
  /\ Len(stack) > 1 => d.at = stack[2].at
\* A call f could stand there in its place.
Bears(f, d) == Room(touch, inited, f, d) /\ late + Most(touch, object, f, d) <= 3
\* It is the innermost one, gone on to l.
Moved(f, l, n) == f \in Frames /\ f.at = l /\ f.cmd = Top.cmd /\ f.flag = Top.flag /\ f.n = n

LEMMA HereFacts ==
  ASSUME LateInv, stack # <<>>, NEW d, Here(d)
  PROVE  /\ late \in Nat /\ late <= 3 /\ (~need_exit => late = 0)
         /\ d.least \in Nat /\ d.most \in Nat /\ d.least <= d.most /\ d.most <= 3
         /\ Top.at \notin Choosing => late + Most(touch, object, Top, d) <= 3
         /\ Top.at \in Choosing /\ Fails(result) => late + Least(touch, object, Top, d) <= 3
         /\ Top.at \in Choosing /\ ~Fails(result) => late + Most(touch, object, Top, d) <= 3
  <1>1. d.least \in Nat /\ d.most \in Nat /\ d.least <= d.most /\ d.most <= 3
    BY DebtFacts DEF Here
  <1>2. late + Due(touch, object, Top, d, result) <= 3
    BY DEF Here
  <1>3. /\ Top.at \notin Choosing => late + Most(touch, object, Top, d) <= 3
        /\ Top.at \in Choosing /\ Fails(result) => late + Least(touch, object, Top, d) <= 3
        /\ Top.at \in Choosing /\ ~Fails(result) => late + Most(touch, object, Top, d) <= 3
    BY <1>2, NowAfter DEF Due
  <1> QED BY <1>1, <1>3 DEF LateInv

LEMMA RoomLess ==
  ASSUME NEW t, NEW f, NEW d, Room(t, inited, f, d), inited' => inited
  PROVE  Room(t, inited', f, d)
  BY DEF Room

LEMMA HereChain ==
  ASSUME Typed, LateInv, Settled, stack # <<>>
  PROVE  \E w : Chain(w) /\ RestOwed(w) /\ Here(w[1])
  <1>1. PICK w : Chain(w)
    BY DEF LateInv
  <1>2. RestOwed(w)
    BY <1>1, NothingOwed DEF Settled
  <1> QED BY <1>1, <1>2, FrontDebt DEF Here

LEMMA HereReturn ==
  ASSUME Typed, LateInv, Settled, stack # <<>>, NEW v, Return(v),
         \A d : Here(d) => late + (IF Fails(v) THEN d.least ELSE d.most) <= 3
  PROVE  LateInv'
  <1>1. PICK w : Chain(w) /\ RestOwed(w) /\ Here(w[1])
    BY HereChain
  <1>2. late' + (IF Fails(v) THEN w[1].least ELSE w[1].most) <= 3
    BY <1>1 DEF Settled, Still
  <1>3. \E u : Chain(u)'
    BY <1>1, <1>2, ReturnLate
  <1> QED BY <1>3, LateSame DEF Settled

LEMMA HereJump ==
  ASSUME Typed, Typed', LateInv, Settled, stack # <<>>, NEW l \in Labels, Jump(l),
         \A d, f : Here(d) /\ Moved(f, l, Top.n) => Bears(f, d)
  PROVE  LateInv'
  <1>1. PICK w : Chain(w) /\ RestOwed(w) /\ Here(w[1])
    BY HereChain
  <1>2. late' = late /\ touch' = touch /\ object' = object /\ (inited' => inited)
    BY DEF Settled, Still
  <1>3. \A f \in Frames : f.at = l /\ f.cmd = Top.cmd /\ f.flag = Top.flag /\ f.n = Top.n =>
          Room(touch', inited', f, w[1]) /\ late' + Most(touch', object', f, w[1]) <= 3
    BY <1>1, <1>2, RoomLess DEF Moved, Bears
  <1>4. \E u : Chain(u)'
    BY <1>1, <1>3, JumpLate
  <1> QED BY <1>4, LateSame DEF Settled

LEMMA HereAgain ==
  ASSUME Typed, Typed', LateInv, Settled, stack # <<>>, NEW l \in Labels, l \notin Choosing, Again(l),
         \A d, f : Here(d) /\ Moved(f, l, Top.n + 1) => Bears(f, d)
  PROVE  LateInv'
  <1>1. PICK w : Chain(w) /\ RestOwed(w) /\ Here(w[1])
    BY HereChain
  <1>2. late' = late /\ touch' = touch /\ object' = object /\ (inited' => inited)
    BY DEF Settled, Still
  <1>3. \A f \in Frames : f.at = l /\ f.cmd = Top.cmd /\ f.flag = Top.flag /\ f.n = Top.n + 1 =>
          Room(touch', inited', f, w[1]) /\ late' + Due(touch', object', f, w[1], result) <= 3
    BY <1>1, <1>2, RoomLess, NowAfter DEF Moved, Bears
  <1>4. \E u : Chain(u)'
    BY <1>1, <1>3, AgainLate
  <1> QED BY <1>4, LateSame DEF Settled

LEMMA WaitLabels == Waits \subseteq Labels
  BY DEF Waits, HupWaits, Labels, CallBody, ReleaseBody, CommandBody, ShotBody, LinkBody, InputBody,
         GestureBody, InjectBody, TouchBody, PlayBody, PlayCalls, CommitBody, CtrlBody, ClientBody

LEMMA HereCall ==
  ASSUME Typed, Typed', LateInv, Settled, stack # <<>>, NEW l \in Waits, NEW g, Call(g, l),
         \A d, f : Here(d) /\ Moved(f, l, Top.n) =>
           Room(touch, inited, f, d) /\ Bears(g, Debt(touch, object, f, d))
  PROVE  LateInv'
  <1>1. PICK w : Chain(w) /\ RestOwed(w) /\ Here(w[1])
    BY HereChain
  <1>2. late' = late /\ touch' = touch /\ object' = object /\ (inited' => inited)
    BY DEF Settled, Still
  <1>3. l \in Labels
    BY WaitLabels
  <1>4. ASSUME NEW f \in Frames, f.at = l /\ f.cmd = Top.cmd /\ f.flag = Top.flag /\ f.n = Top.n
        PROVE  LET d == Debt(touch', object', f, w[1])
               IN  /\ Room(touch', inited', f, w[1])
                   /\ Room(touch', inited', g, d)
                   /\ late' + Most(touch', object', g, d) <= 3
    <2>1. Room(touch, inited, f, w[1]) /\ Bears(g, Debt(touch, object, f, w[1]))
      BY <1>1, <1>4 DEF Moved
    <2> QED BY <1>2, <2>1, RoomLess DEF Bears
  <1>5. \E u : Chain(u)'
    BY <1>1, <1>3, <1>4, CallLate
  <1> QED BY <1>5, LateSame DEF Settled

LEMMA HereReplace ==
  ASSUME Typed, Typed', LateInv, Settled, stack # <<>>, NEW f, Replace(f), result' = result,
         f.at \notin Choosing, \A d : Here(d) => Bears(f, d)
  PROVE  LateInv'
  <1>1. PICK w : Chain(w) /\ RestOwed(w) /\ Here(w[1])
    BY HereChain
  <1>2. late' = late /\ touch' = touch /\ object' = object /\ (inited' => inited)
    BY DEF Settled, Still
  <1>3. Room(touch', inited', f, w[1]) /\ late' + Due(touch', object', f, w[1], result') <= 3
    BY <1>1, <1>2, RoomLess, NowAfter DEF Bears
  <1>4. \E u : Chain(u)'
    BY <1>1, <1>3, LateMove DEF Replace
  <1> QED BY <1>4, LateSame DEF Settled

\* The commands that each place of call_command, reconnect, release and io owes, and
\* what it needs.
LEMMA CallTable ==
  ASSUME NEW t, NEW o, NEW e, NEW f, NEW d
  PROVE  /\ f.at = "io" => Most(t, o, f, d) = 1 + d.most /\ Room(t, e, f, d)
         /\ f.at = "release" => Most(t, o, f, d) = 1 + d.most /\ Room(t, e, f, d)
         /\ f.at = "release.done" => Most(t, o, f, d) = d.most /\ Room(t, e, f, d)
         /\ f.at = "call" => /\ Most(t, o, f, d) = 1 + d.least
                             /\ Room(t, e, f, d) <=> (e /\ f.flag => d.least <= 1)
         /\ f.at = "call.done" => /\ Most(t, o, f, d) = d.least
                                  /\ Room(t, e, f, d) <=> (e /\ f.flag => d.least <= 1)
         /\ f.at \in {"reconnect", "reconnect.slept", "reconnect.connected", "reconnect.fail"} =>
              Most(t, o, f, d) = 1 + d.least /\ (Room(t, e, f, d) <=> d.least <= 1)
         /\ f.at = "reconnect.recalled" =>
              /\ Least(t, o, f, d) = 1 + d.least
              /\ Most(t, o, f, d) = IF d.most > d.least THEN d.most ELSE 1 + d.least
              /\ Room(t, e, f, d) <=> d.least <= 1
         /\ f.at \in {"reconnect.ok", "reconnect.hup"} =>
              /\ Most(t, o, f, d) = IF Fails(f.cmd) THEN d.least ELSE d.most
              /\ Room(t, e, f, d)
         /\ f.at = "reconnect.failed" => Most(t, o, f, d) = d.least /\ Room(t, e, f, d)
  <1> DEFINE Here0 == {"io", "release", "release.done"} \cup CallBody
  <1>1. f.at \in Here0 =>
          /\ f.at \notin LinkBody \cup TouchBody \cup CommandBody \cup CtrlBody \cup Imaging
          /\ f.at \notin {"screencap", "probe", "probe.done", "capture"}
          /\ f.at \notin {"adb.connect", "connect.listed", "connect.connected", "touch.connect",
                          "touch.connected", "touch.probed"}
    BY DEF LinkBody, TouchBody, CommandBody, CtrlBody, Imaging, CallBody
  <1>2. f.at \in Here0 =>
          (Room(t, e, f, d) <=> /\ f.at \in Retrying => d.least <= 1
                                /\ e => (f.at \in {"call", "call.done"} /\ f.flag => d.least <= 1))
    BY <1>1 DEF Room, Able
  <1>3. f.at \in {"io", "release", "release.done", "reconnect.ok", "reconnect.hup", "reconnect.failed"} =>
          Room(t, e, f, d)
    BY <1>2 DEF Retrying, CallBody
  <1>4. f.at \in {"call", "call.done"} => (Room(t, e, f, d) <=> (e /\ f.flag => d.least <= 1))
    BY <1>2 DEF Retrying, CallBody
  <1>5. f.at \in Retrying => (Room(t, e, f, d) <=> d.least <= 1)
    BY <1>2 DEF Retrying, CallBody
  <1>6. f.at \in CallBody => Most(t, o, f, d) = MostOfCall(f, d)
    BY FamilyMost
  <1>7. /\ f.at \in {"io", "release"} => Most(t, o, f, d) = 1 + d.most
        /\ f.at = "release.done" => Most(t, o, f, d) = d.most
    BY FamilyMost
  <1>8. /\ f.at = "call" => MostOfCall(f, d) = 1 + d.least
        /\ f.at = "call.done" => MostOfCall(f, d) = d.least
        /\ f.at \in {"reconnect", "reconnect.slept", "reconnect.connected", "reconnect.fail"} =>
             MostOfCall(f, d) = 1 + d.least
        /\ f.at = "reconnect.recalled" =>
             MostOfCall(f, d) = IF d.most > d.least THEN d.most ELSE 1 + d.least
        /\ f.at \in {"reconnect.ok", "reconnect.hup"} =>
             MostOfCall(f, d) = IF Fails(f.cmd) THEN d.least ELSE d.most
        /\ f.at = "reconnect.failed" => MostOfCall(f, d) = d.least
    BY DEF MostOfCall, Over
  <1>9. f.at = "reconnect.recalled" => Least(t, o, f, d) = 1 + d.least
    BY DEF Least
  <1> QED BY <1>3, <1>4, <1>5, <1>6, <1>7, <1>8, <1>9 DEF CallBody, Retrying

\* A debt that is the same whatever the answer, and one that is not.
LEMMA DebtOf ==
  ASSUME NEW t, NEW o, NEW f, NEW d
  PROVE  /\ Debt(t, o, f, d).at = f.at
         /\ Debt(t, o, f, d).most = Most(t, o, f, d) /\ Debt(t, o, f, d).least = Least(t, o, f, d)
         /\ f.at \notin Choosing => Debt(t, o, f, d).least = Most(t, o, f, d)
  BY LeastElse DEF Debt

LEMMA Placed ==
  ASSUME NEW l, NEW c, NEW b
  PROVE  /\ Frame(l, c, b).at = l /\ Frame(l, c, b).cmd = c
         /\ Frame(l, c, b).flag = b /\ Frame(l, c, b).n = 1
  BY DEF Frame

\* What the innermost of these calls owes.
LEMMA CallOwes ==
  ASSUME LateInv, stack # <<>>, NEW d, Here(d)
  PROVE  /\ Top.at \in {"release", "io"} => late + (1 + d.most) <= 3
         /\ Top.at = "release.done" => late + d.most <= 3
         /\ Top.at = "call" => late + (1 + d.least) <= 3 /\ (inited /\ Top.flag => d.least <= 1)
         /\ Top.at = "call.done" => late + d.least <= 3 /\ (inited /\ Top.flag => d.least <= 1)
         /\ Top.at \in {"reconnect", "reconnect.slept", "reconnect.connected", "reconnect.fail"} =>
              late + (1 + d.least) <= 3 /\ d.least <= 1
         /\ Top.at = "reconnect.recalled" =>
              /\ d.least <= 1
              /\ Fails(result) => late + (1 + d.least) <= 3
              /\ ~Fails(result) =>
                   late + (IF d.most > d.least THEN d.most ELSE 1 + d.least) <= 3
         /\ Top.at \in {"reconnect.ok", "reconnect.hup"} =>
              late + (IF Fails(Top.cmd) THEN d.least ELSE d.most) <= 3
         /\ Top.at = "reconnect.failed" => late + d.least <= 3
  <1>1. Top.at \in ({"io", "release", "release.done"} \cup CallBody) \ {"reconnect.recalled"} =>
          late + Most(touch, object, Top, d) <= 3
    <2>1. Top.at \in ({"io", "release", "release.done"} \cup CallBody) \ {"reconnect.recalled"} =>
            Top.at \notin Choosing
      BY DEF CallBody, Choosing
    <2> QED BY <2>1, HereFacts
  <1>2. Top.at = "reconnect.recalled" =>
          /\ Fails(result) => late + Least(touch, object, Top, d) <= 3
          /\ ~Fails(result) => late + Most(touch, object, Top, d) <= 3
    BY HereFacts DEF Choosing
  <1>3. Room(touch, inited, Top, d)
    BY DEF Here
  <1>4. Top.at \in {"io", "release", "release.done"} => late + Most(touch, object, Top, d) <= 3
    BY <1>1
  <1>5. Top.at \in CallBody \ {"reconnect.recalled"} => late + Most(touch, object, Top, d) <= 3
    BY <1>1
  <1>6. /\ Top.at \in {"release", "io"} => late + (1 + d.most) <= 3
        /\ Top.at = "release.done" => late + d.most <= 3
    <2>1. Top.at \in {"release", "io"} => Most(touch, object, Top, d) = 1 + d.most
      BY CallTable
    <2>2. Top.at = "release.done" => Most(touch, object, Top, d) = d.most
      BY CallTable
    <2> QED BY <1>4, <2>1, <2>2
  <1>7. /\ Top.at = "call" => late + (1 + d.least) <= 3 /\ (inited /\ Top.flag => d.least <= 1)
        /\ Top.at = "call.done" => late + d.least <= 3 /\ (inited /\ Top.flag => d.least <= 1)
    BY <1>3, <1>5, CallTable DEF CallBody
  <1>8. Top.at \in {"reconnect", "reconnect.slept", "reconnect.connected", "reconnect.fail"} =>
          late + (1 + d.least) <= 3 /\ d.least <= 1
    BY <1>3, <1>5, CallTable DEF CallBody
  <1>9. Top.at = "reconnect.recalled" =>
          /\ d.least <= 1
          /\ Fails(result) => late + (1 + d.least) <= 3
          /\ ~Fails(result) => late + (IF d.most > d.least THEN d.most ELSE 1 + d.least) <= 3
    <2> SUFFICES ASSUME Top.at = "reconnect.recalled"
                 PROVE  /\ d.least <= 1
                        /\ Fails(result) => late + (1 + d.least) <= 3
                        /\ ~Fails(result) =>
                             late + (IF d.most > d.least THEN d.most ELSE 1 + d.least) <= 3
      OBVIOUS
    <2>1. /\ Least(touch, object, Top, d) = 1 + d.least
          /\ Most(touch, object, Top, d) = IF d.most > d.least THEN d.most ELSE 1 + d.least
          /\ Room(touch, inited, Top, d) <=> d.least <= 1
      BY CallTable
    <2>2. d.least <= 1
      BY <2>1, <1>3
    <2>3. Fails(result) => late + (1 + d.least) <= 3
      BY <2>1, <1>2
    <2>4. ~Fails(result) => late + (IF d.most > d.least THEN d.most ELSE 1 + d.least) <= 3
      BY <2>1, <1>2
    <2> QED BY <2>2, <2>3, <2>4
  <1>10. Top.at \in {"reconnect.ok", "reconnect.hup"} =>
           late + (IF Fails(Top.cmd) THEN d.least ELSE d.most) <= 3
    <2> SUFFICES ASSUME Top.at \in {"reconnect.ok", "reconnect.hup"}
                 PROVE  late + (IF Fails(Top.cmd) THEN d.least ELSE d.most) <= 3
      OBVIOUS
    <2>1. Most(touch, object, Top, d) = IF Fails(Top.cmd) THEN d.least ELSE d.most
      BY CallTable
    <2>2. late + Most(touch, object, Top, d) <= 3
      BY <1>5 DEF CallBody
    <2> QED BY <2>1, <2>2
  <1>11. Top.at = "reconnect.failed" => late + d.least <= 3
    BY <1>5, CallTable DEF CallBody
  <1> QED BY <1>6, <1>7, <1>8, <1>9, <1>10, <1>11

LEMMA CallLabels ==
  /\ CallBody \cup {"release", "release.done"} \subseteq Labels
  /\ {"call.done", "release.done", "reconnect.connected", "reconnect.recalled", "reconnect.hup",
      "reconnect.failed"} \subseteq Waits
  /\ \A l \in CallBody \ {"reconnect.recalled"} : l \notin Choosing
  BY DEF CallBody, Labels, ReleaseBody, Waits, HupWaits, Choosing

\* call_command.
LEMMA LateCall ==
  ASSUME Typed, Typed', LateInv, UNCHANGED <<late, need_exit, inited, method, touch, object>>,
         CallBegin \/ CallDone
  PROVE  LateInv'
  <1>1. Settled
    BY SettledBy
  <1>2. CASE CallBegin
    <2> DEFINE g == Command(Top.cmd, BySocket(Top.cmd))
    <2>1. stack # <<>> /\ Top.at = "call" /\ Call(g, "call.done") /\ "call.done" \in Waits
      BY <1>2, CallLabels DEF CallBegin, At
    <2>2. g.at = "io"
      BY Placed DEF Command
    <2> HIDE DEF g
    <2>3. ASSUME NEW d, NEW f, Here(d), Moved(f, "call.done", Top.n)
          PROVE  Room(touch, inited, f, d) /\ Bears(g, Debt(touch, object, f, d))
      <3>1. late + (1 + d.least) <= 3 /\ (inited /\ Top.flag => d.least <= 1)
        BY <2>1, <2>3, CallOwes
      <3>2. f.at = "call.done" /\ f.flag = Top.flag
        BY <2>3 DEF Moved
      <3>3. Room(touch, inited, f, d) /\ Most(touch, object, f, d) = d.least
        BY <3>1, <3>2, CallTable
      <3>4. Debt(touch, object, f, d).most = d.least
        BY <3>3, DebtOf
      <3> QED BY <2>2, <3>1, <3>3, <3>4, CallTable DEF Bears
    <2> QED BY <1>1, <2>1, <2>3, HereCall
  <1>3. CASE CallDone
    <2>1. stack # <<>> /\ Top.at = "call.done"
      BY <1>3 DEF CallDone, At
    <2>2. CASE Return("none")
      <3>1. \A d : Here(d) => late + d.least <= 3
        BY <2>1, CallOwes
      <3> QED BY <1>1, <2>1, <2>2, <3>1, HereReturn DEF Fails
    <2>3. CASE ~need_exit /\ Return(result)
      <3>1. \A d : Here(d) => late + d.least <= 3 /\ late + d.most <= 3
        BY <2>1, <2>3, CallOwes, HereFacts
      <3> QED BY <1>1, <2>1, <2>3, <3>1, HereReturn
    <2>4. CASE ~need_exit /\ inited /\ Top.flag /\ Jump("reconnect")
      <3>1. ASSUME NEW d, NEW f, Here(d), Moved(f, "reconnect", Top.n) PROVE Bears(f, d)
        <4>1. late = 0 /\ d.least <= 1 /\ d.least \in Nat
          BY <2>1, <2>4, <3>1, CallOwes, HereFacts
        <4>2. f.at = "reconnect"
          BY <3>1 DEF Moved
        <4>3. Room(touch, inited, f, d) /\ Most(touch, object, f, d) = 1 + d.least
          BY <4>1, <4>2, CallTable
        <4> QED BY <4>1, <4>3 DEF Bears
      <3>2. "reconnect" \in Labels
        BY CallLabels DEF CallBody
      <3> QED BY <1>1, <2>1, <2>4, <3>1, <3>2, HereJump
    <2> QED BY <1>3, <2>2, <2>3, <2>4 DEF CallDone
  <1> QED BY <1>2, <1>3

\* reconnect, which has the time for two commands more.
LEMMA LateReconnect ==
  ASSUME Typed, Typed', LateInv, UNCHANGED <<late, need_exit, method, touch, object>>,
         \/ UNCHANGED inited
            /\ (ReconnectWait \/ ReconnectSlept \/ ReconnectConnected \/ ReconnectRecalled
                  \/ ReconnectFailed)
         \/ ReconnectFail
  PROVE  LateInv'
  <1>1. Settled
    <2>1. CASE UNCHANGED inited
      BY <2>1, SettledBy
    <2>2. CASE ReconnectFail
      <3>1. ~inited'
        BY <2>2 DEF ReconnectFail
      <3> QED BY <3>1 DEF Settled, Still
    <2> QED BY <2>1, <2>2
  <1> DEFINE Trying == {"reconnect", "reconnect.slept", "reconnect.connected", "reconnect.fail"}
  <1>2. Trying \subseteq Labels /\ (\A l \in Trying : l \notin Choosing)
    BY CallLabels DEF CallBody
  <1>3. ASSUME stack # <<>>, Top.at \in Trying, NEW d, NEW f, Here(d), f.at \in Trying
        PROVE  Bears(f, d)
    <2>1. late + (1 + d.least) <= 3 /\ d.least <= 1
      BY <1>3, CallOwes
    <2> QED BY <1>3, <2>1, CallTable DEF Bears
  <1>4. ASSUME stack # <<>>, Top.at \in Trying, NEW l \in Trying, Jump(l) PROVE LateInv'
    <2>1. \A d, f : Here(d) /\ Moved(f, l, Top.n) => Bears(f, d)
      BY <1>3, <1>4 DEF Moved
    <2> QED BY <1>1, <1>2, <1>4, <2>1, HereJump
  <1>5. ASSUME stack # <<>>, Top.at \in Trying \/ (Top.at = "reconnect.recalled" /\ result = "none"),
               Again("reconnect")
        PROVE  LateInv'
    <2>1. ASSUME NEW d, NEW f, Here(d), f.at = "reconnect" PROVE Bears(f, d)
      <3>1. late + (1 + d.least) <= 3 /\ d.least <= 1
        BY <1>5, <2>1, CallOwes DEF Fails
      <3> QED BY <2>1, <3>1, CallTable DEF Bears
    <2>2. \A d, f : Here(d) /\ Moved(f, "reconnect", Top.n + 1) => Bears(f, d)
      BY <2>1 DEF Moved
    <2> QED BY <1>1, <1>2, <1>5, <2>2, HereAgain
  <1>6. ASSUME stack # <<>>, Top.at \in Trying, ~need_exit, NEW c,
               NEW l \in {"reconnect.connected", "reconnect.recalled"}, Call(AdbCall(c, FALSE), l)
        PROVE  LateInv'
    <2> DEFINE g == AdbCall(c, FALSE)
    <2>1. g.at = "call" /\ ~g.flag /\ Call(g, l) /\ l \in Waits
      <3>1. g.at = "call" /\ ~g.flag
        BY DEF AdbCall, Frame
      <3> QED BY <1>6, <3>1, CallLabels
    <2> HIDE DEF g
    <2>2. ASSUME NEW d, NEW f, Here(d), Moved(f, l, Top.n)
          PROVE  Room(touch, inited, f, d) /\ Bears(g, Debt(touch, object, f, d))
      <3>1. late = 0 /\ d.least <= 1 /\ d.least \in Nat
        BY <1>6, <2>2, CallOwes, HereFacts
      <3>2. f.at = l
        BY <2>2 DEF Moved
      <3>3. Room(touch, inited, f, d)
        BY <1>6, <3>1, <3>2, CallTable
      <3>4. Debt(touch, object, f, d).least = 1 + d.least
        <4>1. CASE l = "reconnect.recalled"
          <5>1. Least(touch, object, f, d) = 1 + d.least
            BY <3>2, <4>1, CallTable
          <5> QED BY <5>1, DebtOf
        <4>2. CASE l = "reconnect.connected"
          <5>1. f.at \notin Choosing
            BY <3>2, <4>2 DEF Choosing
          <5>2. Most(touch, object, f, d) = 1 + d.least
            BY <3>2, <4>2, CallTable
          <5> QED BY <5>1, <5>2, DebtOf
        <4> QED BY <1>6, <4>1, <4>2
      <3>5. Room(touch, inited, g, Debt(touch, object, f, d))
        BY <2>1, CallTable
      <3>6. Most(touch, object, g, Debt(touch, object, f, d)) = 1 + (1 + d.least)
        BY <2>1, <3>4, CallTable
      <3> QED BY <3>1, <3>3, <3>5, <3>6 DEF Bears
    <2> QED BY <1>1, <1>6, <2>1, <2>2, HereCall
  <1> USE DEF At
  <1>7. CASE ReconnectWait
    BY <1>4, <1>7 DEF ReconnectWait
  <1>8. CASE ReconnectSlept
    BY <1>4, <1>6, <1>8 DEF ReconnectSlept
  <1>9. CASE ReconnectConnected
    BY <1>4, <1>5, <1>6, <1>9 DEF ReconnectConnected
  <1>10. CASE ReconnectRecalled
    <2>1. stack # <<>> /\ Top.at = "reconnect.recalled"
      BY <1>10 DEF ReconnectRecalled
    <2>2. CASE result = "none" /\ Again("reconnect")
      BY <1>5, <2>1, <2>2
    <2>3. CASE Replace([Top EXCEPT !.at = "reconnect.ok", !.cmd = result]) /\ UNCHANGED result
      <3> DEFINE f == [Top EXCEPT !.at = "reconnect.ok", !.cmd = result]
      <3>1. f.at = "reconnect.ok" /\ f.cmd = result
        BY <2>1, TopFrame DEF Frames
      <3>2. Replace(f) /\ result' = result /\ f.at \notin Choosing
        BY <2>3, <3>1 DEF Choosing
      <3> HIDE DEF f
      <3>3. ASSUME NEW d, Here(d) PROVE Bears(f, d)
        <4>1. Room(touch, inited, f, d)
          BY <3>1, CallTable
        <4>2. Most(touch, object, f, d) = IF Fails(result) THEN d.least ELSE d.most
          BY <3>1, CallTable
        <4>3. /\ d.least \in Nat /\ d.most \in Nat /\ d.least <= d.most /\ late \in Nat
              /\ Fails(result) => late + (1 + d.least) <= 3
              /\ ~Fails(result) => late + (IF d.most > d.least THEN d.most ELSE 1 + d.least) <= 3
          BY <2>1, <3>3, CallOwes, HereFacts
        <4>4. late + Most(touch, object, f, d) <= 3
          BY <4>2, <4>3
        <4> QED BY <4>1, <4>4 DEF Bears
      <3> QED BY <1>1, <2>1, <3>2, <3>3, HereReplace
    <2> QED BY <1>10, <2>2, <2>3 DEF ReconnectRecalled
  <1>11. CASE ReconnectFail
    <2> DEFINE g == Frame("release", "", FALSE)
    <2>1. /\ stack # <<>> /\ Top.at = "reconnect.fail" /\ Call(g, "reconnect.failed")
          /\ "reconnect.failed" \in Waits
      BY <1>11, CallLabels DEF ReconnectFail
    <2>2. g.at = "release"
      BY DEF Frame
    <2> HIDE DEF g
    <2>3. ASSUME NEW d, NEW f, Here(d), Moved(f, "reconnect.failed", Top.n)
          PROVE  Room(touch, inited, f, d) /\ Bears(g, Debt(touch, object, f, d))
      <3>1. late + (1 + d.least) <= 3
        BY <2>1, <2>3, CallOwes
      <3>2. f.at = "reconnect.failed"
        BY <2>3 DEF Moved
      <3>3. Room(touch, inited, f, d) /\ Debt(touch, object, f, d).most = d.least
        BY <3>2, CallTable, DebtOf
      <3>4. /\ Room(touch, inited, g, Debt(touch, object, f, d))
            /\ Most(touch, object, g, Debt(touch, object, f, d)) = 1 + d.least
        BY <2>2, <3>3, CallTable
      <3> QED BY <3>1, <3>3, <3>4 DEF Bears
    <2> QED BY <1>1, <2>1, <2>3, HereCall
  <1>12. CASE ReconnectFailed
    <2>1. \A d : Here(d) => late + d.least <= 3
      BY <1>12, CallOwes DEF ReconnectFailed
    <2> QED BY <1>1, <1>12, <2>1, HereReturn DEF ReconnectFailed, Fails
  <1> QED BY <1>7, <1>8, <1>9, <1>10, <1>11, <1>12

LEMMA LateRelease ==
  ASSUME Typed, Typed', LateInv, UNCHANGED <<late, need_exit, inited, method, touch, object>>,
         Release \/ ReleaseDone
  PROVE  LateInv'
  <1>1. Settled
    BY SettledBy
  <1>2. ~Fails("void")
    BY DEF Fails
  <1>3. CASE Release
    <2> DEFINE g == Command("release", FALSE)
    <2>1. /\ stack # <<>> /\ Top.at = "release"
          /\ Return("void") \/ Call(g, "release.done")
      BY <1>3 DEF Release, At
    <2>2. g.at = "io" /\ "release.done" \in Waits
      BY CallLabels DEF Command, Frame
    <2> HIDE DEF g
    <2>3. \A d : Here(d) => late + (1 + d.most) <= 3 /\ late \in Nat /\ d.most \in Nat
      BY <2>1, CallOwes, HereFacts
    <2>4. \A d : Here(d) => late + d.most <= 3
      BY <2>3
    <2>5. ASSUME NEW d, NEW f, Here(d), Moved(f, "release.done", Top.n)
          PROVE  Room(touch, inited, f, d) /\ Bears(g, Debt(touch, object, f, d))
      <3>1. f.at = "release.done"
        BY <2>5 DEF Moved
      <3>2. Room(touch, inited, f, d) /\ Debt(touch, object, f, d).most = d.most
        BY <3>1, CallTable, DebtOf
      <3>3. /\ Room(touch, inited, g, Debt(touch, object, f, d))
            /\ Most(touch, object, g, Debt(touch, object, f, d)) = 1 + d.most
        BY <2>2, <3>2, CallTable
      <3> QED BY <2>3, <2>5, <3>2, <3>3 DEF Bears
    <2> QED BY <1>1, <1>2, <2>1, <2>2, <2>4, <2>5, HereReturn, HereCall
  <1>4. CASE ReleaseDone
    <2>1. \A d : Here(d) => late + d.most <= 3
      BY <1>4, CallOwes DEF ReleaseDone, At
    <2> QED BY <1>1, <1>2, <1>4, <2>1, HereReturn DEF ReleaseDone, At
  <1> QED BY <1>3, <1>4

-----------------------------------------------------------------------------
(* Commands whose success is the answer, and screenshots.                          *)

LEMMA ShotTable ==
  ASSUME NEW t, NEW o, NEW e, NEW f, NEW d
  PROVE  /\ f.at = "command" => /\ Most(t, o, f, d) = IF f.flag THEN 2 + d.least ELSE 1 + d.least
                                /\ Room(t, e, f, d) <=> d.most = 0
         /\ f.at = "command.done" => /\ Most(t, o, f, d) = IF f.flag THEN 1 + d.least ELSE d.most
                                     /\ Room(t, e, f, d) <=> d.most = 0
         /\ f.at = "command.done" /\ ~f.flag => Least(t, o, f, d) = d.least
         /\ f.at = "command.done" /\ f.flag => Least(t, o, f, d) = 1 + d.least
         /\ f.at = "capture" => /\ Most(t, o, f, d) = 1 + d.least
                                /\ Room(t, e, f, d) <=> (e /\ f.flag => d.least <= 1)
         /\ f.at = "capture.decode" => /\ Most(t, o, f, d) = d.most /\ Least(t, o, f, d) = d.least
                                       /\ Room(t, e, f, d)
         /\ f.at = "screencap" => /\ Most(t, o, f, d) = 3 + d.most
                                  /\ Room(t, e, f, d) <=> d.most = 0 /\ d.at \in ShotWaits
         /\ f.at = "probe" =>
              /\ Most(t, o, f, d) = IF f.n <= 3 THEN 4 - f.n + d.most ELSE d.most
              /\ Room(t, e, f, d) <=> d.most = 0 /\ d.at \in ShotWaits /\ (e => f.n # 1)
         /\ f.at = "probe.done" =>
              /\ Most(t, o, f, d) = 3 - f.n + d.most
              /\ Room(t, e, f, d) <=> d.most = 0 /\ d.at \in ShotWaits /\ f.n <= 3
  <1> DEFINE Here0 == CommandBody \cup ShotBody
  <1>1. f.at \in Here0 =>
          /\ f.at \notin Retrying \cup LinkBody \cup TouchBody
          /\ f.at \notin CtrlBody \cup Imaging
          /\ f.at \notin {"call", "call.done"}
          /\ f.at \notin {"adb.connect", "connect.listed", "connect.connected", "touch.connect",
                          "touch.connected", "touch.probed"}
    BY DEF LinkBody, TouchBody, CommandBody, CtrlBody, Imaging, Retrying, ShotBody
  <1>2. f.at \in CommandBody =>
          /\ f.at \notin {"screencap", "probe", "probe.done", "capture"}
          /\ Most(t, o, f, d) = MostOfCommand(f, d)
    BY FamilyMost DEF CommandBody
  <1>3. f.at \in ShotBody => f.at \notin CommandBody /\ Most(t, o, f, d) = MostOfShot(f, d)
    BY FamilyMost DEF CommandBody, ShotBody
  <1>4. f.at \in CommandBody => (Room(t, e, f, d) <=> d.most = 0)
    BY <1>1, <1>2 DEF Room, Able
  <1>5. f.at \in ShotBody =>
          (Room(t, e, f, d) <=>
             /\ f.at \in {"screencap", "probe", "probe.done"} => d.most = 0 /\ d.at \in ShotWaits
             /\ f.at = "probe.done" => f.n <= 3
             /\ e => /\ f.at = "capture" /\ f.flag => d.least <= 1
                     /\ f.at = "probe" => f.n # 1)
    BY <1>1, <1>3 DEF Room, Able
  <1>6. CASE f.at = "command"
    BY <1>2, <1>4, <1>6 DEF CommandBody, MostOfCommand
  <1>7. CASE f.at = "command.done"
    <2>1. Most(t, o, f, d) = IF f.flag THEN 1 + d.least ELSE d.most
      BY <1>2, <1>7 DEF CommandBody, MostOfCommand
    <2>2. ~f.flag => Least(t, o, f, d) = d.least
      BY <1>7 DEF Least
    <2>3. f.flag => Least(t, o, f, d) = Most(t, o, f, d)
      BY <1>7 DEF Least
    <2> QED BY <1>4, <1>7, <2>1, <2>2, <2>3 DEF CommandBody
  <1>8. CASE f.at = "capture"
    BY <1>3, <1>5, <1>8 DEF ShotBody, MostOfShot
  <1>9. CASE f.at = "capture.decode"
    <2>1. Least(t, o, f, d) = d.least
      BY <1>9 DEF Least
    <2> QED BY <1>3, <1>5, <1>9, <2>1 DEF ShotBody, MostOfShot
  <1>10. CASE f.at = "screencap"
    BY <1>3, <1>5, <1>10 DEF ShotBody, MostOfShot
  <1>11. CASE f.at = "probe"
    BY <1>3, <1>5, <1>11 DEF ShotBody, MostOfShot
  <1>12. CASE f.at = "probe.done"
    BY <1>3, <1>5, <1>12 DEF ShotBody, MostOfShot
  <1> QED BY <1>6, <1>7, <1>8, <1>9, <1>10, <1>11, <1>12

LEMMA ShotOwes ==
  ASSUME Typed, LateInv, stack # <<>>, NEW d, Here(d)
  PROVE  /\ Top.at = "command" =>
              late + (IF Top.flag THEN 2 + d.least ELSE 1 + d.least) <= 3 /\ d.most = 0
         /\ Top.at = "command.done" =>
              /\ d.most = 0
              /\ Top.flag => late + (1 + d.least) <= 3
         /\ Top.at = "capture" => late + (1 + d.least) <= 3 /\ (inited /\ Top.flag => d.least <= 1)
         /\ Top.at = "capture.decode" => /\ Fails(result) => late + d.least <= 3
                                         /\ ~Fails(result) => late + d.most <= 3
         /\ Top.at = "screencap" => late + 3 <= 3 /\ d.most = 0 /\ d.at \in ShotWaits
         /\ Top.at = "probe" =>
              /\ d.most = 0 /\ d.at \in ShotWaits /\ (inited => Top.n # 1)
              /\ Top.n <= 3 => late + (4 - Top.n) <= 3
         /\ Top.at = "probe.done" =>
              d.most = 0 /\ d.at \in ShotWaits /\ Top.n <= 3 /\ late + (3 - Top.n) <= 3
  <1>1. Room(touch, inited, Top, d)
    BY DEF Here
  <1>2. Top.at \in {"command", "capture", "screencap", "probe", "probe.done"} =>
          late + Most(touch, object, Top, d) <= 3
    <2>1. Top.at \in {"command", "capture", "screencap", "probe", "probe.done"} =>
            Top.at \notin Choosing
      BY DEF Choosing
    <2> QED BY <2>1, HereFacts
  <1>3. Top.at \in {"command.done", "capture.decode"} =>
          /\ Fails(result) => late + Least(touch, object, Top, d) <= 3
          /\ ~Fails(result) => late + Most(touch, object, Top, d) <= 3
    BY HereFacts DEF Choosing
  <1>4. late \in Nat /\ d.least \in Nat /\ d.most \in Nat
    BY HereFacts
  <1>12. Top.n \in Nat
    BY TopFrame DEF Frames
  <1>5. CASE Top.at = "command"
    BY <1>1, <1>2, <1>5, ShotTable
  <1>6. CASE Top.at = "command.done"
    BY <1>1, <1>3, <1>6, ShotTable
  <1>7. CASE Top.at = "capture"
    BY <1>1, <1>2, <1>7, ShotTable
  <1>8. CASE Top.at = "capture.decode"
    <2>1. Most(touch, object, Top, d) = d.most /\ Least(touch, object, Top, d) = d.least
      BY <1>1, <1>8, ShotTable
    <2> QED BY <1>3, <1>8, <2>1
  <1>9. CASE Top.at = "screencap"
    <2>1. d.most = 0 /\ d.at \in ShotWaits /\ Most(touch, object, Top, d) = 3 + d.most
      BY <1>1, <1>9, ShotTable
    <2> QED BY <1>2, <1>4, <1>9, <2>1
  <1>10. CASE Top.at = "probe"
    <2>1. /\ d.most = 0 /\ d.at \in ShotWaits /\ (inited => Top.n # 1)
          /\ Top.n <= 3 => Most(touch, object, Top, d) = 4 - Top.n + d.most
      BY <1>1, <1>10, ShotTable
    <2>2. Top.n <= 3 => late + (4 - Top.n + d.most) <= 3
      BY <1>2, <1>10, <2>1
    <2>3. Top.n <= 3 => late + (4 - Top.n) <= 3
      BY <1>12, <2>1, <2>2
    <2> QED BY <1>10, <2>1, <2>3
  <1>11. CASE Top.at = "probe.done"
    <2>1. /\ d.most = 0 /\ d.at \in ShotWaits /\ Top.n <= 3
          /\ Most(touch, object, Top, d) = 3 - Top.n + d.most
      BY <1>1, <1>11, ShotTable
    <2>2. late + (3 - Top.n + d.most) <= 3
      BY <1>2, <1>11, <2>1
    <2>3. late + (3 - Top.n) <= 3
      BY <1>12, <2>1, <2>2
    <2> QED BY <1>11, <2>1, <2>3
  <1> QED BY <1>5, <1>6, <1>7, <1>8, <1>9, <1>10, <1>11

LEMMA LateAct ==
  ASSUME Typed, Typed', LateInv, UNCHANGED <<late, need_exit, inited, method, touch, object>>,
         CommandSend \/ CommandDone
  PROVE  LateInv'
  <1>1. Settled
    BY SettledBy
  <1>2. CASE CommandSend
    <2> DEFINE g == AdbCall(Top.cmd, TRUE)
    <2>1. /\ stack # <<>> /\ Top.at = "command" /\ Call(g, "command.done") /\ "command.done" \in Waits
      BY <1>2 DEF CommandSend, At, Waits
    <2>2. g.at = "call"
      BY DEF AdbCall, Frame
    <2> HIDE DEF g
    <2>3. ASSUME NEW d, NEW f, Here(d), Moved(f, "command.done", Top.n)
          PROVE  Room(touch, inited, f, d) /\ Bears(g, Debt(touch, object, f, d))
      <3>1. /\ late + (IF Top.flag THEN 2 + d.least ELSE 1 + d.least) <= 3 /\ d.most = 0
            /\ d.least = 0
        BY <2>1, <2>3, ShotOwes, HereFacts
      <3>2. f.at = "command.done" /\ f.flag = Top.flag /\ Top.flag \in BOOLEAN
        BY <2>1, <2>3, TopFrame DEF Moved, Frames
      <3>3. Room(touch, inited, f, d)
        BY <3>1, <3>2, ShotTable
      <3>4. Debt(touch, object, f, d).least = IF Top.flag THEN 1 + d.least ELSE d.least
        <4>1. Least(touch, object, f, d) = IF Top.flag THEN 1 + d.least ELSE d.least
          BY <3>2, <3>3, ShotTable
        <4> QED BY <4>1, DebtOf
      <3>5. Room(touch, inited, g, Debt(touch, object, f, d))
        <4>1. Debt(touch, object, f, d).least <= 1
          BY <3>1, <3>4
        <4> QED BY <2>2, <4>1, CallTable
      <3>6. Most(touch, object, g, Debt(touch, object, f, d)) = 1 + Debt(touch, object, f, d).least
        BY <2>2, CallTable
      <3>7. late + (1 + Debt(touch, object, f, d).least) <= 3
        BY <3>1, <3>2, <3>4
      <3> QED BY <3>3, <3>5, <3>6, <3>7 DEF Bears
    <2> QED BY <1>1, <2>1, <2>3, HereCall
  <1>3. CASE CommandDone
    <2>1. stack # <<>> /\ Top.at = "command.done"
      BY <1>3 DEF CommandDone, At
    <2>2. ASSUME Top.flag, NEW n,
                 Replace([Top EXCEPT !.at = "command", !.flag = FALSE, !.n = n]), result' = result
          PROVE  LateInv'
      <3> DEFINE f == [Top EXCEPT !.at = "command", !.flag = FALSE, !.n = n]
      <3>1. f.at = "command" /\ ~f.flag
        BY <2>1, TopFrame DEF Frames
      <3>2. Replace(f) /\ f.at \notin Choosing
        BY <2>2, <3>1 DEF Choosing
      <3> HIDE DEF f
      <3>3. ASSUME NEW d, Here(d) PROVE Bears(f, d)
        <4>1. late + (1 + d.least) <= 3 /\ d.most = 0
          BY <2>1, <2>2, <3>3, ShotOwes
        <4> QED BY <3>1, <4>1, ShotTable DEF Bears
      <3> QED BY <1>1, <2>1, <2>2, <3>2, <3>3, HereReplace
    <2>3. CASE ~Top.flag /\ \E v : Return(v)
      <3>1. ASSUME NEW d, Here(d) PROVE late + d.least <= 3 /\ late + d.most <= 3
        <4>1. d.most = 0 /\ d.least = 0 /\ late <= 3 /\ late \in Nat
          BY <2>1, <3>1, ShotOwes, HereFacts
        <4> QED BY <4>1
      <3> QED BY <1>1, <2>1, <2>3, <3>1, HereReturn
    <2> QED BY <1>3, <2>2, <2>3 DEF CommandDone
  <1> QED BY <1>2, <1>3

\* screencap, but for what the ways that are tried say of the controller.
LEMMA LateShot ==
  ASSUME Typed, Typed', LateInv, UNCHANGED <<late, need_exit, inited, method, touch, object>>,
         \/ CaptureBegin \/ CaptureDecode \/ ScreencapUnknown \/ ScreencapKnown \/ ScreencapExtras
         \/ Probe \/ ProbeEnd
  PROVE  LateInv'
  <1>1. Settled
    BY SettledBy
  <1>2. /\ {"probe"} \subseteq Labels /\ "probe" \notin Choosing
        /\ {"capture.decode", "probe.done"} \subseteq Waits /\ "capture" \notin Choosing
    BY DEF Labels, ShotBody, Choosing, Waits
  <1> USE DEF At
  <1>3. CASE CaptureBegin
    <2>1. stack # <<>> /\ Top.at = "capture"
      BY <1>3 DEF CaptureBegin
    <2>2. \A d : Here(d) => /\ late + (1 + d.least) <= 3 /\ (inited /\ Top.flag => d.least <= 1)
                            /\ late + d.least <= 3
      BY <2>1, ShotOwes, HereFacts
    <2>3. CASE Return("no")
      BY <1>1, <2>1, <2>2, <2>3, HereReturn DEF Fails
    <2>4. CASE Call(AdbCall(Top.cmd, Top.flag), "capture.decode")
      <3> DEFINE g == AdbCall(Top.cmd, Top.flag)
      <3>1. g.at = "call" /\ g.flag = Top.flag
        BY DEF AdbCall, Frame
      <3>2. Call(g, "capture.decode")
        BY <2>4
      <3> HIDE DEF g
      <3>3. ASSUME NEW d, NEW f, Here(d), Moved(f, "capture.decode", Top.n)
            PROVE  Room(touch, inited, f, d) /\ Bears(g, Debt(touch, object, f, d))
        <4>1. f.at = "capture.decode"
          BY <3>3 DEF Moved
        <4>2. Room(touch, inited, f, d) /\ Debt(touch, object, f, d).least = d.least
          BY <4>1, ShotTable, DebtOf
        <4>3. /\ Room(touch, inited, g, Debt(touch, object, f, d))
              /\ Most(touch, object, g, Debt(touch, object, f, d)) = 1 + d.least
          BY <2>2, <3>1, <3>3, <4>2, CallTable
        <4> QED BY <2>2, <3>3, <4>2, <4>3 DEF Bears
      <3> QED BY <1>1, <1>2, <2>1, <3>2, <3>3, HereCall
    <2> QED BY <1>3, <2>3, <2>4 DEF CaptureBegin
  <1>4. CASE CaptureDecode
    <2>1. stack # <<>> /\ Top.at = "capture.decode"
      BY <1>4 DEF CaptureDecode
    <2>2. \A d : Here(d) => /\ late + d.least <= 3
                            /\ ~Fails(result) => late + d.most <= 3
      BY <2>1, ShotOwes, HereFacts
    <2>3. CASE Return("no")
      BY <1>1, <2>1, <2>2, <2>3, HereReturn DEF Fails
    <2>4. CASE Return("yes") /\ ~Fails(result)
      BY <1>1, <2>1, <2>2, <2>4, HereReturn DEF Fails
    <2>5. Return("yes") => ~Fails(result) \/ Return("no")
      <3>1. \A r : Fails(r) => ~Decodes(r) /\ ~Decodes(ConvertLf(r)) /\ ~HasCrLf(r)
        BY DEF Fails, Decodes, ConvertLf, HasCrLf
      <3> QED BY <1>4, <3>1 DEF CaptureDecode
    <2>6. Return("yes") \/ Return("no")
      BY <1>4 DEF CaptureDecode
    <2> QED BY <2>3, <2>4, <2>5, <2>6
  <1>5. CASE ScreencapUnknown
    <2>1. stack # <<>> /\ Top.at = "screencap" /\ Jump("probe") /\ ~inited
      BY <1>5 DEF ScreencapUnknown, LateInv
    <2>2. ASSUME NEW d, NEW f, Here(d), Moved(f, "probe", Top.n) PROVE Bears(f, d)
      <3>1. late = 0 /\ d.most = 0 /\ d.at \in ShotWaits
        BY <2>1, <2>2, ShotOwes, HereFacts
      <3>2. f.at = "probe" /\ f.n \in Nat \ {0}
        BY <2>2 DEF Moved, Frames
      <3>3. Room(touch, inited, f, d)
        BY <2>1, <3>1, <3>2, ShotTable
      <3>4. Most(touch, object, f, d) = IF f.n <= 3 THEN 4 - f.n + d.most ELSE d.most
        BY <3>2, ShotTable
      <3>5. late + Most(touch, object, f, d) <= 3
        BY <3>1, <3>2, <3>4
      <3> QED BY <3>3, <3>5 DEF Bears
    <2> QED BY <1>1, <1>2, <2>1, <2>2, HereJump
  <1>6. CASE ScreencapKnown
    <2> DEFINE g == Capture(method, Top.flag)
    <2>1. stack # <<>> /\ Top.at = "screencap" /\ Replace(g) /\ result' = result
      BY <1>6 DEF ScreencapKnown
    <2>2. g.at = "capture"
      BY DEF Capture, Frame
    <2> HIDE DEF g
    <2>3. ASSUME NEW d, Here(d) PROVE Bears(g, d)
      <3>1. late = 0 /\ d.least = 0
        BY <2>1, <2>3, ShotOwes, HereFacts
      <3>2. Room(touch, inited, g, d) /\ Most(touch, object, g, d) = 1 + d.least
        BY <2>2, <3>1, ShotTable
      <3> QED BY <3>1, <3>2 DEF Bears
    <2> QED BY <1>1, <1>2, <2>1, <2>2, <2>3, HereReplace
  <1>7. CASE ScreencapExtras
    <2>1. stack # <<>> /\ Top.at = "screencap" /\ \E v : Return(v)
      BY <1>7 DEF ScreencapExtras
    <2>2. \A d : Here(d) => late + d.least <= 3 /\ late + d.most <= 3
      BY <2>1, ShotOwes, HereFacts
    <2> QED BY <1>1, <2>1, <2>2, HereReturn
  <1>8. CASE Probe
    <2>1. stack # <<>> /\ Top.at = "probe" /\ Top.n \in Nat \ {0} /\ Top.n <= 3
      BY <1>8, TopFrame DEF Probe, Frames, Ways
    <2>2. \A d : Here(d) => /\ late + (4 - Top.n) <= 3 /\ (inited => Top.n # 1) /\ late \in Nat
                            /\ d.most = 0 /\ d.least = 0 /\ d.at \in ShotWaits
      BY <2>1, ShotOwes, HereFacts
    <2>3. CASE Again("probe")
      <3>1. ASSUME NEW d, NEW f, Here(d), Moved(f, "probe", Top.n + 1) PROVE Bears(f, d)
        <4>1. f.at = "probe" /\ f.n = Top.n + 1
          BY <3>1 DEF Moved
        <4>2. f.n # 1 /\ late + (IF f.n <= 3 THEN 4 - f.n + d.most ELSE d.most) <= 3
          BY <2>1, <2>2, <3>1, <4>1
        <4>3. Room(touch, inited, f, d)
          BY <2>2, <3>1, <4>1, <4>2, ShotTable
        <4>4. Most(touch, object, f, d) = IF f.n <= 3 THEN 4 - f.n + d.most ELSE d.most
          BY <4>1, ShotTable
        <4> QED BY <4>2, <4>3, <4>4 DEF Bears
      <3> QED BY <1>1, <1>2, <2>1, <2>3, <3>1, HereAgain
    <2>4. CASE Call(Capture(Ways[Top.n], Top.flag), "probe.done")
      <3> DEFINE g == Capture(Ways[Top.n], Top.flag)
      <3>1. g.at = "capture"
        BY DEF Capture, Frame
      <3>2. Call(g, "probe.done")
        BY <2>4
      <3> HIDE DEF g
      <3>3. ASSUME NEW d, NEW f, Here(d), Moved(f, "probe.done", Top.n)
            PROVE  Room(touch, inited, f, d) /\ Bears(g, Debt(touch, object, f, d))
        <4>1. f.at = "probe.done" /\ f.n = Top.n /\ f.at \notin Choosing
          BY <3>3 DEF Moved, Choosing
        <4>2. Room(touch, inited, f, d)
          BY <2>1, <2>2, <3>3, <4>1, ShotTable
        <4>3. Most(touch, object, f, d) = 3 - Top.n
          <5>1. Most(touch, object, f, d) = 3 - Top.n + d.most
            BY <4>1, ShotTable
          <5> QED BY <2>1, <2>2, <3>3, <5>1
        <4>4. Debt(touch, object, f, d).least = 3 - Top.n
          BY <4>1, <4>3, DebtOf
        <4>5. inited => 3 - Top.n <= 1
          BY <2>1, <2>2, <3>3
        <4>6. Room(touch, inited, g, Debt(touch, object, f, d))
          BY <3>1, <4>4, <4>5, ShotTable
        <4>7. Most(touch, object, g, Debt(touch, object, f, d)) = 1 + (3 - Top.n)
          BY <3>1, <4>4, ShotTable
        <4>8. late + (1 + (3 - Top.n)) <= 3
          BY <2>1, <2>2, <3>3
        <4> QED BY <4>2, <4>6, <4>7, <4>8 DEF Bears
      <3> QED BY <1>1, <1>2, <2>1, <3>2, <3>3, HereCall
    <2> QED BY <1>8, <2>3, <2>4 DEF Probe
  <1>9. CASE ProbeEnd
    <2>1. stack # <<>> /\ Top.at = "probe" /\ \E v : Return(v)
      BY <1>9 DEF ProbeEnd
    <2>2. \A d : Here(d) => late + d.least <= 3 /\ late + d.most <= 3
      <3> SUFFICES ASSUME NEW d, Here(d) PROVE late + d.least <= 3 /\ late + d.most <= 3
        OBVIOUS
      <3>1. d.most = 0 /\ d.least = 0 /\ late <= 3 /\ late \in Nat
        BY <2>1, ShotOwes, HereFacts
      <3> QED BY <3>1
    <2> QED BY <1>1, <2>1, <2>2, HereReturn
  <1> QED BY <1>3, <1>4, <1>5, <1>6, <1>7, <1>8, <1>9

\* A screenshot is asked for by connect or get_image, below which little is.
LEMMA UnderShot ==
  ASSUME Typed, Legal, stack # <<>>, NEW w, Chain(w), w[1].at \in ShotWaits
  PROVE  \A i \in 2 .. Len(stack) : stack[i].at \in ShotWaits \cup {"connected"}
  <1>1. /\ Len(stack) \in Nat /\ Len(stack) > 0
        /\ \A i \in 1 .. Len(stack) : stack[i] \in Frames
    BY Popped DEF Typed
  <1>2. "" \notin Labels /\ "" \notin ShotWaits
    BY DEF Labels, ShotWaits, IOBody, CallBody, ReleaseBody, CommandBody, ShotBody, LinkBody, HupBody,
           InputBody, GestureBody, InjectBody, TouchBody, OpenBody, CommitBody, PlayBody, PlayCalls,
           UnitBody, UnitCalls, CtrlBody, ClientBody
  <1>3. Len(stack) > 1
    <2>1. ASSUME Len(stack) = 1 PROVE FALSE
      <3>1. w[1] = Nothing
        BY <2>1, FrontDebt
      <3>3. Nothing.at = ""
        BY DEF Nothing
      <3>2. w[1].at = ""
        BY <3>1, <3>3, Zenon
      <3> QED BY <1>2, <3>2
    <2>2. \A n \in Nat : n > 0 => n = 1 \/ n > 1
      OBVIOUS
    <2> QED BY <1>1, <2>1, <2>2
  <1>4. stack[2].at \in ShotWaits
    BY <1>3, FrontDebt
  <1>5. CASE Len(stack) = 2
    BY <1>4, <1>5
  <1>6. CASE Len(stack) > 2
    <2>1. 2 \in 1 .. Len(stack) - 1 /\ 2 + 1 = 3 /\ 2 \in 1 .. Len(stack) /\ 3 \in 1 .. Len(stack)
      BY <1>1, <1>6
    <2>2. w[2].at = stack[3].at
      <3>1. w[2] = Debt(touch, object, stack[3], w[3])
        BY <2>1 DEF Chain
      <3> QED BY <3>1 DEF Debt
    <2>3. stack[2].at \notin Imaging
      <3>1. stack[3].at \in Labels
        BY <1>1, <2>1 DEF Frames
      <3>2. Room(touch, inited, stack[2], w[2])
        BY <2>1 DEF Chain
      <3> QED BY <1>2, <2>2, <3>1, <3>2 DEF Room
    <2>4. stack[2].at \in CtrlBody
      BY <1>4, <2>3 DEF ShotWaits, Imaging, CtrlBody
    <2>5. stack[3].at = "connected"
      BY <2>1, <2>4 DEF Legal, Allowed, Serves
    <2>6. 3 \notin 1 .. Len(stack) - 1
      BY <2>1, <2>5, StackFacts DEF Outermost
    <2>7. \A i \in 2 .. Len(stack) : i = 2 \/ i = 3
      BY <1>1, <1>6, <2>6
    <2> QED BY <1>4, <2>5, <2>7
  <1>7. \A n \in Nat : n > 1 => n = 2 \/ n > 2
    OBVIOUS
  <1> QED BY <1>1, <1>3, <1>5, <1>6, <1>7

\* The first way that works makes the controller one that is said to work.
LEMMA LateProbe ==
  ASSUME Typed, Typed', Legal, LateInv, UNCHANGED <<late, need_exit, touch, object>>,
         ProbeDone \/ ProbeExtras
  PROVE  LateInv'
  <1>1. /\ stack # <<>> /\ Top.at \in {"probe", "probe.done"} /\ Again("probe")
        /\ Top.at = "probe" => Top.n = 4
        /\ inited' => method' # "UnknownYet"
    <2>1. CASE ProbeDone
      <3>1. inited' => method' # "UnknownYet"
        <4>1. CASE result = "yes"
          <5>1. PICK n \in {1, 2, 3} : n = Top.n
            <6>1. PICK w : Chain(w)
              BY DEF LateInv
            <6>2. Here(w[1])
              BY <2>1, <6>1, FrontDebt DEF Here, ProbeDone, At
            <6>3. Top.n <= 3 /\ Top.n \in Nat \ {0}
              BY <2>1, <6>2, ShotOwes, TopFrame DEF ProbeDone, At, Frames
            <6> QED BY <6>3
          <5>2. Ways[n] # "UnknownYet"
            BY DEF Ways
          <5> QED BY <2>1, <4>1, <5>1, <5>2 DEF ProbeDone, Keep, LateInv
        <4>2. CASE result # "yes"
          BY <2>1, <4>2 DEF ProbeDone, LateInv
        <4> QED BY <4>1, <4>2
      <3> QED BY <2>1, <3>1 DEF ProbeDone, At
    <2>2. CASE ProbeExtras
      <3>1. inited' => method' # "UnknownYet"
        BY <2>2 DEF ProbeExtras, Keep, LateInv
      <3>2. Len(Ways) + 1 = 4
        BY DEF Ways
      <3> QED BY <2>2, <3>1, <3>2 DEF ProbeExtras, At
    <2> QED BY <2>1, <2>2
  <1>2. Still
    BY <1>1 DEF Still
  <1>3. PICK w : Chain(w)
    BY DEF LateInv
  <1>4. Here(w[1])
    BY <1>1, <1>3, FrontDebt DEF Here
  <1>5. w[1].most = 0 /\ w[1].at \in ShotWaits /\ (Top.at = "probe.done" => Top.n <= 3 /\ late + (3 - Top.n) <= 3)
    BY <1>1, <1>4, ShotOwes
  <1>6. RestOwed(w)
    <2>1. \A i \in 1 .. Len(stack) - 1 : w[i] = Debt(touch', object', stack[i + 1], w[i + 1])
      BY <1>3 DEF Chain
    <2>2. ASSUME NEW i \in 2 .. Len(stack) PROVE Room(touch', inited', stack[i], w[i])
      <3>1. Room(touch, inited, stack[i], w[i])
        BY <1>3, <2>2 DEF Chain, Typed
      <3>2. stack[i].at \in ShotWaits \cup {"connected"}
        BY <1>1, <1>3, <1>5, <2>2, UnderShot
      <3>3. Able(stack[i], w[i])
        BY <3>2 DEF Able, ShotWaits, TouchBody
      <3> QED BY <3>1, <3>3 DEF Room
    <2> QED BY <2>1, <2>2 DEF RestOwed
  <1>7. ASSUME NEW f \in Frames, f.at = "probe", f.n = Top.n + 1
        PROVE  Room(touch', inited', f, w[1]) /\ late' + Due(touch', object', f, w[1], result) <= 3
    <2>1. Top.n \in Nat \ {0} /\ late \in Nat /\ late <= 3
      BY <1>1, TopFrame DEF Frames, LateInv
    <2>2. f.n # 1
      BY <1>7, <2>1
    <2>3. Room(touch', inited', f, w[1])
      BY <1>5, <1>7, <2>2, ShotTable
    <2>4. Most(touch', object', f, w[1]) = IF f.n <= 3 THEN 4 - f.n + w[1].most ELSE w[1].most
      BY <1>7, <2>3, ShotTable
    <2>5. late' + Most(touch', object', f, w[1]) <= 3
      BY <1>1, <1>5, <1>7, <2>1, <2>4
    <2>6. f.at \notin Choosing
      BY <1>7 DEF Choosing
    <2> QED BY <2>3, <2>5, <2>6, NowAfter
  <1>8. \E v : Chain(v)'
    <2>1. "probe" \in Labels
      BY DEF Labels, ShotBody
    <2> QED BY <1>1, <1>3, <1>6, <1>7, <2>1, AgainLate
  <1> QED BY <1>1, <1>2, <1>8, LateSame

-----------------------------------------------------------------------------
(* connect, of the adb command and of the touch programs.                          *)

LEMMA LinkTable ==
  ASSUME NEW t, NEW o, NEW e, NEW f, NEW d
  PROVE  /\ f.at \in {"adb.connect", "connect.connected"} =>
              Most(t, o, f, d) = d.least /\ (Room(t, e, f, d) <=> d.least <= 1 /\ f.n = 1)
         /\ f.at = "connect.listed" =>
              Most(t, o, f, d) = 1 + d.least /\ (Room(t, e, f, d) <=> d.least <= 1 /\ f.n = 1)
         /\ f.at = "connect.query" =>
              /\ Most(t, o, f, d) = IF f.n = 2 THEN 1 + d.least ELSE d.least
              /\ Room(t, e, f, d) <=> d.least <= 1
         /\ f.at = "connect.answer" =>
              /\ Most(t, o, f, d) = IF f.n = 1 THEN 1 + d.least ELSE d.least
              /\ Least(t, o, f, d) = d.least
              /\ Room(t, e, f, d) <=> d.least <= 1
         /\ f.at \in {"connect.server", "connect.extras", "connect.end"} =>
              Most(t, o, f, d) = d.least /\ (Room(t, e, f, d) <=> d.least <= 1)
  <1>1. f.at \in LinkBody =>
          /\ f.at \notin TouchBody /\ f.at \notin CommandBody \cup CtrlBody /\ f.at \notin Imaging
          /\ f.at \notin {"screencap", "probe", "probe.done", "capture", "call", "call.done"}
          /\ f.at \notin {"touch.connect", "touch.connected", "touch.probed"}
    BY DEF LinkBody, TouchBody, CommandBody, CtrlBody, Imaging
  <1>2. f.at \in LinkBody =>
          (Room(t, e, f, d) <=>
             /\ d.least <= 1
             /\ f.at \in {"adb.connect", "connect.listed", "connect.connected"} => f.n = 1)
    BY <1>1 DEF Room, Able
  <1>3. f.at \in LinkBody => Most(t, o, f, d) = MostOfLink(f, d)
    BY FamilyMost
  <1>4. CASE f.at \in {"adb.connect", "connect.connected"}
    BY <1>2, <1>3, <1>4 DEF LinkBody, MostOfLink
  <1>5. CASE f.at = "connect.listed"
    BY <1>2, <1>3, <1>5 DEF LinkBody, MostOfLink
  <1>6. CASE f.at = "connect.query"
    BY <1>2, <1>3, <1>6 DEF LinkBody, MostOfLink
  <1>7. CASE f.at = "connect.answer"
    <2>1. Least(t, o, f, d) = d.least
      BY <1>7 DEF Least
    <2> QED BY <1>2, <1>3, <1>7, <2>1 DEF LinkBody, MostOfLink
  <1>8. CASE f.at \in {"connect.server", "connect.extras", "connect.end"}
    BY <1>2, <1>3, <1>8 DEF LinkBody, MostOfLink
  <1> QED BY <1>4, <1>5, <1>6, <1>7, <1>8

LEMMA LinkOwes ==
  ASSUME Typed, LateInv, stack # <<>>, NEW d, Here(d)
  PROVE  /\ Top.at \in LinkBody => d.least <= 1 /\ late + d.least <= 3
         /\ Top.at \in {"adb.connect", "connect.listed", "connect.connected"} => Top.n = 1
         /\ Top.at = "connect.listed" => late + (1 + d.least) <= 3
         /\ Top.at = "connect.query" /\ Top.n = 2 => late + (1 + d.least) <= 3
         /\ Top.at = "connect.answer" /\ Top.n = 1 /\ ~Fails(result) => late + (1 + d.least) <= 3
  <1>1. Room(touch, inited, Top, d)
    BY DEF Here
  <1>2. Top.at \in LinkBody \ {"connect.answer"} => late + Most(touch, object, Top, d) <= 3
    <2>1. Top.at \in LinkBody \ {"connect.answer"} => Top.at \notin Choosing
      BY DEF Choosing, LinkBody
    <2> QED BY <2>1, HereFacts
  <1>3. Top.at = "connect.answer" =>
          /\ Fails(result) => late + Least(touch, object, Top, d) <= 3
          /\ ~Fails(result) => late + Most(touch, object, Top, d) <= 3
    BY HereFacts DEF Choosing
  <1>4. late \in Nat /\ d.least \in Nat
    BY HereFacts
  <1>5. CASE Top.at \in {"adb.connect", "connect.connected"}
    BY <1>1, <1>2, <1>5, LinkTable DEF LinkBody
  <1>6. CASE Top.at = "connect.listed"
    <2>1. d.least <= 1 /\ Top.n = 1 /\ Most(touch, object, Top, d) = 1 + d.least
      BY <1>1, <1>6, LinkTable
    <2>2. late + (1 + d.least) <= 3
      BY <1>2, <1>6, <2>1 DEF LinkBody
    <2>3. late + d.least <= 3
      BY <1>4, <2>2
    <2> QED BY <1>6, <2>1, <2>2, <2>3
  <1>7. CASE Top.at = "connect.query"
    <2>1. d.least <= 1 /\ Most(touch, object, Top, d) = IF Top.n = 2 THEN 1 + d.least ELSE d.least
      BY <1>1, <1>7, LinkTable
    <2>2. late + Most(touch, object, Top, d) <= 3
      BY <1>2, <1>7 DEF LinkBody
    <2>3. late + d.least <= 3 /\ (Top.n = 2 => late + (1 + d.least) <= 3)
      BY <1>4, <2>1, <2>2
    <2> QED BY <1>7, <2>1, <2>3
  <1>8. CASE Top.at = "connect.answer"
    <2>1. /\ d.least <= 1 /\ Most(touch, object, Top, d) = IF Top.n = 1 THEN 1 + d.least ELSE d.least
          /\ Least(touch, object, Top, d) = d.least
      BY <1>1, <1>8, LinkTable
    <2>2. late + d.least <= 3 /\ (Top.n = 1 /\ ~Fails(result) => late + (1 + d.least) <= 3)
      BY <1>3, <1>4, <1>8, <2>1
    <2> QED BY <1>8, <2>1, <2>2
  <1>9. CASE Top.at \in {"connect.server", "connect.extras", "connect.end"}
    BY <1>1, <1>2, <1>9, LinkTable DEF LinkBody
  <1> QED BY <1>5, <1>6, <1>7, <1>8, <1>9 DEF LinkBody

LEMMA LateLink ==
  ASSUME Typed, Typed', LateInv, UNCHANGED <<late, need_exit, touch, object>>,
         \/ ConnectStart
         \/ UNCHANGED <<inited, method>>
            /\ \/ ConnectListed \/ ConnectConnected \/ ConnectQuery \/ ConnectAnswer
               \/ ConnectReady \/ ConnectServer \/ ConnectExtras \/ ConnectEnd
  PROVE  LateInv'
  <1>1. Settled
    <2>1. CASE ConnectStart
      <3>1. ~inited'
        BY <2>1 DEF ConnectStart
      <3> QED BY <3>1 DEF Settled, Still
    <2>2. CASE UNCHANGED <<inited, method>>
      BY <2>2, SettledBy
    <2> QED BY <2>1, <2>2
  <1>2. /\ LinkBody \subseteq Labels
        /\ {"connect.listed", "connect.connected", "connect.answer", "connect.server"} \subseteq Waits
        /\ "connect.query" \notin Choosing
    BY DEF Labels, Waits, LinkBody, Choosing
  <1>3. ASSUME stack # <<>>, Top.at \in LinkBody
        PROVE  \A d : Here(d) => /\ d.least <= 1 /\ late + d.least <= 3 /\ (~need_exit => late = 0)
                                 /\ d.least \in Nat
    BY <1>3, LinkOwes, HereFacts
  <1>4. ASSUME stack # <<>>, Top.at \in LinkBody, Return("no") PROVE LateInv'
    BY <1>1, <1>3, <1>4, HereReturn DEF Fails
  <1>5. ASSUME stack # <<>>, Top.at \in LinkBody, NEW l, Jump(l),
               l \in {"connect.extras", "connect.end"} \/ (l = "connect.query" /\ Top.n = 1)
        PROVE  LateInv'
    <2>1. ASSUME NEW d, NEW f, Here(d), Moved(f, l, Top.n) PROVE Bears(f, d)
      <3>1. f.at = l /\ f.n = Top.n
        BY <2>1 DEF Moved
      <3>3. d.least <= 1
        BY <1>3, <1>5, <2>1
      <3>2. Room(touch, inited, f, d) /\ Most(touch, object, f, d) = d.least
        <4>1. CASE l \in {"connect.extras", "connect.end"}
          BY <3>1, <3>3, <4>1, LinkTable
        <4>2. CASE l = "connect.query" /\ Top.n = 1
          <5>1. f.at = "connect.query" /\ f.n # 2
            BY <3>1, <4>2
          <5> QED BY <3>3, <5>1, LinkTable
        <4> QED BY <1>5, <4>1, <4>2
      <3> QED BY <1>3, <1>5, <2>1, <3>2 DEF Bears
    <2>2. l \in Labels
      BY <1>2, <1>5 DEF LinkBody
    <2> QED BY <1>1, <1>5, <2>1, <2>2, HereJump
  <1>6. ASSUME stack # <<>>, Top.at \in LinkBody, Again("connect.query"), Top.n \in Nat,
               \A d : Here(d) /\ Top.n = 1 => late + (1 + d.least) <= 3
        PROVE  LateInv'
    <2>1. ASSUME NEW d, NEW f, Here(d), Moved(f, "connect.query", Top.n + 1) PROVE Bears(f, d)
      <3>1. f.at = "connect.query" /\ f.n = Top.n + 1
        BY <2>1 DEF Moved
      <3>2. /\ Room(touch, inited, f, d)
            /\ Most(touch, object, f, d) = IF f.n = 2 THEN 1 + d.least ELSE d.least
        BY <1>3, <1>6, <2>1, <3>1, LinkTable
      <3>3. f.n = 2 => Top.n = 1
        BY <1>6, <3>1
      <3>4. late + Most(touch, object, f, d) <= 3
        BY <1>3, <1>6, <2>1, <3>2, <3>3
      <3> QED BY <3>2, <3>4 DEF Bears
    <2>2. "connect.query" \in Labels
      BY <1>2 DEF LinkBody
    <2> QED BY <1>1, <1>2, <1>6, <2>1, <2>2, HereAgain
  <1>7. ASSUME stack # <<>>, Top.at \in LinkBody, NEW c, NEW b,
               NEW l \in {"connect.listed", "connect.connected", "connect.answer", "connect.server"},
               Call(AdbCall(c, b), l),
               l = "connect.listed" \/ (l = "connect.answer" /\ Top.n = 1) => ~b /\ ~need_exit,
               l \in {"connect.listed", "connect.connected"} => Top.n = 1,
               ~need_exit \/ (\A d : Here(d) => late + (1 + d.least) <= 3)
        PROVE  LateInv'
    <2> DEFINE g == AdbCall(c, b)
    <2>1. g.at = "call" /\ g.flag = b
      BY DEF AdbCall, Frame
    <2>2. Call(g, l)
      BY <1>7
    <2> HIDE DEF g
    <2>3. ASSUME NEW d, NEW f, Here(d), Moved(f, l, Top.n)
          PROVE  Room(touch, inited, f, d) /\ Bears(g, Debt(touch, object, f, d))
      <3>1. f.at = l /\ f.n = Top.n
        BY <2>3 DEF Moved
      <3>2. Room(touch, inited, f, d)
        BY <1>3, <1>7, <2>3, <3>1, LinkTable
      <3>3. \/ Debt(touch, object, f, d).least = d.least
            \/ Debt(touch, object, f, d).least = 1 + d.least /\ ~b /\ ~need_exit
        <4>1. CASE l = "connect.answer"
          <5>1. Least(touch, object, f, d) = d.least
            BY <3>1, <3>2, <4>1, LinkTable
          <5> QED BY <5>1, DebtOf
        <4>2. CASE l = "connect.listed"
          <5>1. f.at \notin Choosing
            BY <3>1, <4>2 DEF Choosing
          <5>2. Most(touch, object, f, d) = 1 + d.least
            BY <3>1, <3>2, <4>2, LinkTable
          <5> QED BY <1>7, <4>2, <5>1, <5>2, DebtOf
        <4>3. CASE l \in {"connect.connected", "connect.server"}
          <5>1. f.at \notin Choosing
            BY <3>1, <4>3 DEF Choosing
          <5>2. Most(touch, object, f, d) = d.least
            BY <3>1, <3>2, <4>3, LinkTable
          <5> QED BY <5>1, <5>2, DebtOf
        <4> QED BY <1>7, <4>1, <4>2, <4>3
      <3>4. Debt(touch, object, f, d).least <= 1 \/ ~b
        BY <1>3, <1>7, <2>3, <3>3
      <3>5. Room(touch, inited, g, Debt(touch, object, f, d))
        BY <2>1, <3>4, CallTable
      <3>6. Most(touch, object, g, Debt(touch, object, f, d)) = 1 + Debt(touch, object, f, d).least
        BY <2>1, <3>5, CallTable
      <3>7. late + (1 + Debt(touch, object, f, d).least) <= 3
        BY <1>3, <1>7, <2>3, <3>3
      <3> QED BY <3>2, <3>5, <3>6, <3>7 DEF Bears
    <2> QED BY <1>1, <1>2, <1>7, <2>2, <2>3, HereCall
  <1>8. ASSUME stack # <<>>
        PROVE  /\ \E d : Here(d)
               /\ Top.at \in {"adb.connect", "connect.listed", "connect.connected"} => Top.n = 1
               /\ Top.n \in Nat
    <2>1. PICK d : Here(d)
      BY <1>1, <1>8, HereChain
    <2> QED BY <1>8, <2>1, LinkOwes, TopFrame DEF Frames
  <1> USE DEF At
  <1>9. CASE ConnectStart
    <2>1. stack # <<>> /\ Top.at = "adb.connect" /\ Top.at \in LinkBody
      BY <1>9 DEF ConnectStart, LinkBody
    <2> QED BY <1>4, <1>7, <1>8, <1>9, <2>1 DEF ConnectStart
  <1>10. CASE ConnectListed
    <2>1. stack # <<>> /\ Top.at = "connect.listed" /\ Top.at \in LinkBody
      BY <1>10 DEF ConnectListed, LinkBody
    <2>2. \A d : Here(d) => late + (1 + d.least) <= 3
      BY <2>1, LinkOwes
    <2> QED BY <1>4, <1>5, <1>7, <1>8, <1>10, <2>1, <2>2 DEF ConnectListed
  <1>11. CASE ConnectConnected
    <2>1. stack # <<>> /\ Top.at = "connect.connected" /\ Top.at \in LinkBody
      BY <1>11 DEF ConnectConnected, LinkBody
    <2> QED BY <1>4, <1>5, <1>8, <1>11, <2>1 DEF ConnectConnected
  <1>12. CASE ConnectQuery
    <2>1. stack # <<>> /\ Top.at = "connect.query" /\ Top.at \in LinkBody /\ Top.n \in {1, 2, 3, 4, 5}
      <3>1. stack # <<>> /\ Top.at = "connect.query" /\ Top.n <= 5
        BY <1>12 DEF ConnectQuery, Queries
      <3>2. Top.n \in Nat \ {0}
        BY <3>1, TopFrame DEF Frames
      <3> QED BY <3>1, <3>2 DEF LinkBody
    <2> DEFINE q == Queries[Top.n]
    <2>2. \/ Return("no")
          \/ Again("connect.query") /\ ~Asked(q)
          \/ /\ Call(AdbCall(q, q # "uuid"), "connect.answer")
             /\ q \in PolledBefore => ~need_exit
      BY <1>12 DEF ConnectQuery
    <2>3. /\ Top.n = 1 => q = "uuid" /\ Asked(q)
          /\ Top.n # 2 => q \in PolledBefore
      BY <2>1 DEF Queries, PolledBefore, Asked
    <2> HIDE DEF q
    <2>4. CASE Again("connect.query") /\ ~Asked(q)
      BY <1>6, <2>1, <2>3, <2>4
    <2>5. CASE /\ Call(AdbCall(q, q # "uuid"), "connect.answer")
               /\ q \in PolledBefore => ~need_exit
      <3>1. ~need_exit \/ (\A d : Here(d) => late + (1 + d.least) <= 3)
        BY <2>1, <2>3, <2>5, LinkOwes
      <3>2. Top.n = 1 => ~(q # "uuid") /\ ~need_exit
        BY <2>3, <2>5
      <3> DEFINE b == q # "uuid"
      <3>3. Call(AdbCall(q, b), "connect.answer") /\ (Top.n = 1 => ~b /\ ~need_exit)
        BY <2>5, <3>2
      <3> HIDE DEF b
      <3> QED BY <1>7, <2>1, <3>1, <3>3
    <2> QED BY <1>4, <2>1, <2>2, <2>4, <2>5
  <1>13. CASE ConnectAnswer
    <2>1. stack # <<>> /\ Top.at = "connect.answer" /\ Top.at \in LinkBody
      BY <1>13 DEF ConnectAnswer, LinkBody
    <2>2. \/ Return("no")
          \/ Again("connect.query") /\ (result = "ok" \/ Queries[Top.n] = "event_id")
      BY <1>13 DEF ConnectAnswer
    <2>3. CASE Again("connect.query") /\ (result = "ok" \/ Queries[Top.n] = "event_id")
      <3>1. Top.n = 1 => ~Fails(result)
        <4>1. Queries[1] = "uuid"
          BY DEF Queries
        <4> QED BY <2>3, <4>1 DEF Fails
      <3>2. \A d : Here(d) /\ Top.n = 1 => late + (1 + d.least) <= 3
        BY <2>1, <3>1, LinkOwes
      <3> QED BY <1>6, <1>8, <2>1, <2>3, <3>2
    <2> QED BY <1>4, <2>1, <2>2, <2>3
  <1>14. CASE ConnectReady
    <2>1. stack # <<>> /\ Top.at = "connect.query" /\ Top.at \in LinkBody /\ Top.n > 5
      BY <1>14 DEF ConnectReady, LinkBody, Queries
    <2>2. \/ Return("no") \/ Jump("connect.extras")
          \/ ~need_exit /\ Call(AdbCall("nc_address", TRUE), "connect.server")
      BY <1>14 DEF ConnectReady
    <2> QED BY <1>4, <1>5, <1>7, <2>1, <2>2
  <1>15. CASE ConnectServer
    <2>1. stack # <<>> /\ Top.at = "connect.server" /\ Top.at \in LinkBody /\ Jump("connect.extras")
      BY <1>15 DEF ConnectServer, LinkBody
    <2> QED BY <1>5, <2>1
  <1>16. CASE ConnectExtras
    <2>1. /\ stack # <<>> /\ Top.at = "connect.extras" /\ Top.at \in LinkBody
          /\ Return("no") \/ Jump("connect.end")
      BY <1>16 DEF ConnectExtras, LinkBody
    <2> QED BY <1>4, <1>5, <2>1
  <1>17. CASE ConnectEnd
    <2>1. stack # <<>> /\ Top.at = "connect.end" /\ Top.at \in LinkBody
      BY <1>17 DEF ConnectEnd, LinkBody
    <2>2. CASE Return("no")
      BY <1>4, <2>1, <2>2
    <2>3. CASE ~need_exit /\ Return("yes")
      <3>1. \A d : Here(d) => late + d.most <= 3
        BY <2>1, <2>3, HereFacts
      <3> QED BY <1>1, <2>1, <2>3, <3>1, HereReturn DEF Fails
    <2> QED BY <1>17, <2>2, <2>3 DEF ConnectEnd
  <1> QED BY <1>9, <1>10, <1>11, <1>12, <1>13, <1>14, <1>15, <1>16, <1>17

LEMMA LateAdb == ASSUME Typed, Typed', Legal, LateInv, Adb PROVE LateInv'
  <1>1. UNCHANGED <<touch, object>>
    BY DEF Adb, touchVars, ctrlVars
  <1> USE DEF AdbStep, ioVars, adbVars, shotVars, linkVars, Jump, Again, Call, Return
  <1>2. CASE CallBegin \/ CallDone
    <2>1. UNCHANGED <<late, need_exit, inited, method>>
      BY <1>2 DEF CallBegin, CallDone
    <2> QED BY <1>1, <1>2, <2>1, LateCall
  <1>3. CASE ReconnectWait \/ ReconnectSlept \/ ReconnectConnected \/ ReconnectRecalled \/ ReconnectFailed
    <2>1. UNCHANGED <<late, need_exit, inited, method>>
      BY <1>3 DEF ReconnectWait, ReconnectSlept, ReconnectConnected, ReconnectRecalled, ReconnectFailed
    <2> QED BY <1>1, <1>3, <2>1, LateReconnect
  <1>4. CASE ReconnectFail
    <2>1. UNCHANGED <<late, need_exit, method>>
      BY <1>4 DEF ReconnectFail
    <2> QED BY <1>1, <1>4, <2>1, LateReconnect
  <1>5. CASE Release \/ ReleaseDone
    <2>1. UNCHANGED <<late, need_exit, inited, method>>
      BY <1>5 DEF Release, ReleaseDone
    <2> QED BY <1>1, <1>5, <2>1, LateRelease
  <1>6. CASE CommandSend \/ CommandDone
    <2>1. UNCHANGED <<late, need_exit, inited, method>>
      BY <1>6 DEF CommandSend, CommandDone
    <2> QED BY <1>1, <1>6, <2>1, LateAct
  <1>7. CASE CaptureBegin \/ CaptureDecode \/ ScreencapUnknown \/ ScreencapKnown \/ ScreencapExtras
             \/ Probe \/ ProbeEnd
    <2>1. UNCHANGED <<late, need_exit, inited, method>>
      BY <1>7 DEF CaptureBegin, CaptureDecode, ScreencapUnknown, ScreencapKnown, ScreencapExtras, Probe,
                  ProbeEnd
    <2> QED BY <1>1, <1>7, <2>1, LateShot
  <1>8. CASE ProbeDone \/ ProbeExtras
    <2>1. UNCHANGED <<late, need_exit>>
      BY <1>8 DEF ProbeDone, ProbeExtras
    <2> QED BY <1>1, <1>8, <2>1, LateProbe
  <1>9. CASE ConnectStart
    <2>1. UNCHANGED <<late, need_exit>>
      BY <1>9 DEF ConnectStart
    <2> QED BY <1>1, <1>9, <2>1, LateLink
  <1>10. CASE \/ ConnectListed \/ ConnectConnected \/ ConnectQuery \/ ConnectAnswer
              \/ ConnectReady \/ ConnectServer \/ ConnectExtras \/ ConnectEnd
    <2>1. UNCHANGED <<late, need_exit, inited, method>>
      BY <1>10 DEF ConnectListed, ConnectConnected, ConnectQuery, ConnectAnswer, ConnectReady,
                   ConnectServer, ConnectExtras, ConnectEnd
    <2> QED BY <1>1, <1>10, <2>1, LateLink
  <1> QED BY <1>2, <1>3, <1>4, <1>5, <1>6, <1>7, <1>8, <1>9, <1>10 DEF Adb

-----------------------------------------------------------------------------
(* The touch programs and the gestures.                                            *)

LEMMA TouchTable ==
  ASSUME NEW t, NEW o, NEW e, NEW f, NEW d
  PROVE  /\ f.at \in {"hup", "input"} => Most(t, o, f, d) = d.most /\ Room(t, e, f, d)
         /\ f.at = "input.rewrite" =>
              Most(t, o, f, d) = d.most /\ Least(t, o, f, d) = d.least /\ Room(t, e, f, d)
         /\ f.at \in InjectBody => Most(t, o, f, d) = d.most /\ Room(t, e, f, d)
         /\ f.at \in GestureBody => Most(t, o, f, d) = MostOfGesture(t, f) /\ Room(t, e, f, d)
         /\ f.at = "touch.connect" =>
              /\ Most(t, o, f, d) = d.least
              /\ Room(t, e, f, d) <=> d.least <= 1 /\ f.n = 1 /\ ~e
         /\ f.at = "touch.connected" =>
              /\ Most(t, o, f, d) = Installing(t, f.n, Found(f), d) /\ Least(t, o, f, d) = d.least
              /\ Room(t, e, f, d) <=> d.least <= 1 /\ f.n = 1 /\ ~e
         /\ f.at = "touch.probe" =>
              /\ Most(t, o, f, d) = Installing(t, f.n, Found(f), d)
              /\ Room(t, e, f, d) <=> d.least <= 1 /\ ~e
         /\ f.at = "touch.probed" =>
              /\ Most(t, o, f, d) = Installing(t, f.n + 1, 1, d)
              /\ Least(t, o, f, d) = Spare(t, f.n, Found(f)) + d.least
              /\ Room(t, e, f, d) <=> d.least <= 1 /\ f.n <= Steps(t) /\ ~e
         /\ f.at = "touch.ready" =>
              /\ Most(t, o, f, d) = d.most /\ Least(t, o, f, d) = d.least
              /\ Room(t, e, f, d) <=> d.least <= 1 /\ ~e
  <1> DEFINE Here0 == {"hup"} \cup InputBody \cup InjectBody \cup GestureBody
  <1>1. f.at \in Here0 \cup TouchBody =>
          /\ f.at \notin LinkBody
          /\ f.at \notin CommandBody \cup CtrlBody /\ f.at \notin Imaging
          /\ f.at \notin {"screencap", "probe", "probe.done", "capture", "call", "call.done"}
          /\ f.at \notin {"adb.connect", "connect.listed", "connect.connected"} \cup Retrying
    BY DEF LinkBody, TouchBody, CommandBody, CtrlBody, Imaging, Retrying, InputBody, InjectBody,
           GestureBody
  <1>2. f.at \in Here0 => f.at \notin TouchBody /\ f.at \notin {"touch.connect", "touch.connected", "touch.probed"}
    BY DEF TouchBody, InputBody, InjectBody, GestureBody
  <1>3. f.at \in Here0 => Room(t, e, f, d)
    BY <1>1, <1>2 DEF Room, Able
  <1>4. f.at \in TouchBody =>
          (Room(t, e, f, d) <=>
             /\ d.least <= 1 /\ ~e
             /\ f.at \in {"touch.connect", "touch.connected"} => f.n = 1
             /\ f.at = "touch.probed" => f.n <= Steps(t))
    BY <1>1 DEF Room, Able
  <1>5. f.at \in TouchBody => Most(t, o, f, d) = MostOfTouch(t, f, d)
    BY FamilyMost
  <1>6. f.at \in {"hup"} \cup InputBody \cup InjectBody => Most(t, o, f, d) = d.most
    BY FamilyMost DEF HupBody
  <1>7. f.at \in GestureBody => Most(t, o, f, d) = MostOfGesture(t, f)
    BY FamilyMost
  <1>8. f.at \in {"input.rewrite", "touch.connected", "touch.ready"} => Least(t, o, f, d) = d.least
    BY DEF Least
  <1>9. f.at = "touch.probed" => Least(t, o, f, d) = Spare(t, f.n, Found(f)) + d.least
    BY DEF Least
  <1>10. CASE f.at = "touch.connect"
    <2>1. Most(t, o, f, d) = d.least
      BY <1>5, <1>10 DEF TouchBody, MostOfTouch
    <2>2. Room(t, e, f, d) <=> d.least <= 1 /\ f.n = 1 /\ ~e
      BY <1>4, <1>10 DEF TouchBody
    <2> QED BY <1>10, <2>1, <2>2 DEF InjectBody, GestureBody
  <1>11. CASE f.at = "touch.connected"
    <2>1. Most(t, o, f, d) = Installing(t, f.n, Found(f), d)
      BY <1>5, <1>11 DEF TouchBody, MostOfTouch
    <2>2. Room(t, e, f, d) <=> d.least <= 1 /\ f.n = 1 /\ ~e
      BY <1>4, <1>11 DEF TouchBody
    <2> QED BY <1>8, <1>11, <2>1, <2>2 DEF InjectBody, GestureBody
  <1>12. CASE f.at = "touch.probe"
    <2>1. Most(t, o, f, d) = Installing(t, f.n, Found(f), d)
      BY <1>5, <1>12 DEF TouchBody, MostOfTouch
    <2>2. Room(t, e, f, d) <=> d.least <= 1 /\ ~e
      BY <1>4, <1>12 DEF TouchBody
    <2> QED BY <1>12, <2>1, <2>2 DEF InjectBody, GestureBody
  <1>13. CASE f.at = "touch.probed"
    <2>1. Most(t, o, f, d) = Installing(t, f.n + 1, 1, d)
      BY <1>5, <1>13 DEF TouchBody, MostOfTouch
    <2>2. Room(t, e, f, d) <=> d.least <= 1 /\ f.n <= Steps(t) /\ ~e
      BY <1>4, <1>13 DEF TouchBody
    <2> QED BY <1>9, <1>13, <2>1, <2>2 DEF InjectBody, GestureBody
  <1>14. CASE f.at = "touch.ready"
    <2>1. Most(t, o, f, d) = d.most
      BY <1>5, <1>14 DEF TouchBody, MostOfTouch
    <2>2. Room(t, e, f, d) <=> d.least <= 1 /\ ~e
      BY <1>4, <1>14 DEF TouchBody
    <2> QED BY <1>8, <1>14, <2>1, <2>2 DEF InjectBody, GestureBody
  <1>15. CASE f.at \in {"hup"} \cup InputBody \cup InjectBody
    BY <1>3, <1>6, <1>8, <1>15 DEF InputBody, InjectBody, GestureBody
  <1>16. CASE f.at \in GestureBody
    BY <1>3, <1>7, <1>16 DEF InputBody, InjectBody, GestureBody
  <1> QED BY <1>10, <1>11, <1>12, <1>13, <1>14, <1>15, <1>16 DEF InputBody

LEMMA LateHup ==
  ASSUME Typed, Typed', LateInv, UNCHANGED <<late, inited, method, touch, object>>,
         HupStart \/ HupPoll \/ HupRead \/ HupProps
  PROVE  LateInv'
  <1>1. HupBody \subseteq FlatBody
    BY DEF FlatBody
  <1>2. Top.at \in HupBody => Flat(Top)
    BY <1>1 DEF Flat
  <1> SUFFICES Flowing
    BY FlowKeeps
  <1> USE DEF At, HupBody
  <1>3. CASE HupStart
    BY <1>1, <1>2, <1>3, JumpFlow, ReturnFlow DEF HupStart
  <1>4. CASE HupPoll
    BY <1>1, <1>2, <1>4, JumpFlow, ReturnFlow DEF HupPoll
  <1>5. CASE HupRead
    BY <1>1, <1>2, <1>5, JumpFlow, ReturnFlow DEF HupRead
  <1>6. CASE HupProps
    BY <1>1, <1>2, <1>6, ReturnFlow DEF HupProps
  <1> QED BY <1>3, <1>4, <1>5, <1>6

\* What is restarted first is asked only whether it was.
LEMMA LateRestart ==
  ASSUME Typed, Typed', LateInv, UNCHANGED <<late, need_exit, inited, method, touch, object>>,
         stack # <<>>, NEW l \in Waits, Call(Hup, l),
         \A d, f : Here(d) /\ Moved(f, l, Top.n) =>
           Room(touch, inited, f, d) /\ late + Most(touch, object, f, d) <= 3
  PROVE  LateInv'
  <1>1. Settled
    BY SettledBy
  <1> DEFINE g == Hup
  <1>2. g.at = "hup"
    BY DEF Hup, Frame
  <1>3. Call(g, l)
    OBVIOUS
  <1> HIDE DEF g
  <1>4. ASSUME NEW d, NEW f, Here(d), Moved(f, l, Top.n)
        PROVE  Room(touch, inited, f, d) /\ Bears(g, Debt(touch, object, f, d))
    <2>1. Room(touch, inited, f, d) /\ late + Most(touch, object, f, d) <= 3
      BY <1>4
    <2>2. /\ Room(touch, inited, g, Debt(touch, object, f, d))
          /\ Most(touch, object, g, Debt(touch, object, f, d)) = Debt(touch, object, f, d).most
      <3>1. g.at \in FlatBody
        BY <1>2 DEF FlatBody, HupBody
      <3> QED BY <3>1, FlatMost
    <2>3. Debt(touch, object, f, d).most = Most(touch, object, f, d)
      BY DebtOf
    <2> QED BY <2>1, <2>2, <2>3 DEF Bears
  <1> QED BY <1>1, <1>3, <1>4, HereCall

LEMMA LateReconnected ==
  ASSUME Typed, Typed', LateInv, UNCHANGED <<late, need_exit, inited, method, touch, object>>,
         TouchReconnectOk \/ TouchReconnectHup
  PROVE  LateInv'
  <1>1. Settled
    BY SettledBy
  <1>2. stack # <<>> /\ Top.at \in {"reconnect.ok", "reconnect.hup"}
    BY DEF TouchReconnectOk, TouchReconnectHup, At
  <1>3. \A d : Here(d) => late + (IF Fails(Top.cmd) THEN d.least ELSE d.most) <= 3
    BY <1>2, CallOwes
  <1>4. CASE Return(Top.cmd)
    BY <1>1, <1>2, <1>3, <1>4, HereReturn
  <1>5. CASE Call(Hup, "reconnect.hup")
    <2>1. ASSUME NEW d, NEW f, Here(d), Moved(f, "reconnect.hup", Top.n)
          PROVE  Room(touch, inited, f, d) /\ late + Most(touch, object, f, d) <= 3
      <3>1. f.at = "reconnect.hup" /\ f.cmd = Top.cmd
        BY <2>1 DEF Moved
      <3>2. /\ Room(touch, inited, f, d)
            /\ Most(touch, object, f, d) = IF Fails(f.cmd) THEN d.least ELSE d.most
        BY <3>1, CallTable
      <3> QED BY <1>3, <2>1, <3>1, <3>2
    <2> QED BY <1>2, <1>5, <2>1, LateRestart, CallLabels
  <1> QED BY <1>4, <1>5 DEF TouchReconnectOk, TouchReconnectHup

LEMMA LateInput ==
  ASSUME Typed, Typed', LateInv, UNCHANGED <<late, need_exit, inited, method, touch, object>>,
         InputWrite \/ InputRewrite
  PROVE  LateInv'
  <1>1. Settled
    BY SettledBy
  <1>2. CASE InputWrite
    <2>1. stack # <<>> /\ Top.at = "input" /\ Top.at \notin Choosing
      BY <1>2 DEF InputWrite, At, Choosing
    <2>2. ASSUME NEW d, Here(d) PROVE late + d.most <= 3
      <3>1. late + Most(touch, object, Top, d) <= 3
        BY <2>1, <2>2, HereFacts
      <3>2. Room(touch, inited, Top, d) /\ Most(touch, object, Top, d) = d.most
        BY <2>1, TouchTable
      <3> QED BY <3>1, <3>2
    <2>3. CASE Return("yes")
      BY <1>1, <2>1, <2>2, <2>3, HereReturn DEF Fails
    <2>4. CASE Call(Hup, "input.rewrite")
      <3>1. ASSUME NEW d, NEW f, Here(d), Moved(f, "input.rewrite", Top.n)
            PROVE  Room(touch, inited, f, d) /\ late + Most(touch, object, f, d) <= 3
        <4>1. f.at = "input.rewrite"
          BY <3>1 DEF Moved
        <4>2. Room(touch, inited, f, d) /\ Most(touch, object, f, d) = d.most
          BY <4>1, TouchTable
        <4> QED BY <2>2, <3>1, <4>2
      <3>2. "input.rewrite" \in Waits
        BY DEF Waits, HupWaits
      <3> QED BY <2>1, <2>4, <3>1, <3>2, LateRestart
    <2> QED BY <1>2, <2>3, <2>4 DEF InputWrite
  <1>3. CASE InputRewrite
    <2>1. stack # <<>> /\ Top.at = "input.rewrite" /\ Top.at \in Choosing
      BY <1>3 DEF InputRewrite, At, Choosing
    <2>2. ASSUME NEW d, Here(d)
          PROVE  late + d.least <= 3 /\ (~Fails(result) => late + d.most <= 3)
      <3>1. /\ Fails(result) => late + Least(touch, object, Top, d) <= 3
            /\ ~Fails(result) => late + Most(touch, object, Top, d) <= 3
            /\ d.least <= d.most /\ d.least \in Nat /\ d.most \in Nat /\ late \in Nat
        BY <2>1, <2>2, HereFacts
      <3>2. /\ Room(touch, inited, Top, d) /\ Most(touch, object, Top, d) = d.most
            /\ Least(touch, object, Top, d) = d.least
        BY <2>1, TouchTable
      <3> QED BY <3>1, <3>2
    <2>3. CASE result = "yes" /\ Return("yes")
      BY <1>1, <2>1, <2>2, <2>3, HereReturn DEF Fails
    <2>4. CASE Return("no")
      BY <1>1, <2>1, <2>2, <2>4, HereReturn DEF Fails
    <2> QED BY <1>3, <2>3, <2>4 DEF InputRewrite
  <1> QED BY <1>2, <1>3

\* Nothing is below an outermost call.
LEMMA LastDebt ==
  ASSUME Typed, Legal, stack # <<>>, Top.at \in Outermost, NEW d, Here(d)
  PROVE  d.least = 0 /\ d.most = 0
  <1>1. Len(stack) = 1
    BY StackFacts
  <1>2. d = Nothing
    BY <1>1 DEF Here
  <1>3. Nothing.least = 0 /\ Nothing.most = 0
    BY DEF Nothing
  <1> QED BY <1>2, <1>3, Zenon

LEMMA LateInject ==
  ASSUME Typed, Typed', Legal, LateInv, UNCHANGED <<late, need_exit, inited, method, touch, object>>,
         InjectBegin \/ InjectStarted
  PROVE  LateInv'
  <1>1. Settled
    BY SettledBy
  <1>2. stack # <<>> /\ Top.at \in InjectBody /\ Top.at \in Outermost
    BY DEF InjectBegin, InjectStarted, At, InjectBody, Outermost
  <1>3. \A d : Here(d) => /\ d.least = 0 /\ d.most = 0 /\ late \in Nat /\ late <= 3
                          /\ late + d.least <= 3 /\ late + d.most <= 3
    <2> SUFFICES ASSUME NEW d, Here(d)
                 PROVE  /\ d.least = 0 /\ d.most = 0 /\ late \in Nat /\ late <= 3
                        /\ late + d.least <= 3 /\ late + d.most <= 3
      OBVIOUS
    <2>1. d.least = 0 /\ d.most = 0 /\ late \in Nat /\ late <= 3
      BY <1>2, LastDebt DEF LateInv
    <2> QED BY <2>1
  <1>4. CASE Return("no")
    BY <1>1, <1>2, <1>3, <1>4, HereReturn DEF Fails
  <1>5. CASE Replace(Input(Top.cmd, TRUE)) /\ UNCHANGED result
    <2> DEFINE g == Input(Top.cmd, TRUE)
    <2>1. g.at = "input"
      BY DEF Input, Frame
    <2>2. Replace(g) /\ result' = result
      BY <1>5
    <2> HIDE DEF g
    <2>3. ASSUME NEW d, Here(d) PROVE Bears(g, d)
      <3>1. Room(touch, inited, g, d) /\ Most(touch, object, g, d) = d.most
        BY <2>1, TouchTable
      <3> QED BY <1>3, <2>3, <3>1 DEF Bears
    <2>4. g.at \notin Choosing
      BY <2>1 DEF Choosing
    <2> QED BY <1>1, <1>2, <2>2, <2>3, <2>4, HereReplace
  <1>6. CASE Call(Hup, "inject.started")
    <2>1. ASSUME NEW d, NEW f, Here(d), Moved(f, "inject.started", Top.n)
          PROVE  Room(touch, inited, f, d) /\ late + Most(touch, object, f, d) <= 3
      <3>1. f.at \in InjectBody
        BY <2>1 DEF Moved, InjectBody
      <3>2. Room(touch, inited, f, d) /\ Most(touch, object, f, d) = d.most
        BY <3>1, TouchTable
      <3> QED BY <1>3, <2>1, <3>2
    <2>2. "inject.started" \in Waits
      BY DEF Waits, HupWaits
    <2> QED BY <1>2, <1>6, <2>1, <2>2, LateRestart
  <1> QED BY <1>4, <1>5, <1>6 DEF InjectBegin, InjectStarted

\* When no call is in progress nothing is owed.
LEMMA LateEmpty ==
  ASSUME stack' = <<>>, late' \in Nat, late' <= 3, inited' => method' # "UnknownYet"
  PROVE  LateInv'
  <1>1. Chain(<<>>)'
    <2>1. <<>> \in Seq(Debts) /\ Len(<<>>) = 0 /\ (\A i : i \notin 1 .. 0) /\ (\A i : i \notin 1 .. 0 - 1)
      OBVIOUS
    <2> QED BY <2>1 DEF Chain
  <1>2. \E w : Chain(w)'
    BY <1>1
  <1> QED BY <1>2 DEF LateInv

\* A gesture begins one command at most after a stop: the escape on its way.
LEMMA GestureOwes ==
  ASSUME NEW t, NEW f, f.n \in Nat
  PROVE  /\ MostOfGesture(t, f) \in {0, 1} /\ EscAt(t, f.cmd) \in {0, 3, 5}
         /\ f.at # "gesture.sent" => (MostOfGesture(t, f) = 1 <=> f.n <= EscAt(t, f.cmd))
         /\ f.at = "gesture.sent" => (MostOfGesture(t, f) = 1 <=> f.n < EscAt(t, f.cmd))
  <1>1. EscAt(t, f.cmd) \in {0, 3, 5}
    BY DEF EscAt
  <1> QED BY <1>1 DEF MostOfGesture

LEMMA LateGesture ==
  ASSUME CallsInv, Typed', LateInv, UNCHANGED <<late, need_exit, inited, method, touch, object>>,
         GestureBegin \/ GestureStarted \/ GestureNext \/ GestureSent
  PROVE  LateInv'
  <1>1. Settled /\ Typed /\ Legal
    BY SettledBy DEF CallsInv
  <1>2. stack # <<>> /\ Top.at \in GestureBody /\ Top.at \in Outermost
    BY DEF GestureBegin, GestureStarted, GestureNext, GestureSent, At, GestureBody, Outermost, Gesturing
  <1>3. Len(stack) = 1 /\ Top \in Frames /\ Top.cmd \in DOMAIN Gestures /\ Top.n \in Nat
    BY <1>1, <1>2, GestureTop, StackFacts DEF CallsInv, BottomInv, Frames
  <1>4. \A d : Here(d) => /\ d.least = 0 /\ d.most = 0 /\ late \in Nat /\ late <= 3
                          /\ late + d.least <= 3 /\ late + d.most <= 3
    <2> SUFFICES ASSUME NEW d, Here(d)
                 PROVE  /\ d.least = 0 /\ d.most = 0 /\ late \in Nat /\ late <= 3
                        /\ late + d.least <= 3 /\ late + d.most <= 3
      OBVIOUS
    <2>1. d.least = 0 /\ d.most = 0 /\ late \in Nat /\ late <= 3
      BY <1>1, <1>2, LastDebt DEF LateInv
    <2> QED BY <2>1
  <1>5. \A d : Here(d) /\ (Top.at \in Choosing => ~Fails(result)) =>
          late + MostOfGesture(touch, Top) <= 3
    <2> SUFFICES ASSUME NEW d, Here(d), Top.at \in Choosing => ~Fails(result)
                 PROVE  late + MostOfGesture(touch, Top) <= 3
      OBVIOUS
    <2>1. Most(touch, object, Top, d) = MostOfGesture(touch, Top)
      BY <1>2, FamilyMost
    <2>2. late + Most(touch, object, Top, d) <= 3
      BY <1>2, <2>1, HereFacts
    <2> QED BY <2>1, <2>2
  <1>6. \A f, d : f.at \in GestureBody =>
          Room(touch, inited, f, d) /\ Most(touch, object, f, d) = MostOfGesture(touch, f)
    <2> SUFFICES ASSUME NEW f, NEW d, f.at \in GestureBody
                 PROVE  Room(touch, inited, f, d) /\ Most(touch, object, f, d) = MostOfGesture(touch, f)
      OBVIOUS
    <2>1. Most(touch, object, f, d) = MostOfGesture(touch, f)
      BY FamilyMost
    <2>2. Room(touch, inited, f, d)
      <3>1. f.at \in GestureBody => Room(touch, inited, f, d)
        BY TouchTable
      <3> QED BY <3>1
    <2> QED BY <2>1, <2>2
  <1>7. ASSUME NEW v, Return(v) PROVE LateInv'
    <2>1. \A d : Here(d) => late + (IF Fails(v) THEN d.least ELSE d.most) <= 3
      BY <1>4
    <2> QED BY <1>1, <1>2, <1>7, <2>1, HereReturn
  <1>8. "gesture.next" \in Labels /\ "gesture.next" \in GestureBody /\ "gesture.next" \notin Choosing
        /\ {"gesture.started", "gesture.sent"} \subseteq GestureBody
        /\ {"gesture.started", "gesture.sent"} \subseteq Waits
    BY DEF Labels, GestureBody, Choosing, Waits, HupWaits
  <1>9. ASSUME Top.at # "gesture.sent", Top.at \in Choosing => ~Fails(result), NEW l, NEW f, NEW d,
               l \in {"gesture.next", "gesture.started"}, Here(d), Moved(f, l, Top.n)
        PROVE  Bears(f, d)
    <2>1. MostOfGesture(touch, f) = MostOfGesture(touch, Top)
      BY <1>9 DEF MostOfGesture, Moved
    <2>2. f.at \in GestureBody
      BY <1>8, <1>9 DEF Moved
    <2> QED BY <1>5, <1>6, <1>9, <2>1, <2>2 DEF Bears
  <1>10. ASSUME Top.at # "gesture.sent", Top.at \in Choosing => ~Fails(result), Jump("gesture.next")
         PROVE  LateInv'
    <2>1. \A d, f : Here(d) /\ Moved(f, "gesture.next", Top.n) => Bears(f, d)
      BY <1>9, <1>10
    <2> QED BY <1>1, <1>2, <1>8, <1>10, <2>1, HereJump
  <1> USE DEF At
  <1>11. CASE GestureBegin
    <2>1. Top.at = "gesture" /\ Top.at # "gesture.sent" /\ Top.at \notin Choosing
      BY <1>11 DEF GestureBegin, Choosing
    <2>2. CASE Call(Hup, "gesture.started")
      <3>1. \A d, f : Here(d) /\ Moved(f, "gesture.started", Top.n) =>
              Room(touch, inited, f, d) /\ late + Most(touch, object, f, d) <= 3
        BY <1>9, <2>1 DEF Bears
      <3> QED BY <1>1, <1>2, <1>8, <2>2, <3>1, LateRestart
    <2> QED BY <1>10, <1>11, <2>1, <2>2 DEF GestureBegin
  <1>12. CASE GestureStarted
    BY <1>7, <1>10, <1>12 DEF GestureStarted, Fails
  <1>13. CASE GestureSent
    <2>1. Top.at = "gesture.sent" /\ Top.at \notin Choosing
      BY <1>13 DEF GestureSent, Choosing
    <2>2. CASE Again("gesture.next")
      <3>1. ASSUME NEW d, NEW f, Here(d), Moved(f, "gesture.next", Top.n + 1) PROVE Bears(f, d)
        <4>1. f.at = "gesture.next" /\ f.n = Top.n + 1 /\ f.cmd = Top.cmd /\ f.n \in Nat
          BY <1>3, <3>1 DEF Moved
        <4>2. EscAt(touch, f.cmd) \in Nat
          BY <4>1, GestureOwes
        <4>3. MostOfGesture(touch, f) = MostOfGesture(touch, Top)
          <5>1. f.n <= EscAt(touch, f.cmd) <=> Top.n < EscAt(touch, Top.cmd)
            BY <1>3, <4>1, <4>2
          <5>2. MostOfGesture(touch, f) \in {0, 1} /\ MostOfGesture(touch, Top) \in {0, 1}
            BY <1>3, <4>1, GestureOwes
          <5>3. MostOfGesture(touch, f) = 1 <=> f.n <= EscAt(touch, f.cmd)
            BY <4>1, GestureOwes
          <5>4. MostOfGesture(touch, Top) = 1 <=> Top.n < EscAt(touch, Top.cmd)
            BY <1>3, <2>1, GestureOwes
          <5> QED BY <5>1, <5>2, <5>3, <5>4
        <4>4. f.at \in GestureBody
          BY <1>8, <4>1
        <4> QED BY <1>5, <1>6, <2>1, <3>1, <4>3, <4>4 DEF Bears
      <3> QED BY <1>1, <1>2, <1>8, <2>2, <3>1, HereAgain
    <2> QED BY <1>7, <1>13, <2>2 DEF GestureSent
  <1>14. CASE GestureNext
    <2>1. Top.at = "gesture.next" /\ Top.at \notin Choosing
      BY <1>14 DEF GestureNext, Choosing
    <2> DEFINE commands == Gestures[Top.cmd]
               c == commands[Top.n]
    <2>2. \/ Return("yes")
          \/ Top.n <= Len(commands) /\ c = "esc" /\ Call(AdbCommand(FALSE), "gesture.sent")
          \/ Call(Input(c, FALSE), "gesture.sent")
          \/ stack' = <<>>
      <3>1. Len(commands) \in Nat
        BY <1>3, GestureCommands
      <3>2. Top.n \in Nat
        BY <1>3
      <3>3. Top.n > Len(commands) \/ Top.n <= Len(commands)
        BY <3>1, <3>2
      <3> HIDE DEF commands
      <3>4. CASE Top.n > Len(commands)
        BY <1>14, <3>4 DEF GestureNext, commands
      <3>5. CASE ~(Top.n > Len(commands)) /\ Top.n <= Len(commands)
        <4>1. CASE c = "esc"
          BY <1>14, <3>5, <4>1 DEF GestureNext, commands
        <4>2. CASE c # "esc"
          BY <1>14, <3>5, <4>2 DEF GestureNext, commands
        <4> QED BY <4>1, <4>2
      <3> QED BY <3>3, <3>4, <3>5
    <2>3. ASSUME NEW d, Here(d) PROVE late + MostOfGesture(touch, Top) <= 3
      BY <1>5, <2>1, <2>3
    <2>4. CASE Top.n <= Len(commands) /\ c = "esc" /\ Call(AdbCommand(FALSE), "gesture.sent")
      <3>1. Top.n = EscAt(touch, Top.cmd)
        <4>1. Top.n \in 1 .. Len(Gestures[Top.cmd])
          <5>1. Top.n \in Nat /\ Top.n # 0 /\ Len(Gestures[Top.cmd]) \in Nat
            BY <1>3, GestureCommands DEF Frames
          <5> QED BY <2>4, <5>1
        <4>2. \/ Top.cmd = "pause" /\ Top.n = 3 /\ touch # "maatouch"
              \/ Top.cmd = "late" /\ Top.n = 5
          BY <1>3, <2>4, <4>1, GestureCommands
        <4> QED BY <4>2 DEF EscAt
      <3> DEFINE g == AdbCommand(FALSE)
      <3>2. g.at = "command" /\ ~g.flag
        BY DEF AdbCommand, Frame
      <3>3. Call(g, "gesture.sent")
        BY <2>4
      <3> HIDE DEF g
      <3>4. ASSUME NEW d, NEW f, Here(d), Moved(f, "gesture.sent", Top.n)
            PROVE  Room(touch, inited, f, d) /\ Bears(g, Debt(touch, object, f, d))
        <4>1. f.at = "gesture.sent" /\ f.n = Top.n /\ f.cmd = Top.cmd
          BY <3>4 DEF Moved
        <4>2. MostOfGesture(touch, f) = 0 /\ MostOfGesture(touch, Top) = 1
          BY <1>3, <2>1, <3>1, <4>1 DEF MostOfGesture
        <4>3. f.at \in GestureBody /\ f.at \notin Choosing
          BY <1>8, <4>1 DEF Choosing
        <4>4. Room(touch, inited, f, d) /\ Most(touch, object, f, d) = 0
          BY <1>6, <4>2, <4>3
        <4> DEFINE e == Debt(touch, object, f, d)
        <4>5. e.most = 0 /\ e.least = 0
          BY <4>3, <4>4, DebtOf
        <4> HIDE DEF e
        <4>6. Room(touch, inited, g, e)
          BY <3>2, <4>5, ShotTable
        <4>7. Most(touch, object, g, e) = 1 + e.least
          BY <3>2, <4>6, ShotTable
        <4>8. late + Most(touch, object, g, e) <= 3
          BY <2>3, <3>4, <4>2, <4>5, <4>7
        <4> QED BY <4>4, <4>6, <4>8 DEF Bears, e
      <3> QED BY <1>1, <1>2, <1>8, <3>3, <3>4, HereCall
    <2>5. CASE Call(Input(c, FALSE), "gesture.sent")
      <3> DEFINE g == Input(c, FALSE)
      <3>1. g.at = "input"
        BY DEF Input, Frame
      <3>2. Call(g, "gesture.sent")
        BY <2>5
      <3> HIDE DEF g
      <3>3. g.at \in FlatBody
        BY <3>1 DEF FlatBody
      <3>4. ASSUME NEW d, NEW f, Here(d), Moved(f, "gesture.sent", Top.n)
            PROVE  Room(touch, inited, f, d) /\ Bears(g, Debt(touch, object, f, d))
        <4>1. f.at = "gesture.sent" /\ f.n = Top.n /\ f.cmd = Top.cmd /\ f.at \in GestureBody
          BY <1>8, <3>4 DEF Moved
        <4>2. MostOfGesture(touch, f) <= MostOfGesture(touch, Top) /\ MostOfGesture(touch, f) \in {0, 1}
              /\ MostOfGesture(touch, Top) \in {0, 1}
          BY <1>3, <2>1, <4>1 DEF MostOfGesture
        <4>3. Room(touch, inited, f, d) /\ Most(touch, object, f, d) = MostOfGesture(touch, f)
          BY <1>6, <4>1
        <4>4. late \in Nat
          BY DEF LateInv
        <4>5. late + MostOfGesture(touch, f) <= 3
          BY <2>3, <3>4, <4>2, <4>4
        <4>6. Debt(touch, object, f, d).most = MostOfGesture(touch, f)
          BY <4>3, DebtOf
        <4>7. /\ Room(touch, inited, g, Debt(touch, object, f, d))
              /\ Most(touch, object, g, Debt(touch, object, f, d)) = Debt(touch, object, f, d).most
          BY <3>3, FlatFacts
        <4> QED BY <4>3, <4>5, <4>6, <4>7 DEF Bears
      <3> QED BY <1>1, <1>2, <1>8, <3>2, <3>4, HereCall
    <2>6. CASE stack' = <<>>
      BY <2>6, LateEmpty DEF LateInv
    <2> QED BY <1>7, <2>2, <2>4, <2>5, <2>6
  <1> QED BY <1>11, <1>12, <1>13, <1>14

LEMMA SpareFacts ==
  ASSUME NEW t, NEW n, NEW c
  PROVE  Spare(t, n, c) \in {0, 1}
  BY DEF Spare

LEMMA InstallingFacts ==
  ASSUME NEW t, NEW n \in Nat, NEW c, NEW d, d.least \in Nat, d.most \in Nat, d.least <= d.most
  PROVE  /\ Installing(t, n, c, d) \in Nat /\ d.least <= Installing(t, n, c, d)
         /\ n # 2 \/ t # "minitouch" => Installing(t, n, c, d) = Installing(t, n, 1, d)
  <1>1. Spare(t, n, c) \in {0, 1}
    BY SpareFacts
  <1>2. Installing(t, n, c, d) \in Nat /\ d.least <= Installing(t, n, c, d)
    BY <1>1 DEF Installing
  <1>3. n # 2 \/ t # "minitouch" => Spare(t, n, c) = Spare(t, n, 1)
    BY DEF Spare
  <1> QED BY <1>2, <1>3 DEF Installing

LEMMA TouchOwes ==
  ASSUME Typed, LateInv, stack # <<>>, NEW d, Here(d)
  PROVE  /\ Top.at \in TouchBody => d.least <= 1 /\ ~inited /\ late + d.least <= 3
         /\ Top.at \in {"touch.connect", "touch.connected"} => Top.n = 1
         /\ Top.at = "touch.connected" /\ ~Fails(result) => late + Installing(touch, 1, Found(Top), d) <= 3
         /\ Top.at = "touch.probe" => late + Installing(touch, Top.n, Found(Top), d) <= 3
         /\ Top.at = "touch.probed" =>
              /\ Top.n <= Steps(touch)
              /\ ~Fails(result) => late + Installing(touch, Top.n + 1, 1, d) <= 3
              /\ Fails(result) => late + (Spare(touch, Top.n, Found(Top)) + d.least) <= 3
         /\ Top.at = "touch.ready" /\ ~Fails(result) => late + d.most <= 3
  <1>1. Room(touch, inited, Top, d)
    BY DEF Here
  <1>2. /\ late \in Nat /\ d.least \in Nat /\ d.most \in Nat /\ d.least <= d.most
        /\ Top.n \in Nat /\ Top.n + 1 \in Nat
    BY HereFacts, TopFrame DEF Frames
  <1>3. ASSUME NEW n \in Nat, NEW b, late + Installing(touch, n, b, d) <= 3 PROVE late + d.least <= 3
    <2> DEFINE x == Installing(touch, n, b, d)
    <2>1. x \in Nat /\ d.least <= x /\ late + x <= 3
      BY <1>2, <1>3, InstallingFacts
    <2> HIDE DEF x
    <2> QED BY <1>2, <2>1
  <1>4. Top.at \in {"touch.connect", "touch.probe"} => late + Most(touch, object, Top, d) <= 3
    <2>1. Top.at \in {"touch.connect", "touch.probe"} => Top.at \notin Choosing
      BY DEF Choosing
    <2> QED BY <2>1, HereFacts
  <1>5. Top.at \in {"touch.connected", "touch.probed", "touch.ready"} =>
          /\ Fails(result) => late + Least(touch, object, Top, d) <= 3
          /\ ~Fails(result) => late + Most(touch, object, Top, d) <= 3
    <2>1. Top.at \in {"touch.connected", "touch.probed", "touch.ready"} => Top.at \in Choosing
      BY DEF Choosing
    <2> QED BY <2>1, HereFacts
  <1>6. CASE Top.at = "touch.connect"
    <2>1. d.least <= 1 /\ Top.n = 1 /\ ~inited /\ Most(touch, object, Top, d) = d.least
      BY <1>1, <1>6, TouchTable
    <2> QED BY <1>4, <1>6, <2>1
  <1>7. CASE Top.at = "touch.connected"
    <2>1. /\ d.least <= 1 /\ Top.n = 1 /\ ~inited /\ Most(touch, object, Top, d) = Installing(touch, Top.n, Found(Top), d)
          /\ Least(touch, object, Top, d) = d.least
      BY <1>1, <1>7, TouchTable
    <2>2. ~Fails(result) => late + Installing(touch, 1, Found(Top), d) <= 3
      BY <1>5, <1>7, <2>1
    <2>3. late + d.least <= 3
      <3>1. CASE Fails(result)
        BY <1>5, <1>7, <2>1, <3>1
      <3>2. CASE ~Fails(result)
        <4>1. 1 \in Nat
          OBVIOUS
        <4> QED BY <1>3, <2>2, <3>2, <4>1
      <3> QED BY <3>1, <3>2
    <2> QED BY <1>7, <2>1, <2>2, <2>3
  <1>8. CASE Top.at = "touch.probe"
    <2>1. d.least <= 1 /\ ~inited /\ Most(touch, object, Top, d) = Installing(touch, Top.n, Found(Top), d)
      BY <1>1, <1>8, TouchTable
    <2>2. late + Installing(touch, Top.n, Found(Top), d) <= 3
      BY <1>4, <1>8, <2>1
    <2>3. late + d.least <= 3
      BY <1>2, <1>3, <2>2
    <2> QED BY <1>8, <2>1, <2>2, <2>3
  <1>9. CASE Top.at = "touch.probed"
    <2>1. /\ d.least <= 1 /\ ~inited /\ Top.n <= Steps(touch)
          /\ Most(touch, object, Top, d) = Installing(touch, Top.n + 1, 1, d)
          /\ Least(touch, object, Top, d) = Spare(touch, Top.n, Found(Top)) + d.least
      BY <1>1, <1>9, TouchTable
    <2>2. /\ ~Fails(result) => late + Installing(touch, Top.n + 1, 1, d) <= 3
          /\ Fails(result) => late + (Spare(touch, Top.n, Found(Top)) + d.least) <= 3
      BY <1>5, <1>9, <2>1
    <2>3. late + d.least <= 3
      <3>1. CASE Fails(result)
        <4>1. Spare(touch, Top.n, Found(Top)) \in {0, 1}
          BY SpareFacts
        <4> QED BY <1>2, <2>2, <3>1, <4>1
      <3>2. CASE ~Fails(result)
        BY <1>2, <1>3, <2>2, <3>2
      <3> QED BY <3>1, <3>2
    <2> QED BY <1>9, <2>1, <2>2, <2>3
  <1>10. CASE Top.at = "touch.ready"
    <2>1. /\ d.least <= 1 /\ ~inited /\ Most(touch, object, Top, d) = d.most
          /\ Least(touch, object, Top, d) = d.least
      BY <1>1, <1>10, TouchTable
    <2>2. late + d.least <= 3 /\ (~Fails(result) => late + d.most <= 3)
      BY <1>2, <1>5, <1>10, <2>1
    <2> QED BY <1>10, <2>1, <2>2
  <1> QED BY <1>6, <1>7, <1>8, <1>9, <1>10 DEF TouchBody

LEMMA InstallationFacts ==
  /\ Len(Installation) = Steps(touch)
  /\ \A n \in 1 .. Steps(touch) :
       /\ Installation[n] = "abilist" => touch = "minitouch" /\ n = 1
       /\ Installation[n] = "orientation" => touch = "minitouch" /\ n = 2
       /\ touch = "minitouch" /\ n = 1 => Installation[n] = "abilist"
  <1>1. CASE touch = "minitouch"
    <2>1. Steps(touch) = 4
      BY <1>1 DEF Steps
    <2>2. /\ Len(Installation) = 4 /\ Installation[1] = "abilist"
          /\ Installation[2] = "orientation" /\ Installation[3] = "push"
          /\ Installation[4] = "chmod"
      BY <1>1 DEF Installation
    <2>3. \A n \in 1 .. 4 : n = 1 \/ n = 2 \/ n = 3 \/ n = 4
      OBVIOUS
    <2> QED BY <1>1, <2>1, <2>2, <2>3
  <1>2. CASE touch # "minitouch"
    <2>1. Steps(touch) = 2
      BY <1>2 DEF Steps
    <2>2. Len(Installation) = 2 /\ Installation[1] = "push" /\ Installation[2] = "chmod"
      BY <1>2 DEF Installation
    <2>3. \A n \in 1 .. 2 : n = 1 \/ n = 2
      OBVIOUS
    <2> QED BY <1>2, <2>1, <2>2, <2>3
  <1> QED BY <1>1, <1>2

LEMMA LateTouchConnect ==
  ASSUME Typed, Typed', LateInv, UNCHANGED <<late, need_exit, inited, method, touch, object>>,
         TouchConnect \/ TouchConnected \/ TouchProbe \/ TouchProbed \/ TouchReady
  PROVE  LateInv'
  <1>1. Settled
    BY SettledBy
  <1>2. stack # <<>> /\ Top.at \in TouchBody
    BY DEF TouchConnect, TouchConnected, TouchProbe, TouchProbed, TouchReady, At, TouchBody
  <1>3. \A d : Here(d) => d.least <= 1 /\ ~inited /\ late + d.least <= 3
    BY <1>2, TouchOwes
  <1>4. Top \in Frames /\ Top.n \in Nat \ {0}
    BY <1>2, TopFrame DEF Frames
  <1>5. /\ "touch.probe" \in Labels /\ "touch.probe" \notin Choosing
        /\ {"touch.connected", "touch.probed", "touch.ready"} \subseteq Waits
    BY DEF Labels, TouchBody, Choosing, Waits, HupWaits
  <1>6. ASSUME Return("no") PROVE LateInv'
    BY <1>1, <1>2, <1>3, <1>6, HereReturn DEF Fails
  <1> USE DEF At
  <1>7. CASE TouchConnect
    <2> DEFINE g == Frame("adb.connect", "", FALSE)
    <2>1. g.at = "adb.connect" /\ g.n = 1
      BY DEF Frame
    <2>2. Top.at = "touch.connect" /\ Call(g, "touch.connected")
      BY <1>7 DEF TouchConnect
    <2> HIDE DEF g
    <2>3. ASSUME NEW d, NEW f, Here(d), Moved(f, "touch.connected", Top.n)
          PROVE  Room(touch, inited, f, d) /\ Bears(g, Debt(touch, object, f, d))
      <3>1. f.at = "touch.connected" /\ f.n = 1
        BY <1>2, <2>2, <2>3, TouchOwes DEF Moved
      <3>2. d.least <= 1 /\ ~inited /\ late + d.least <= 3
        BY <1>3, <2>3
      <3>3. Room(touch, inited, f, d)
        BY <3>1, <3>2, TouchTable
      <3> DEFINE e == Debt(touch, object, f, d)
      <3>4. e.least = d.least
        <4>1. Least(touch, object, f, d) = d.least
          BY <3>1, <3>3, TouchTable
        <4> QED BY <4>1, DebtOf
      <3> HIDE DEF e
      <3>5. Room(touch, inited, g, e)
        BY <2>1, <3>2, <3>4, LinkTable
      <3>6. Most(touch, object, g, e) = e.least
        BY <2>1, <3>5, LinkTable
      <3> QED BY <3>2, <3>3, <3>4, <3>5, <3>6 DEF Bears, e
    <2> QED BY <1>1, <1>2, <1>5, <2>2, <2>3, HereCall
  <1>8. CASE TouchConnected
    <2>1. Top.at = "touch.connected"
      BY <1>8 DEF TouchConnected
    <2>2. CASE result = "yes" /\ Jump("touch.probe")
      <3>1. ASSUME NEW d, NEW f, Here(d), Moved(f, "touch.probe", Top.n) PROVE Bears(f, d)
        <4>1. Top.n = 1 /\ late + Installing(touch, 1, Found(Top), d) <= 3 /\ d.least <= 1 /\ ~inited
          BY <1>2, <1>3, <2>1, <2>2, <3>1, TouchOwes DEF Fails
        <4>2. f.at = "touch.probe" /\ f.n = 1 /\ Found(f) = Found(Top)
          BY <3>1, <4>1 DEF Moved, Found
        <4>3. Room(touch, inited, f, d)
          BY <4>1, <4>2, TouchTable
        <4>4. Most(touch, object, f, d) = Installing(touch, 1, Found(Top), d)
          BY <4>2, <4>3, TouchTable
        <4> QED BY <4>1, <4>3, <4>4 DEF Bears
      <3> QED BY <1>1, <1>2, <1>5, <2>2, <3>1, HereJump
    <2> QED BY <1>6, <1>8, <2>2 DEF TouchConnected
  <1>9. CASE TouchProbe
    <2>1. Top.at = "touch.probe"
      BY <1>9 DEF TouchProbe
    <2>2. CASE Top.n <= Len(Installation) /\ Call(AdbCall(Installation[Top.n], TRUE), "touch.probed")
      <3> DEFINE g == AdbCall(Installation[Top.n], TRUE)
      <3>1. g.at = "call"
        BY DEF AdbCall, Frame
      <3>2. Call(g, "touch.probed") /\ Top.n <= Steps(touch)
        BY <2>2, InstallationFacts
      <3> HIDE DEF g
      <3>3. ASSUME NEW d, NEW f, Here(d), Moved(f, "touch.probed", Top.n)
            PROVE  Room(touch, inited, f, d) /\ Bears(g, Debt(touch, object, f, d))
        <4>1. f.at = "touch.probed" /\ f.n = Top.n /\ Found(f) = Found(Top)
          BY <3>3 DEF Moved, Found
        <4>2. d.least <= 1 /\ ~inited /\ late + Installing(touch, Top.n, Found(Top), d) <= 3 /\ d.least \in Nat
          BY <1>2, <1>3, <2>1, <3>3, TouchOwes, HereFacts
        <4>3. Room(touch, inited, f, d)
          BY <3>2, <4>1, <4>2, TouchTable
        <4>4. Least(touch, object, f, d) = Spare(touch, Top.n, Found(Top)) + d.least
          BY <4>1, <4>3, TouchTable
        <4> DEFINE e == Debt(touch, object, f, d)
        <4>5. e.least = Spare(touch, Top.n, Found(Top)) + d.least
          BY <4>4, DebtOf
        <4> HIDE DEF e
        <4>6. Room(touch, inited, g, e)
          BY <3>1, <4>2, CallTable
        <4>7. Most(touch, object, g, e) = 1 + e.least
          BY <3>1, <4>6, CallTable
        <4>8. Installing(touch, Top.n, Found(Top), d) = 1 + (Spare(touch, Top.n, Found(Top)) + d.least)
          <5>1. Steps(touch) \in Nat
            BY DEF Steps
          <5>2. ~(Top.n > Steps(touch))
            BY <1>4, <3>2, <5>1
          <5> QED BY <5>2 DEF Installing
        <4>9. late + (1 + e.least) <= 3
          BY <4>2, <4>5, <4>8
        <4>10. late + Most(touch, object, g, e) <= 3
          BY <4>7, <4>9
        <4> QED BY <4>3, <4>6, <4>10 DEF Bears, e
      <3> QED BY <1>1, <1>2, <1>5, <3>2, <3>3, HereCall
    <2>3. CASE ~(Top.n <= Len(Installation)) /\ Call(Hup, "touch.ready")
      <3>1. ASSUME NEW d, NEW f, Here(d), Moved(f, "touch.ready", Top.n)
            PROVE  Room(touch, inited, f, d) /\ late + Most(touch, object, f, d) <= 3
        <4>1. f.at = "touch.ready"
          BY <3>1 DEF Moved
        <4>2. d.least <= 1 /\ ~inited /\ late + Installing(touch, Top.n, Found(Top), d) <= 3
          BY <1>2, <1>3, <2>1, <3>1, TouchOwes
        <4>3. Room(touch, inited, f, d)
          BY <4>1, <4>2, TouchTable
        <4>4. Most(touch, object, f, d) = d.most
          BY <4>1, <4>3, TouchTable
        <4>5. Installing(touch, Top.n, Found(Top), d) = d.most
          <5>1. Steps(touch) \in Nat /\ Len(Installation) = Steps(touch)
            BY InstallationFacts DEF Steps
          <5>2. Top.n > Steps(touch)
            BY <1>4, <2>3, <5>1
          <5> QED BY <5>2 DEF Installing
        <4> QED BY <4>2, <4>3, <4>4, <4>5
      <3>2. "touch.ready" \in Waits
        BY <1>5
      <3>3. Call(Hup, "touch.ready")
        BY <2>3
      <3> QED BY <1>2, <3>1, <3>2, <3>3, LateRestart
    <2> QED BY <1>9, <2>2, <2>3 DEF TouchProbe
  <1>10. CASE TouchProbed
    <2>1. Top.at = "touch.probed"
      BY <1>10 DEF TouchProbed
    <2>2. ASSUME NEW d, Here(d)
          PROVE  /\ d.least <= 1 /\ ~inited /\ Top.n \in 1 .. Steps(touch)
                 /\ ~Fails(result) => late + Installing(touch, Top.n + 1, 1, d) <= 3
                 /\ Fails(result) => late + (Spare(touch, Top.n, Found(Top)) + d.least) <= 3
                 /\ late \in Nat /\ d.least \in Nat /\ d.most \in Nat /\ d.least <= d.most
      <3>1. /\ d.least <= 1 /\ ~inited /\ Top.n <= Steps(touch)
            /\ ~Fails(result) => late + Installing(touch, Top.n + 1, 1, d) <= 3
            /\ Fails(result) => late + (Spare(touch, Top.n, Found(Top)) + d.least) <= 3
        BY <1>2, <1>3, <2>1, <2>2, TouchOwes
      <3>2. Steps(touch) \in Nat
        BY DEF Steps
      <3>3. Top.n \in 1 .. Steps(touch)
        BY <1>4, <3>1, <3>2
      <3>4. late \in Nat /\ d.least \in Nat /\ d.most \in Nat /\ d.least <= d.most
        BY <1>2, <2>2, HereFacts
      <3> QED BY <3>1, <3>3, <3>4
    <2> DEFINE asked == Installation[Top.n]
               g == [Top EXCEPT !.at = "touch.probe", !.n = @ + 1, !.flag = result = "ok"]
    <2>3. CASE asked = "abilist" /\ Replace(g) /\ result' = result
      <3>1. g.at = "touch.probe" /\ g.n = Top.n + 1 /\ g.flag = (result = "ok")
        BY <1>4 DEF Frames
      <3>2. Replace(g)
        BY <2>3
      <3>3. asked = "abilist" /\ result' = result
        BY <2>3
      <3> HIDE DEF g
      <3>4. ASSUME NEW d, Here(d) PROVE Bears(g, d)
        <4>1. Top.n = 1 /\ touch = "minitouch"
          BY <2>2, <3>3, <3>4, InstallationFacts
        <4>2. Room(touch, inited, g, d)
          BY <2>2, <3>1, <3>4, TouchTable
        <4>3. Most(touch, object, g, d) = Installing(touch, 2, Found(g), d)
          <5>1. g.n = 2
            BY <3>1, <4>1
          <5> QED BY <3>1, <4>2, <5>1, TouchTable
        <4>4. /\ Installing(touch, 2, 1, d) = 2 + d.least
              /\ Installing(touch, 2, 0, d) = 1 + d.least
          <5>1. Spare(touch, 2, 1) = 1 /\ Spare(touch, 2, 0) = 0 /\ Steps(touch) = 4
            BY <4>1 DEF Spare, Steps
          <5>2. d.least \in Nat
            BY <2>2, <3>4
          <5> QED BY <5>1, <5>2 DEF Installing
        <4>5. late \in Nat /\ d.least \in Nat
          BY <2>2, <3>4
        <4>6. CASE Fails(result)
          <5>1. Found(g) = 0
            BY <3>1, <4>6 DEF Fails, Found
          <5>2. Spare(touch, Top.n, Found(Top)) = 1
            BY <4>1 DEF Spare
          <5>3. late + (1 + d.least) <= 3
            BY <2>2, <3>4, <4>6, <5>2
          <5>4. late + Most(touch, object, g, d) <= 3
            BY <4>3, <4>4, <5>1, <5>3
          <5> QED BY <4>2, <5>4 DEF Bears
        <4>7. CASE ~Fails(result)
          <5>1. late + (2 + d.least) <= 3
            <6>1. Top.n + 1 = 2
              BY <4>1
            <6>2. late + Installing(touch, Top.n + 1, 1, d) <= 3
              BY <2>2, <3>4, <4>7
            <6> QED BY <4>4, <6>1, <6>2
          <5>2. Found(g) = 0 \/ Found(g) = 1
            BY DEF Found
          <5>3. late + Most(touch, object, g, d) <= 3
            BY <4>3, <4>4, <4>5, <5>1, <5>2
          <5> QED BY <4>2, <5>3 DEF Bears
        <4> QED BY <4>6, <4>7
      <3>5. g.at \notin Choosing
        BY <1>5, <3>1
      <3> QED BY <1>1, <1>2, <3>2, <3>3, <3>4, <3>5, HereReplace
    <2>4. CASE /\ asked # "abilist" /\ Again("touch.probe")
               /\ IF asked = "orientation" THEN Top.flag ELSE result = "ok"
      <3>1. ASSUME NEW d, NEW f, Here(d), Moved(f, "touch.probe", Top.n + 1) PROVE Bears(f, d)
        <4>1. f.at = "touch.probe" /\ f.n = Top.n + 1 /\ Found(f) = Found(Top)
          BY <3>1 DEF Moved, Found
        <4>2. Room(touch, inited, f, d)
          BY <2>2, <3>1, <4>1, TouchTable
        <4>3. Most(touch, object, f, d) = Installing(touch, Top.n + 1, Found(Top), d)
          BY <4>1, <4>2, TouchTable
        <4>4. Top.n # 1 \/ touch # "minitouch"
          BY <2>2, <2>4, <3>1, InstallationFacts
        <4>5. Installing(touch, Top.n + 1, Found(Top), d) = Installing(touch, Top.n + 1, 1, d)
          <5>1. Top.n + 1 \in Nat /\ (Top.n + 1 # 2 \/ touch # "minitouch")
            BY <1>4, <4>4
          <5> QED BY <2>2, <3>1, <5>1, InstallingFacts
        <4>6. CASE ~Fails(result)
          <5>1. late + Installing(touch, Top.n + 1, 1, d) <= 3
            BY <2>2, <3>1, <4>6
          <5>2. late + Most(touch, object, f, d) <= 3
            BY <4>3, <4>5, <5>1
          <5> QED BY <4>2, <5>2 DEF Bears
        <4>7. CASE Fails(result)
          <5>1. asked = "orientation" /\ Top.flag
            BY <2>4, <4>7 DEF Fails
          <5>2. Top.n = 2 /\ touch = "minitouch"
            BY <2>2, <3>1, <5>1, InstallationFacts
          <5>3. Found(Top) = 1
            BY <5>1 DEF Found
          <5>4. Spare(touch, Top.n, Found(Top)) = 1
            BY <5>2, <5>3 DEF Spare
          <5>5. late + (1 + d.least) <= 3
            BY <2>2, <3>1, <4>7, <5>4
          <5>6. Installing(touch, Top.n + 1, 1, d) = 1 + d.least
            <6>1. Spare(touch, 3, 1) = 0 /\ Steps(touch) = 4 /\ Top.n + 1 = 3
              BY <5>2 DEF Spare, Steps
            <6>2. d.least \in Nat
              BY <2>2, <3>1
            <6> QED BY <6>1, <6>2 DEF Installing
          <5>7. late + Most(touch, object, f, d) <= 3
            BY <4>3, <4>5, <5>5, <5>6
          <5> QED BY <4>2, <5>7 DEF Bears
        <4> QED BY <4>6, <4>7
      <3> QED BY <1>1, <1>2, <1>5, <2>4, <3>1, HereAgain
    <2>5. \/ asked = "abilist" /\ Replace(g) /\ result' = result
          \/ /\ asked # "abilist" /\ Again("touch.probe")
             /\ IF asked = "orientation" THEN Top.flag ELSE result = "ok"
          \/ Return("no")
      BY <1>10 DEF TouchProbed
    <2> HIDE DEF asked, g
    <2> QED BY <1>6, <2>3, <2>4, <2>5
  <1>11. CASE TouchReady
    <2>1. Top.at = "touch.ready" /\ Return(result)
      BY <1>11 DEF TouchReady
    <2>2. \A d : Here(d) => late + (IF Fails(result) THEN d.least ELSE d.most) <= 3
      BY <1>2, <1>3, <2>1, TouchOwes
    <2> QED BY <1>1, <1>2, <2>1, <2>2, HereReturn
  <1> QED BY <1>7, <1>8, <1>9, <1>10, <1>11

LEMMA LateTouchTool == ASSUME CallsInv, Typed', LateInv, TouchTool PROVE LateInv'
  <1>1. Typed /\ Legal
    BY DEF CallsInv
  <1> USE DEF TouchTool, ioVars, adbVars, shotVars, linkVars, touchVars, ctrlVars, Jump, Again, Call, Return
  <1>2. UNCHANGED <<late, inited, method, touch, object>>
    BY DEF TouchStep, TouchReconnectOk, TouchReconnectHup, HupStart, HupPoll, HupRead, HupProps,
           InputWrite, InputRewrite, GestureBegin, GestureStarted, GestureNext, GestureSent, InjectBegin,
           InjectStarted, TouchConnect, TouchConnected, TouchProbe, TouchProbed, TouchReady
  <1>3. CASE TouchReconnectOk \/ TouchReconnectHup
    <2>1. need_exit' = need_exit
      BY <1>3 DEF TouchReconnectOk, TouchReconnectHup
    <2> QED BY <1>1, <1>2, <1>3, <2>1, LateReconnected
  <1>4. CASE HupStart \/ HupPoll \/ HupRead \/ HupProps
    BY <1>1, <1>2, <1>4, LateHup
  <1>5. CASE InputWrite \/ InputRewrite
    <2>1. need_exit' = need_exit
      BY <1>5 DEF InputWrite, InputRewrite
    <2> QED BY <1>1, <1>2, <1>5, <2>1, LateInput
  <1>6. CASE GestureBegin \/ GestureStarted \/ GestureNext \/ GestureSent
    <2>1. need_exit' = need_exit
      BY <1>6 DEF GestureBegin, GestureStarted, GestureNext, GestureSent
    <2> QED BY <1>2, <1>6, <2>1, LateGesture
  <1>7. CASE InjectBegin \/ InjectStarted
    <2>1. need_exit' = need_exit
      BY <1>7 DEF InjectBegin, InjectStarted
    <2> QED BY <1>1, <1>2, <1>7, <2>1, LateInject
  <1>8. CASE TouchConnect \/ TouchConnected \/ TouchProbe \/ TouchProbed \/ TouchReady
    <2>1. need_exit' = need_exit
      BY <1>8 DEF TouchConnect, TouchConnected, TouchProbe, TouchProbed, TouchReady
    <2> QED BY <1>1, <1>2, <1>8, <2>1, LateTouchConnect
  <1> QED BY <1>3, <1>4, <1>5, <1>6, <1>7, <1>8 DEF TouchStep

-----------------------------------------------------------------------------
(* Connecting, looking at the screen, and the callers.                             *)

LEMMA CtrlTable ==
  ASSUME NEW t, NEW o, NEW e, NEW f, NEW d
  PROVE  /\ f.at \in CtrlBody => (Room(t, e, f, d) <=> d.most = 0) /\ Most(t, o, f, d) = MostOfCtrl(o, f)
         /\ f.at = "ctrl.connected" => Least(t, o, f, d) = IF o \in AdbFamily THEN 1 ELSE 0
         /\ f.at \in Imaging => (Room(t, e, f, d) <=> d.at = "") /\ Most(t, o, f, d) = 0
         /\ f.at \in {"connected", "exit", "exited"} =>
              Room(t, e, f, d) /\ Most(t, o, f, d) = MostOfClient(f)
  <1>1. f.at \in CtrlBody \cup ClientBody =>
          /\ f.at \notin Retrying \cup LinkBody \cup TouchBody /\ f.at \notin TouchBody
          /\ f.at \notin CommandBody
          /\ f.at \notin {"call", "call.done", "capture", "screencap", "probe", "probe.done"}
          /\ f.at \notin {"adb.connect", "connect.listed", "connect.connected", "touch.connect",
                          "touch.connected", "touch.probed"}
    BY DEF CtrlBody, ClientBody, Retrying, LinkBody, TouchBody, CommandBody
  <1>2. f.at \in CtrlBody \cup ClientBody =>
          (Room(t, e, f, d) <=> /\ f.at \in CtrlBody => d.most = 0
                                /\ f.at \in Imaging => d.at = "")
    BY <1>1 DEF Room, Able
  <1>3. /\ f.at \in CtrlBody => f.at \notin Imaging
        /\ f.at \in Imaging \cup {"connected", "exit", "exited"} => f.at \in ClientBody /\ f.at \notin CtrlBody
        /\ f.at \in {"connected", "exit", "exited"} => f.at \notin Imaging
        /\ f.at \in Imaging => f.at # "exit"
    BY DEF CtrlBody, ClientBody, Imaging
  <1>4. f.at \in CtrlBody => Most(t, o, f, d) = MostOfCtrl(o, f)
    BY FamilyMost
  <1>5. f.at \in ClientBody => Most(t, o, f, d) = MostOfClient(f)
    BY FamilyMost
  <1>6. f.at = "ctrl.connected" => Least(t, o, f, d) = IF o \in AdbFamily THEN 1 ELSE 0
    BY DEF Least
  <1>7. f.at \in Imaging => (Room(t, e, f, d) <=> d.at = "") /\ Most(t, o, f, d) = 0
    BY <1>2, <1>3, <1>5 DEF MostOfClient
  <1>8. f.at \in CtrlBody => (Room(t, e, f, d) <=> d.most = 0)
    BY <1>2, <1>3
  <1>9. f.at \in {"connected", "exit", "exited"} => Room(t, e, f, d)
    BY <1>2, <1>3
  <1> QED BY <1>3, <1>4, <1>5, <1>6, <1>7, <1>8, <1>9

\* What a connect in progress owes, whatever the backend becomes: only
\* Assistant::connect waits for it.
LEMMA CtrlRest ==
  ASSUME Typed, Legal, stack # <<>>, Top.at \in CtrlBody \cup {"exit"}, NEW w, Chain(w)
  PROVE  RestOwed(w)
  <1>1. Len(stack) \in Nat /\ Len(stack) > 0 /\ Top = stack[1]
    BY StackFacts
  <1>2. Len(stack) > 1 => Len(stack) = 2 /\ stack[2].at = "connected"
    <2> SUFFICES ASSUME Len(stack) > 1 PROVE Len(stack) = 2 /\ stack[2].at = "connected"
      OBVIOUS
    <2>1. 1 \in 1 .. Len(stack) - 1 /\ 1 + 1 = 2
      BY <1>1
    <2>2. Allowed(touch, stack[2], Top)
      BY <1>1, <2>1 DEF Legal
    <2>3. Top.at \in CtrlBody
      <3>1. Top.at \notin Outermost
        BY StackFacts
      <3> QED BY <3>1 DEF Outermost
    <2>4. stack[2].at = "connected"
      BY <2>2, <2>3 DEF Allowed, Serves
    <2>5. 2 \notin 1 .. Len(stack) - 1
      BY <2>4, StackFacts DEF Outermost
    <2>6. \A n \in Nat : n > 1 /\ 2 \notin 1 .. n - 1 => n = 2
      OBVIOUS
    <2> QED BY <1>1, <2>4, <2>5, <2>6
  <1>3. CASE Len(stack) = 1
    <2>1. \A i : i \notin 1 .. 1 - 1 /\ i \notin 2 .. 1
      OBVIOUS
    <2> QED BY <1>3, <2>1 DEF RestOwed
  <1>4. CASE Len(stack) > 1
    <2>1. Len(stack) = 2 /\ stack[2].at = "connected"
      BY <1>2, <1>4
    <2>2. (\A i \in 1 .. 2 - 1 : i = 1) /\ (\A i \in 2 .. 2 : i = 2) /\ 1 \in 1 .. 2 - 1 /\ 1 + 1 = 2
      OBVIOUS
    <2>3. w[1] = Debt(touch, object, stack[2], w[2])
      BY <2>1, <2>2 DEF Chain
    <2>4. \A t, o, d : Most(t, o, stack[2], d) = 0 /\ Least(t, o, stack[2], d) = 0
      <3> SUFFICES ASSUME NEW t, NEW o, NEW d
                   PROVE  Most(t, o, stack[2], d) = 0 /\ Least(t, o, stack[2], d) = 0
        OBVIOUS
      <3>1. stack[2].at \in ClientBody /\ stack[2].at \notin Choosing
        BY <2>1 DEF ClientBody, Choosing
      <3>2. Most(t, o, stack[2], d) = MostOfClient(stack[2])
        BY <3>1, FamilyMost
      <3> QED BY <2>1, <3>1, <3>2, LeastElse DEF MostOfClient
    <2>5. w[1] = Debt(touch', object', stack[2], w[2])
      BY <2>3, <2>4 DEF Debt
    <2>6. Room(touch', inited', stack[2], w[2])
      <3>1. stack[2].at = "connected" => Room(touch', inited', stack[2], w[2])
        BY CtrlTable
      <3> QED BY <2>1, <3>1
    <2> QED BY <2>1, <2>2, <2>5, <2>6 DEF RestOwed
  <1> QED BY <1>1, <1>3, <1>4, StackFacts

\* The backend that is destroyed may have a last command: nc's release, and more
\* than that is not owed.
LEMMA LateDestroyed ==
  ASSUME Typed, Typed', Legal, LateInv, stack # <<>>, NEW l \in {"ctrl.create", "ctrl.failed", "exited"},
         Destroyed(l),
         \/ Top.at = "ctrl.connect" /\ l = "ctrl.create"
         \/ Top.at = "ctrl.connected" /\ l = "ctrl.failed"
         \/ Top.at = "exit" /\ l = "exited"
  PROVE  LateInv'
  <1> DEFINE m == IF l = "ctrl.create" THEN 1 ELSE 0
  <1>1. PICK w : Chain(w)
    BY DEF LateInv
  <1>2. RestOwed(w)
    BY <1>1, CtrlRest DEF CtrlBody
  <1>3. Here(w[1])
    BY <1>1, FrontDebt DEF Here
  <1>4. Still /\ late' = late
    <2>1. inited' => inited
      BY DEF Destroyed, ReleaseMinitouch
    <2>2. UNCHANGED <<late, need_exit, method>>
      BY DEF Destroyed, ioVars, shotVars, Jump, Call
    <2> QED BY <2>1, <2>2 DEF Still, LateInv
  <1>5. late \in Nat /\ late <= 3 /\ w[1] \in Debts
    BY <1>3 DEF LateInv, Here
  <1>6. late + m <= 3 /\ (object \in AdbFamily => late + (1 + m) <= 3)
    <2>1. CASE Top.at = "ctrl.connect" /\ l = "ctrl.create"
      <3>1. Top.at \notin Choosing
        BY <2>1 DEF Choosing
      <3>2. Most(touch, object, Top, w[1]) = 2
        <4>1. Top.at \in CtrlBody => Most(touch, object, Top, w[1]) = MostOfCtrl(object, Top)
          BY FamilyMost
        <4> QED BY <2>1, <4>1 DEF MostOfCtrl, CtrlBody
      <3>3. late + Most(touch, object, Top, w[1]) <= 3
        BY <1>3, <3>1, HereFacts
      <3> QED BY <1>5, <2>1, <3>2, <3>3
    <2>2. CASE Top.at = "ctrl.connected" /\ l = "ctrl.failed"
      <3>1. late + Due(touch, object, Top, w[1], result) <= 3
        BY <1>3 DEF Here
      <3>2. object \in AdbFamily => Due(touch, object, Top, w[1], result) \in {1, 3}
        <4>1. Top.at \in CtrlBody => Most(touch, object, Top, w[1]) = MostOfCtrl(object, Top)
          BY FamilyMost
        <4>2. object \in AdbFamily => Most(touch, object, Top, w[1]) = 3
          BY <2>2, <4>1 DEF MostOfCtrl, CtrlBody
        <4>3. object \in AdbFamily => Least(touch, object, Top, w[1]) = 1
          BY <2>2 DEF Least
        <4> QED BY <4>2, <4>3 DEF Due
      <3>3. m = 0
        BY <2>2
      <3>4. object \in AdbFamily => late + 1 <= 3
        <4> HAVE object \in AdbFamily
        <4>1. CASE Due(touch, object, Top, w[1], result) = 1
          BY <3>1, <4>1
        <4>2. CASE Due(touch, object, Top, w[1], result) = 3
          BY <1>5, <3>1, <4>2
        <4> QED BY <3>2, <4>1, <4>2
      <3> QED BY <1>5, <3>3, <3>4
    <2>3. CASE Top.at = "exit" /\ l = "exited"
      <3>1. Top.at \notin Choosing
        BY <2>3 DEF Choosing
      <3>2. Most(touch, object, Top, w[1]) = 1
        <4>1. Top.at \in ClientBody => Most(touch, object, Top, w[1]) = MostOfClient(Top)
          BY FamilyMost
        <4> QED BY <2>3, <4>1 DEF MostOfClient, ClientBody
      <3>3. late + Most(touch, object, Top, w[1]) <= 3
        BY <1>3, <3>1, HereFacts
      <3> QED BY <1>5, <2>3, <3>2, <3>3
    <2> QED BY <2>1, <2>2, <2>3
  <1>7. ASSUME NEW f \in Frames, f.at = l
        PROVE  /\ Room(touch', inited', f, w[1]) /\ Most(touch', object', f, w[1]) = m
               /\ f.at \notin Choosing
    <2>1. CASE l \in {"ctrl.create", "ctrl.failed"}
      <3>1. f.at \in CtrlBody
        BY <1>7, <2>1 DEF CtrlBody
      <3>2. w[1].most = 0
        <4>1. Top.at \in CtrlBody
          BY <2>1 DEF CtrlBody
        <4>2. Room(touch, inited, Top, w[1])
          BY <1>3 DEF Here
        <4> QED BY <4>1, <4>2 DEF Room
      <3>3. Room(touch', inited', f, w[1])
        BY <3>1, <3>2, CtrlTable
      <3>4. Most(touch', object', f, w[1]) = MostOfCtrl(object', f)
        BY <3>1, FamilyMost
      <3>5. MostOfCtrl(object', f) = m
        BY <1>7, <2>1 DEF MostOfCtrl
      <3> QED BY <1>7, <2>1, <3>3, <3>4, <3>5 DEF Choosing
    <2>2. CASE l = "exited"
      <3>1. f.at = "exited" => Room(touch', inited', f, w[1])
        BY CtrlTable
      <3>2. f.at \in ClientBody => Most(touch', object', f, w[1]) = MostOfClient(f)
        BY FamilyMost
      <3>3. MostOfClient(f) = 0 /\ f.at \in ClientBody /\ f.at \notin Choosing
        BY <1>7, <2>2 DEF MostOfClient, ClientBody, Choosing
      <3> QED BY <1>7, <2>2, <3>1, <3>2, <3>3
    <2> QED BY <2>1, <2>2
  <1>8. l \in Labels /\ l \in Waits
    BY DEF Labels, CtrlBody, ClientBody, Waits
  <1> HIDE DEF m
  <1>9. CASE Jump(l)
    <2>1. \E v : Chain(v)'
      BY <1>1, <1>2, <1>4, <1>6, <1>7, <1>8, <1>9, JumpLate
    <2> QED BY <1>4, <2>1, LateSame
  <1>10. CASE object \in AdbFamily /\ Call(Frame("release", "", FALSE), l)
    <2> DEFINE g == Frame("release", "", FALSE)
    <2>1. g.at = "release"
      BY DEF Frame
    <2>2. Call(g, l)
      BY <1>10
    <2> HIDE DEF g
    <2>3. ASSUME NEW f \in Frames, f.at = l
          PROVE  LET d == Debt(touch', object', f, w[1])
                 IN  /\ Room(touch', inited', f, w[1])
                     /\ Room(touch', inited', g, d)
                     /\ late' + Most(touch', object', g, d) <= 3
      <3> DEFINE e == Debt(touch', object', f, w[1])
      <3>1. Room(touch', inited', f, w[1]) /\ e.most = m
        BY <1>7, <2>3, DebtOf
      <3> HIDE DEF e
      <3>2. Room(touch', inited', g, e)
        BY <2>1, CallTable
      <3>3. Most(touch', object', g, e) = 1 + e.most
        BY <2>1, <3>2, CallTable
      <3>4. late' + Most(touch', object', g, e) <= 3
        BY <1>4, <1>6, <1>10, <3>1, <3>3
      <3> QED BY <3>1, <3>2, <3>4 DEF e
    <2>4. \E v : Chain(v)'
      BY <1>1, <1>2, <1>8, <2>2, <2>3, CallLate
    <2> QED BY <1>4, <2>4, LateSame
  <1> QED BY <1>9, <1>10 DEF Destroyed

LEMMA LateCreated ==
  ASSUME Typed, Typed', Legal, LateInv, CtrlCreate
  PROVE  LateInv'
  <1>1. stack # <<>> /\ Top.at = "ctrl.create" /\ Top.at \in CtrlBody /\ Top.at \notin Choosing
    BY DEF CtrlCreate, At, CtrlBody, Choosing
  <1>2. ASSUME NEW d, Here(d) PROVE late \in Nat /\ late + 1 <= 3 /\ d.most = 0 /\ d.least = 0
    <2>1. Top.at \in CtrlBody => Most(touch, object, Top, d) = MostOfCtrl(object, Top)
      BY FamilyMost
    <2>2. late + Most(touch, object, Top, d) <= 3
      BY <1>1, <1>2, HereFacts
    <2>3. MostOfCtrl(object, Top) = 1
      BY <1>1 DEF MostOfCtrl
    <2>4. d.most = 0
      BY <1>1, <1>2 DEF Here, Room
    <2>5. d.least \in Nat /\ d.least <= d.most
      BY <1>1, <1>2, HereFacts
    <2> QED BY <1>1, <2>1, <2>2, <2>3, <2>4, <2>5 DEF LateInv
  <1>3. CASE Return("no") /\ UNCHANGED <<others, object>>
    <2>1. Settled
      BY <1>3 DEF others, ioVars, adbVars, shotVars, touchVars, Return, Settled, Still, LateInv
    <2>2. \A d : Here(d) => late + d.least <= 3 /\ late + d.most <= 3
      BY <1>2
    <2> QED BY <1>1, <1>3, <2>1, <2>2, HereReturn
  <1>4. CASE ~(Return("no") /\ UNCHANGED <<others, object>>)
    <2> DEFINE t == Top.cmd
    <2>1. Construct(t) /\ object' = t
      BY <1>4 DEF CtrlCreate
    <2>2. ~inited' /\ late' = late
      BY <2>1 DEF Construct, NewAdb, NewPlatform
    <2>3. PICK e \in {"touch.connect", "adb.connect", "play.connect", "unit.connect"} :
            /\ Call(Frame(e, "", FALSE), "ctrl.connected")
            /\ object' \in AdbFamily <=> e \in {"touch.connect", "adb.connect"}
      <3> DEFINE label == CASE t \in {"Minitouch", "Maatouch"} -> "touch.connect"
                            [] t = "Adb" -> "adb.connect"
                            [] t = "MacPlayTools" -> "play.connect"
                            [] OTHER -> "unit.connect"
      <3>1. Call(Frame(label, "", FALSE), "ctrl.connected")
        BY <1>4 DEF CtrlCreate
      <3>2. label \in {"touch.connect", "adb.connect", "play.connect", "unit.connect"}
            /\ (t \in AdbFamily <=> label \in {"touch.connect", "adb.connect"})
        <4>1. CASE t \in {"Minitouch", "Maatouch"}
          BY <4>1 DEF AdbFamily
        <4>2. CASE t = "Adb"
          BY <4>2 DEF AdbFamily
        <4>3. CASE t = "MacPlayTools"
          BY <4>3 DEF AdbFamily
        <4>4. CASE t \notin {"Minitouch", "Maatouch", "Adb", "MacPlayTools"}
          BY <4>4 DEF AdbFamily
        <4> QED BY <4>1, <4>2, <4>3, <4>4
      <3> HIDE DEF label
      <3> QED BY <2>1, <3>1, <3>2
    <2> DEFINE g == Frame(e, "", FALSE)
    <2>4. g.at = e /\ g.n = 1
      BY DEF Frame
    <2>5. Call(g, "ctrl.connected")
      BY <2>3
    <2> HIDE DEF g
    <2>6. need_exit' = need_exit
      BY <2>5 DEF Call
    <2>7. Still
      BY <2>2, <2>6 DEF Still
    <2>8. PICK w : Chain(w)
      BY DEF LateInv
    <2>9. RestOwed(w) /\ Here(w[1])
      BY <1>1, <2>8, CtrlRest, FrontDebt DEF Here
    <2>10. late \in Nat /\ late + 1 <= 3 /\ w[1].most = 0
      BY <1>2, <2>9
    <2>11. ASSUME NEW f \in Frames, f.at = "ctrl.connected"
           PROVE  LET d == Debt(touch', object', f, w[1])
                  IN  /\ Room(touch', inited', f, w[1])
                      /\ Room(touch', inited', g, d)
                      /\ late' + Most(touch', object', g, d) <= 3
      <3>1. f.at \in CtrlBody
        BY <2>11 DEF CtrlBody
      <3>2. Room(touch', inited', f, w[1])
        BY <2>10, <3>1, CtrlTable
      <3> DEFINE d == Debt(touch', object', f, w[1])
      <3>3. d.least = IF object' \in AdbFamily THEN 1 ELSE 0
        <4>1. Least(touch', object', f, w[1]) = IF object' \in AdbFamily THEN 1 ELSE 0
          BY <2>11 DEF Least
        <4> QED BY <4>1, DebtOf
      <3>4. object' \notin AdbFamily => d.most = 0
        <4>1. Most(touch', object', f, w[1]) = MostOfCtrl(object', f)
          BY <3>1, FamilyMost
        <4>2. object' \notin AdbFamily => MostOfCtrl(object', f) = 0
          BY <2>11 DEF MostOfCtrl
        <4> QED BY <4>1, <4>2, DebtOf
      <3> HIDE DEF d
      <3>5. CASE e = "touch.connect"
        <4>1. d.least = 1
          BY <2>3, <3>3, <3>5
        <4>2. Room(touch', inited', g, d)
          BY <2>2, <2>4, <3>5, <4>1, TouchTable
        <4>3. Most(touch', object', g, d) = d.least
          BY <2>4, <3>5, <4>2, TouchTable
        <4> QED BY <2>2, <2>10, <3>2, <4>1, <4>2, <4>3 DEF d
      <3>6. CASE e = "adb.connect"
        <4>1. d.least = 1
          BY <2>3, <3>3, <3>6
        <4>2. Room(touch', inited', g, d)
          BY <2>4, <3>6, <4>1, LinkTable
        <4>3. Most(touch', object', g, d) = d.least
          BY <2>4, <3>6, <4>2, LinkTable
        <4> QED BY <2>2, <2>10, <3>2, <4>1, <4>2, <4>3 DEF d
      <3>7. CASE e \in {"play.connect", "unit.connect"}
        <4>1. d.most = 0
          BY <2>3, <3>4, <3>7
        <4>2. g.at \in FlatBody
          BY <2>4, <3>7 DEF FlatBody, OpenBody, UnitCalls
        <4>3. Room(touch', inited', g, d) /\ Most(touch', object', g, d) = d.most
          BY <4>2, FlatFacts
        <4>4. late' + Most(touch', object', g, d) <= 3
          BY <2>2, <2>10, <4>1, <4>3
        <4> QED BY <3>2, <4>3, <4>4 DEF d
      <3> QED BY <3>5, <3>6, <3>7
    <2>12. "ctrl.connected" \in Labels /\ "ctrl.connected" \in Waits
      BY DEF Labels, CtrlBody, Waits
    <2>13. \E v : Chain(v)'
      BY <1>1, <2>5, <2>8, <2>9, <2>11, <2>12, CallLate
    <2> QED BY <1>1, <2>7, <2>13, LateSame
  <1> QED BY <1>3, <1>4

\* Those that ask a backend for a screenshot.
LEMMA LateLook ==
  ASSUME Typed, Typed', LateInv, Settled, stack # <<>>,
         NEW l \in ShotWaits, NEW again \in BOOLEAN, Call(Shot(again), l),
         \A d, f : Here(d) /\ Moved(f, l, Top.n) =>
           /\ Room(touch, inited, f, d) /\ Most(touch, object, f, d) = 0 /\ late <= 3
           /\ object \in AdbFamily => late = 0
  PROVE  LateInv'
  <1> DEFINE g == Shot(again)
  <1>1. /\ object \in AdbFamily => g.at = "screencap"
        /\ object \notin AdbFamily => g.at \in {"play.shot", "unit.shot"}
    <2>1. CASE object \in AdbFamily
      <3>1. object # "MacPlayTools"
        BY <2>1 DEF AdbFamily
      <3>2. g = Frame("screencap", "", again)
        BY <2>1, <3>1 DEF Shot
      <3>3. Frame("screencap", "", again).at = "screencap"
        BY DEF Frame
      <3>4. g.at = "screencap"
        BY <3>2, <3>3
      <3> QED BY <2>1, <3>4
    <2>2. CASE object = "MacPlayTools"
      <3>1. object \notin AdbFamily
        BY <2>2 DEF AdbFamily
      <3> QED BY <2>2, <3>1 DEF Shot, Frame
    <2>3. CASE object \notin AdbFamily /\ object # "MacPlayTools"
      BY <2>3 DEF Shot, Frame
    <2> QED BY <2>1, <2>2, <2>3
  <1>2. Call(g, l)
    OBVIOUS
  <1> HIDE DEF g
  <1>3. l \in Waits /\ l \notin Choosing
    BY DEF ShotWaits, Waits, Choosing
  <1>4. ASSUME NEW d, NEW f, Here(d), Moved(f, l, Top.n)
        PROVE  Room(touch, inited, f, d) /\ Bears(g, Debt(touch, object, f, d))
    <2>1. /\ Room(touch, inited, f, d) /\ Most(touch, object, f, d) = 0 /\ f.at = l
          /\ late <= 3 /\ (object \in AdbFamily => late = 0) /\ late \in Nat
      BY <1>4 DEF Moved, LateInv
    <2> DEFINE e == Debt(touch, object, f, d)
    <2>2. e.most = 0 /\ e.at = l
      BY <2>1, DebtOf
    <2> HIDE DEF e
    <2>3. CASE object \in AdbFamily
      <3>1. Room(touch, inited, g, e)
        BY <1>1, <2>2, <2>3, ShotTable
      <3>2. Most(touch, object, g, e) = 3 + e.most
        BY <1>1, <2>3, <3>1, ShotTable
      <3> QED BY <2>1, <2>2, <2>3, <3>1, <3>2 DEF Bears, e
    <2>4. CASE object \notin AdbFamily
      <3>1. g.at \in FlatBody
        BY <1>1, <2>4 DEF FlatBody, PlayCalls, UnitCalls
      <3>2. Room(touch, inited, g, e) /\ Most(touch, object, g, e) = e.most
        <4>1. Room(touch, inited, g, e)
          BY <3>1, FlatFacts
        <4>2. Most(touch, object, g, e) = e.most
          BY <3>1, FlatMost
        <4> QED BY <4>1, <4>2
      <3>3. late + Most(touch, object, g, e) <= 3
        BY <2>1, <2>2, <3>2
      <3> QED BY <2>1, <3>2, <3>3 DEF Bears, e
    <2> QED BY <2>3, <2>4
  <1> QED BY <1>2, <1>3, <1>4, HereCall

\* get_image is called by nothing else of the controllers.
LEMMA ImageDebt ==
  ASSUME Typed, stack # <<>>, Top.at \in Imaging, NEW d, Here(d)
  PROVE  d.at = "" /\ d.least = 0 /\ d.most = 0
  <1>1. d.at = ""
    BY DEF Here, Room
  <1>2. "" \notin Labels
    BY DEF Labels, IOBody, CallBody, ReleaseBody, CommandBody, ShotBody, LinkBody, HupBody,
           InputBody, GestureBody, InjectBody, TouchBody, OpenBody, CommitBody, PlayBody, PlayCalls,
           UnitBody, UnitCalls, CtrlBody, ClientBody
  <1>3. Len(stack) \in Nat /\ Len(stack) > 0
    BY Popped DEF Typed
  <1>4. ASSUME Len(stack) > 1 PROVE FALSE
    <2>1. d.at = stack[2].at /\ 2 \in 1 .. Len(stack)
      BY <1>3, <1>4 DEF Here
    <2>2. stack[2] \in Frames
      BY <2>1, Popped DEF Typed
    <2>3. stack[2].at \in Labels
      BY <2>2 DEF Frames
    <2> QED BY <1>1, <1>2, <2>1, <2>3
  <1>5. Len(stack) = 1
    <2>1. \A n \in Nat : n > 0 => n = 1 \/ n > 1
      OBVIOUS
    <2> QED BY <1>3, <1>4, <2>1
  <1>6. d = Nothing
    BY <1>5 DEF Here
  <1>7. Nothing.least = 0 /\ Nothing.most = 0
    BY DEF Nothing
  <1> QED BY <1>1, <1>6, <1>7, Zenon

LEMMA LateCtrl == ASSUME Typed, Typed', Legal, LateInv, CtrlStep PROVE LateInv'
  <1>1. ASSUME UNCHANGED <<others, object, need_exit>> PROVE Settled
    BY <1>1 DEF others, ioVars, adbVars, shotVars, touchVars, Settled, Still, LateInv
  <1>2. \A f, d : /\ f.at \in {"ctrl.failed", "ctrl.looked", "ctrl.scale"} =>
                       Most(touch, object, f, d) = 0 /\ (d.most = 0 => Room(touch, inited, f, d))
                  /\ f.at \in Imaging =>
                       Most(touch, object, f, d) = 0 /\ (d.at = "" => Room(touch, inited, f, d))
    <2> TAKE f, d
    <2>1. CASE f.at \in {"ctrl.failed", "ctrl.looked", "ctrl.scale"}
      <3>1. f.at \in CtrlBody /\ f.at \notin Imaging
        BY <2>1 DEF CtrlBody, Imaging
      <3>2. Most(touch, object, f, d) = MostOfCtrl(object, f)
        BY <3>1, FamilyMost
      <3>3. MostOfCtrl(object, f) = 0
        BY <2>1 DEF MostOfCtrl
      <3>4. d.most = 0 => Room(touch, inited, f, d)
        BY <3>1, CtrlTable
      <3> QED BY <3>1, <3>2, <3>3, <3>4
    <2>2. CASE f.at \in Imaging
      <3>1. f.at \in ClientBody /\ f.at \notin {"ctrl.failed", "ctrl.looked", "ctrl.scale"}
            /\ f.at # "exit"
        BY <2>2 DEF ClientBody, Imaging
      <3>2. Most(touch, object, f, d) = MostOfClient(f)
        BY <3>1, FamilyMost
      <3>3. d.at = "" => Room(touch, inited, f, d)
        BY <2>2, CtrlTable
      <3> QED BY <3>1, <3>2, <3>3 DEF MostOfClient
    <2> QED BY <2>1, <2>2
  <1>3. ASSUME stack # <<>>, Top.at \in CtrlBody, NEW d, Here(d)
        PROVE  d.most = 0 /\ d.least = 0 /\ late + d.least <= 3 /\ late + d.most <= 3
    <2>1. d.most = 0
      BY <1>3 DEF Here, Room
    <2>2. d.least \in Nat /\ d.least <= d.most /\ late \in Nat /\ late <= 3
      BY <1>3, HereFacts
    <2> QED BY <2>1, <2>2
  <1>4. ASSUME stack # <<>>, Top.at \in CtrlBody, Settled, NEW v, Return(v) PROVE LateInv'
    BY <1>3, <1>4, HereReturn
  <1>5. ASSUME stack # <<>>, Top.at \in CtrlBody, Settled, Jump("ctrl.scale") PROVE LateInv'
    <2>1. ASSUME NEW d, NEW f, Here(d), Moved(f, "ctrl.scale", Top.n) PROVE Bears(f, d)
      <3>1. d.most = 0 /\ f.at = "ctrl.scale" /\ late \in Nat /\ late <= 3
        BY <1>3, <1>5, <2>1 DEF Moved, LateInv
      <3>2. Most(touch, object, f, d) = 0 /\ Room(touch, inited, f, d)
        BY <1>2, <3>1
      <3> QED BY <3>1, <3>2 DEF Bears
    <2>2. "ctrl.scale" \in Labels
      BY DEF Labels, CtrlBody
    <2> QED BY <1>5, <2>1, <2>2, HereJump
  <1>6. ASSUME stack # <<>>, Top.at \in Imaging, Settled, NEW v, Return(v) PROVE LateInv'
    <2>1. ASSUME NEW d, Here(d) PROVE late + (IF Fails(v) THEN d.least ELSE d.most) <= 3
      <3>1. d.least = 0 /\ d.most = 0 /\ late \in Nat /\ late <= 3
        BY <1>6, <2>1, ImageDebt DEF LateInv
      <3> QED BY <3>1
    <2> QED BY <1>6, <2>1, HereReturn
  <1>7. ASSUME stack # <<>>, Top.at \in Imaging, Settled, ~need_exit,
               NEW l \in {"image.taken", "image.last"}, NEW again \in BOOLEAN, Call(Shot(again), l)
        PROVE  LateInv'
    <2>1. \A d, f : Here(d) /\ Moved(f, l, Top.n) =>
            /\ Room(touch, inited, f, d) /\ Most(touch, object, f, d) = 0 /\ late <= 3
            /\ object \in AdbFamily => late = 0
      <3> SUFFICES ASSUME NEW d, NEW f, Here(d), Moved(f, l, Top.n)
                   PROVE  /\ Room(touch, inited, f, d) /\ Most(touch, object, f, d) = 0 /\ late <= 3
                          /\ object \in AdbFamily => late = 0
        OBVIOUS
      <3>1. d.at = "" /\ f.at \in Imaging
        BY <1>7, ImageDebt DEF Moved, Imaging
      <3>2. Room(touch, inited, f, d) /\ Most(touch, object, f, d) = 0
        BY <1>2, <3>1
      <3> QED BY <1>7, <3>2 DEF LateInv
    <2>2. l \in ShotWaits
      BY DEF ShotWaits
    <2> QED BY <1>7, <2>1, <2>2, LateLook
  <1>8. /\ {"ctrl.connect", "ctrl.create", "ctrl.connected", "ctrl.failed", "ctrl.looked", "ctrl.scale"} = CtrlBody
        /\ {"image", "image.taken", "image.last"} = Imaging
    BY DEF CtrlBody, Imaging
  <1> USE DEF At
  <1>9. CASE CtrlConnect
    BY <1>9, LateDestroyed DEF CtrlConnect
  <1>10. CASE CtrlCreate
    BY <1>10, LateCreated
  <1>11. CASE CtrlConnected
    <2>1. stack # <<>> /\ Top.at = "ctrl.connected" /\ Top.at \in CtrlBody
      BY <1>8, <1>11 DEF CtrlConnected
    <2>2. CASE result # "yes"
      BY <1>11, <2>1, <2>2, LateDestroyed DEF CtrlConnected
    <2>3. CASE result = "yes" /\ Jump("ctrl.scale")
      <3>1. UNCHANGED <<others, object, need_exit>>
        BY <1>11, <2>3 DEF CtrlConnected, Jump
      <3> QED BY <1>1, <1>5, <2>1, <2>3, <3>1
    <2>4. CASE result = "yes" /\ Call(Shot(FALSE), "ctrl.looked")
      <3>1. UNCHANGED <<others, object, need_exit>>
        BY <1>11, <2>4 DEF CtrlConnected, Call
      <3>2. ASSUME NEW d, NEW f, Here(d), Moved(f, "ctrl.looked", Top.n)
            PROVE  /\ Room(touch, inited, f, d) /\ Most(touch, object, f, d) = 0 /\ late <= 3
                   /\ object \in AdbFamily => late = 0
        <4>1. d.most = 0 /\ f.at = "ctrl.looked" /\ late \in Nat /\ late <= 3
          BY <1>3, <2>1, <3>2 DEF Moved, LateInv
        <4>2. Most(touch, object, f, d) = 0 /\ Room(touch, inited, f, d)
          BY <1>2, <4>1
        <4>3. Most(touch, object, Top, d) = MostOfCtrl(object, Top)
          BY <2>1, FamilyMost
        <4>4. late + Most(touch, object, Top, d) <= 3
          <5>1. Top.at \in Choosing /\ ~Fails(result)
            BY <2>1, <2>4 DEF Choosing, Fails
          <5> QED BY <2>1, <3>2, <5>1, HereFacts
        <4>5. object \in AdbFamily => MostOfCtrl(object, Top) = 3
          BY <2>1 DEF MostOfCtrl
        <4>6. object \in AdbFamily => late = 0
          BY <4>1, <4>3, <4>4, <4>5
        <4> QED BY <4>1, <4>2, <4>6
      <3>3. "ctrl.looked" \in ShotWaits
        BY DEF ShotWaits
      <3> QED BY <1>1, <2>1, <2>4, <3>1, <3>2, <3>3, LateLook
    <2> QED BY <1>11, <2>2, <2>3, <2>4 DEF CtrlConnected
  <1>12. CASE CtrlFailed \/ CtrlLooked \/ WindowLooked
    <2>1. stack # <<>> /\ Top.at \in CtrlBody
      BY <1>8, <1>12 DEF CtrlFailed, CtrlLooked, WindowLooked
    <2>2. UNCHANGED <<others, object, need_exit>>
      BY <1>12 DEF CtrlFailed, CtrlLooked, WindowLooked, ctrlVars, Jump, Return
    <2>3. Return("no") \/ Jump("ctrl.scale")
      BY <1>12 DEF CtrlFailed, CtrlLooked, WindowLooked
    <2> QED BY <1>1, <1>4, <1>5, <2>1, <2>2, <2>3
  <1>13. CASE CtrlScale \/ WindowScale
    <2>1. stack # <<>> /\ Top.at \in CtrlBody
      BY <1>8, <1>13 DEF CtrlScale, WindowScale
    <2>2. UNCHANGED <<others, object, need_exit>> /\ \E v : Return(v)
      BY <1>13 DEF CtrlScale, WindowScale, Return
    <2> QED BY <1>1, <1>4, <2>1, <2>2
  <1>14. CASE ImageTry
    <2>1. stack # <<>> /\ Top.at \in Imaging
      BY <1>8, <1>14 DEF ImageTry
    <2>2. UNCHANGED <<others, object, need_exit>>
      BY <1>14 DEF ImageTry, ctrlVars, Call, Return
    <2>3. \/ Return("void")
          \/ ~need_exit /\ Call(Shot(FALSE), "image.taken")
          \/ ~need_exit /\ Call(Shot(TRUE), "image.last")
      BY <1>14 DEF ImageTry
    <2> QED BY <1>1, <1>6, <1>7, <2>1, <2>2, <2>3
  <1>15. CASE ImageTaken
    <2>1. stack # <<>> /\ Top.at \in Imaging
      BY <1>8, <1>15 DEF ImageTaken
    <2>2. UNCHANGED <<others, object, need_exit>>
      BY <1>15 DEF ImageTaken, ctrlVars, Again, Return
    <2>3. CASE Again("image")
      <3>1. ASSUME NEW d, NEW f, Here(d), Moved(f, "image", Top.n + 1) PROVE Bears(f, d)
        <4>1. d.at = "" /\ f.at \in Imaging
          BY <2>1, <3>1, ImageDebt DEF Moved, Imaging
        <4>2. Room(touch, inited, f, d) /\ Most(touch, object, f, d) = 0
          BY <1>2, <4>1
        <4>3. late + Most(touch, object, f, d) <= 3
          BY <4>2 DEF LateInv
        <4> QED BY <4>2, <4>3 DEF Bears
      <3>2. "image" \in Labels /\ "image" \notin Choosing
        BY DEF Labels, ClientBody, Choosing
      <3> QED BY <1>1, <2>1, <2>2, <2>3, <3>1, <3>2, HereAgain
    <2> QED BY <1>1, <1>6, <1>15, <2>1, <2>2, <2>3 DEF ImageTaken
  <1>16. CASE ImageLast
    <2>1. stack # <<>> /\ Top.at \in Imaging
      BY <1>8, <1>16 DEF ImageLast
    <2>2. UNCHANGED <<others, object, need_exit>> /\ Return("void")
      BY <1>16 DEF ImageLast, ctrlVars, Return
    <2> QED BY <1>1, <1>6, <2>1, <2>2
  <1>17. CASE Connected \/ Exited
    <2>1. stack' = <<>> /\ UNCHANGED <<late, inited, method>>
      BY <1>17 DEF Connected, Exited, others, ioVars, adbVars, shotVars
    <2> QED BY <2>1, LateEmpty DEF LateInv
  <1>18. CASE ExitDestroy
    BY <1>18, LateDestroyed DEF ExitDestroy
  <1> QED BY <1>9, <1>10, <1>11, <1>12, <1>13, <1>14, <1>15, <1>16, <1>17, <1>18 DEF CtrlStep

-----------------------------------------------------------------------------
(* The callers: a call that is begun owes nothing to anybody.                      *)

Begins ==
  {"command", "gesture", "inject", "play.gesture", "play.command", "unit.gesture", "unit.inject",
   "unit.command", "image", "exit"}

LEMMA NothingOwes == Nothing.least = 0 /\ Nothing.most = 0
  BY DEF Nothing

LEMMA NothingAt == Nothing.at = ""
  BY DEF Nothing

LEMMA NothingDebt == Nothing \in Debts
  <1>1. 0 \in Nat /\ 0 <= 0 /\ 0 <= 3
    OBVIOUS
  <1>2. "" \in Labels \cup {""}
    OBVIOUS
  <1>3. [least |-> 0, most |-> 0, at |-> ""] \in Debts
    BY <1>1, <1>2, DebtMade
  <1> QED BY <1>3 DEF Nothing

LEMMA OnlyOne ==
  ASSUME NEW S, NEW x \in S
  PROVE  <<x>> \in Seq(S) /\ Len(<<x>>) = 1 /\ <<x>>[1] = x /\ <<x>> # <<>>
  OBVIOUS

LEMMA OnlyTwo ==
  ASSUME NEW S, NEW x \in S, NEW y \in S
  PROVE  /\ <<x, y>> \in Seq(S) /\ Len(<<x, y>>) = 2 /\ <<x, y>>[1] = x /\ <<x, y>>[2] = y
         /\ <<x, y>> # <<>>
  OBVIOUS

LEMMA BeginsFree ==
  ASSUME NEW t, NEW o, NEW e, NEW f \in Frames, f.at \in Begins
  PROVE  /\ Room(t, e, f, Nothing) /\ f.at \notin Choosing
         /\ Most(t, o, f, Nothing) \in 0 .. 2
  <1>1. f.at \notin Choosing
    BY DEF Begins, Choosing
  <1>2. CASE f.at = "command"
    <2>1. /\ f.at \notin Retrying \cup LinkBody \cup TouchBody \cup Imaging
          /\ f.at \notin {"screencap", "probe", "probe.done"}
      BY <1>2 DEF Retrying, LinkBody, TouchBody, Imaging
    <2>2. Room(t, e, f, Nothing)
      BY <1>2, <2>1, NothingOwes DEF Room, Able
    <2>3. Most(t, o, f, Nothing) = MostOfCommand(f, Nothing)
      BY <1>2, FamilyMost DEF CommandBody
    <2>4. MostOfCommand(f, Nothing) = IF f.flag THEN 2 + Nothing.least ELSE 1 + Nothing.least
      BY <1>2 DEF MostOfCommand
    <2>5. f.flag \in BOOLEAN
      BY DEF Frames
    <2>6. MostOfCommand(f, Nothing) \in 0 .. 2
      BY <2>4, <2>5, NothingOwes
    <2> QED BY <1>1, <2>2, <2>3, <2>6
  <1>3. CASE f.at \in {"gesture", "inject"}
    <2>1. CASE f.at = "gesture"
      <3>1. f.at \in GestureBody
        BY <2>1 DEF GestureBody
      <3>2. Room(t, e, f, Nothing)
        BY <3>1, TouchTable
      <3>3. Most(t, o, f, Nothing) = MostOfGesture(t, f)
        BY <3>1, <3>2, TouchTable
      <3>4. MostOfGesture(t, f) \in 0 .. 2
        BY DEF MostOfGesture
      <3> QED BY <1>1, <3>2, <3>3, <3>4
    <2>2. CASE f.at = "inject"
      <3>1. f.at \in InjectBody
        BY <2>2 DEF InjectBody
      <3>2. Room(t, e, f, Nothing)
        BY <3>1, TouchTable
      <3>3. Most(t, o, f, Nothing) = Nothing.most
        BY <3>1, <3>2, TouchTable
      <3>4. Nothing.most \in 0 .. 2
        BY NothingOwes
      <3> QED BY <1>1, <3>2, <3>3, <3>4
    <2> QED BY <1>3, <2>1, <2>2
  <1>4. CASE f.at \in {"image", "exit"}
    <2>1. 0 \in 0 .. 2 /\ 1 \in 0 .. 2
      OBVIOUS
    <2>2. CASE f.at = "image"
      <3>1. f.at \in Imaging
        BY <2>2 DEF Imaging
      <3>2. Room(t, e, f, Nothing)
        BY <3>1, NothingAt, CtrlTable
      <3>3. Most(t, o, f, Nothing) = 0
        BY <3>1, <3>2, CtrlTable
      <3> QED BY <1>1, <2>1, <3>2, <3>3
    <2>3. CASE f.at = "exit"
      <3>1. Room(t, e, f, Nothing)
        BY <2>3, CtrlTable
      <3>2. Most(t, o, f, Nothing) = MostOfClient(f)
        BY <2>3, <3>1, CtrlTable
      <3>3. MostOfClient(f) = 1
        BY <2>3 DEF MostOfClient
      <3> QED BY <1>1, <2>1, <3>1, <3>2, <3>3
    <2> QED BY <1>4, <2>2, <2>3
  <1>5. CASE f.at \in {"play.gesture", "play.command", "unit.gesture", "unit.inject", "unit.command"}
    <2>1. f.at \in FlatBody
      BY <1>5 DEF FlatBody, PlayBody, PlayCalls, UnitBody, UnitCalls
    <2>2. Room(t, e, f, Nothing)
      BY <2>1, FlatFacts
    <2>3. \A t1, o1, d : Most(t1, o1, f, d) = d.most
      BY <2>1, FlatFacts
    <2>4. Nothing.most \in 0 .. 2
      BY NothingOwes
    <2> QED BY <1>1, <2>2, <2>3, <2>4
  <1> QED BY <1>2, <1>3, <1>4, <1>5 DEF Begins

\* A caller begins, when nothing else is in progress.
LEMMA LateBegun ==
  ASSUME Typed', late' = 0, inited' => method' # "UnknownYet", NEW f, stack' = <<f>>, f.at \in Begins
  PROVE  LateInv'
  <1> DEFINE w == <<Nothing>>
  <1>1. w \in Seq(Debts) /\ Len(w) = 1 /\ w[1] = Nothing
    BY NothingDebt, OnlyOne
  <1> HIDE DEF w
  <1>2. Len(stack') = 1 /\ stack'[1] = f /\ Top' = f /\ stack' # <<>> /\ f \in Frames
    <2>1. Len(stack') = 1 /\ stack'[1] = f /\ Top' = f /\ stack' # <<>>
      BY DEF Top
    <2>2. stack'[1] \in Frames
      BY <2>1, Popped DEF Typed
    <2> QED BY <2>1, <2>2
  <1>3. (\A i : i \notin 1 .. 1 - 1) /\ (\A i \in 1 .. 1 : i = 1)
    OBVIOUS
  <1>4. /\ Room(touch', inited', f, Nothing) /\ f.at \notin Choosing
        /\ Most(touch', object', f, Nothing) \in 0 .. 2
    BY <1>2, BeginsFree
  <1>5. Due(touch', object', f, Nothing, result') = Most(touch', object', f, Nothing)
    BY <1>4, NowAfter
  <1>6. late' + Due(touch', object', f, Nothing, result') <= 3
    BY <1>4, <1>5
  <1>7. Chain(w)'
    BY <1>1, <1>2, <1>3, <1>4, <1>6 DEF Chain
  <1>8. \E u : Chain(u)'
    BY <1>7
  <1> QED BY <1>8 DEF LateInv

\* A connect begins.
LEMMA LateConnecting ==
  ASSUME Typed', inited' => method' # "UnknownYet", NEW t, NEW attach, Connecting(t, attach)
  PROVE  LateInv'
  <1> DEFINE f == Frame("ctrl.connect", t, attach)
             g == Frame("connected", "", FALSE)
  <1>0. PICK d : d = Debt(touch', object', g, Nothing)
    OBVIOUS
  <1>1. f.at = "ctrl.connect" /\ g.at = "connected"
    BY DEF Frame
  <1>2. stack' = <<f, g>> /\ late' = 0
    BY DEF Connecting
  <1> HIDE DEF f, g
  <1>3. /\ Len(stack') = 2 /\ stack'[1] = f /\ stack'[2] = g /\ Top' = f /\ stack' # <<>>
        /\ f \in Frames /\ g \in Frames
    <2>1. (\A i \in 1 .. Len(stack') : stack'[i] \in Frames) /\ 1 \in 1 .. 2 /\ 2 \in 1 .. 2
      BY DEF Typed
    <2>2. Len(stack') = 2 /\ stack'[1] = f /\ stack'[2] = g /\ Top' = f /\ stack' # <<>>
      BY <1>2 DEF Top
    <2>3. stack'[1] \in Frames /\ stack'[2] \in Frames
      BY <2>1, <2>2
    <2> QED BY <2>2, <2>3
  <1>4. Room(touch', inited', g, Nothing) /\ Most(touch', object', g, Nothing) = MostOfClient(g)
    <2>1. Room(touch', inited', g, Nothing)
      BY <1>1, CtrlTable
    <2>2. Most(touch', object', g, Nothing) = MostOfClient(g)
      <3>1. g.at \in ClientBody
        BY <1>1 DEF ClientBody
      <3> QED BY <3>1, FamilyMost
    <2> QED BY <2>1, <2>2
  <1>5. MostOfClient(g) = 0
    BY <1>1 DEF MostOfClient
  <1>6. d \in Debts /\ d.most = 0
    <2>1. g.at \in Waits
      BY <1>1 DEF Waits
    <2>2. d \in Debts
      BY <1>0, <1>3, <1>4, <2>1, NothingDebt, DebtFits
    <2>3. d.most = Most(touch', object', g, Nothing)
      BY <1>0, DebtOf
    <2> QED BY <1>4, <1>5, <2>2, <2>3
  <1>7. f.at \in CtrlBody /\ f.at \notin Choosing
    BY <1>1 DEF CtrlBody, Choosing
  <1>8. Room(touch', inited', f, d)
    BY <1>6, <1>7, CtrlTable
  <1>9. Due(touch', object', f, d, result') = Most(touch', object', f, d)
    BY <1>7, NowAfter
  <1>10. Most(touch', object', f, d) = MostOfCtrl(object', f)
    BY <1>7, <1>8, CtrlTable
  <1>11. MostOfCtrl(object', f) = 2
    BY <1>1 DEF MostOfCtrl
  <1>12. late' + Due(touch', object', f, d, result') <= 3
    BY <1>2, <1>9, <1>10, <1>11
  <1> DEFINE w == <<d, Nothing>>
  <1>13. w \in Seq(Debts) /\ Len(w) = 2 /\ w[1] = d /\ w[2] = Nothing
    BY <1>6, NothingDebt, OnlyTwo
  <1> HIDE DEF w
  <1>14. (\A i \in 1 .. 2 - 1 : i = 1) /\ (\A i \in 1 .. 2 : i = 1 \/ i = 2) /\ 1 + 1 = 2
    OBVIOUS
  <1>15. \A i \in 1 .. Len(stack') - 1 : w[i] = Debt(touch', object', stack'[i + 1], w[i + 1])
    <2>1. w[1] = Debt(touch', object', stack'[2], w[2])
      BY <1>0, <1>3, <1>13
    <2> QED BY <1>3, <1>14, <2>1
  <1>16. \A i \in 1 .. Len(stack') : Room(touch', inited', stack'[i], w[i])
    BY <1>3, <1>4, <1>8, <1>13, <1>14
  <1>17. Chain(w)'
    BY <1>3, <1>12, <1>13, <1>15, <1>16 DEF Chain
  <1>18. \E u : Chain(u)'
    BY <1>17
  <1> QED BY <1>2, <1>18 DEF LateInv

\* A stop, and nothing at all.
LEMMA StayedLate ==
  ASSUME LateInv, UNCHANGED <<stack, result, late, touch, object, inited, method>>,
         need_exit' = need_exit \/ need_exit'
  PROVE  LateInv'
  <1>1. PICK w : Chain(w)
    BY DEF LateInv
  <1>2. Top' = Top
    BY DEF Top
  <1>3. Chain(w)'
    BY <1>1, <1>2 DEF Chain
  <1>4. \E u : Chain(u)'
    BY <1>3
  <1> QED BY <1>4 DEF LateInv

LEMMA LateClient == ASSUME LateInv, Typed', Client PROVE LateInv'
  <1>1. ASSUME NEW f, Begin(f), f.at \in Begins PROVE LateInv'
    <2>1. stack' = <<f>> /\ late' = 0 /\ (inited' => method' # "UnknownYet")
      BY <1>1 DEF Begin, adbVars, shotVars, linkVars, LateInv
    <2> QED BY <1>1, <2>1, LateBegun
  <1>2. ASSUME NEW t, NEW attach, Connecting(t, attach) PROVE LateInv'
    <2>1. inited' => method' # "UnknownYet"
      BY <1>2 DEF Connecting, adbVars, shotVars, linkVars, LateInv
    <2> QED BY <1>2, <2>1, LateConnecting
  <1>3. \A l, c, b : Frame(l, c, b).at = l
    BY DEF Frame
  <1>4. \A l \in {"command", "gesture", "inject", "play.gesture", "play.command", "unit.gesture",
                  "unit.inject", "unit.command", "image", "exit"} : l \in Begins
    BY DEF Begins
  <1>5. CASE Touch
    <2>1. PICK g \in {"click", "swipe", "extra", "pause", "late"} :
            IF proxy THEN Begin(Touching(g))
            ELSE UNCHANGED <<callVars, ioVars, adbVars>>
      BY <1>5 DEF Touch
    <2>2. CASE proxy
      <3>1. Touching(g).at \in {"command", "gesture", "play.gesture", "unit.gesture"}
        <4>1. CASE object = "Adb"
          BY <4>1 DEF Touching, AdbCommand, Frame
        <4>2. CASE object \in {"Minitouch", "Maatouch"}
          BY <4>2 DEF Touching, Gesture, Frame
        <4>3. CASE object = "MacPlayTools"
          BY <4>3 DEF Touching, Frame
        <4>4. CASE object \notin {"Adb", "Minitouch", "Maatouch", "MacPlayTools"}
          BY <4>4 DEF Touching, Frame
        <4> QED BY <4>1, <4>2, <4>3, <4>4
      <3> QED BY <1>1, <1>4, <2>1, <2>2, <3>1
    <2>3. CASE ~proxy
      <3>1. stack' = <<>> /\ UNCHANGED <<late, inited, method>>
        BY <1>5, <2>1, <2>3 DEF Touch, Quiet, callVars, ioVars, adbVars, shotVars, linkVars
      <3> QED BY <3>1, LateEmpty DEF LateInv
    <2> QED BY <2>2, <2>3
  <1>6. CASE Inject
    <2>1. PICK c \in {"down", "up", "wait"} : Begin(Event(c))
      BY <1>6 DEF Inject
    <2>2. Event(c).at \in {"play.command", "inject", "unit.inject"}
      <3>1. CASE object = "Adb" \/ object = "MacPlayTools"
        BY <3>1 DEF Event, Frame
      <3>2. CASE object \in {"Minitouch", "Maatouch"}
        BY <3>2 DEF Event, InputEvent, Frame
      <3>3. CASE object \notin {"Adb", "MacPlayTools", "Minitouch", "Maatouch"}
        BY <3>3 DEF Event, Frame
      <3> QED BY <3>1, <3>2, <3>3
    <2> QED BY <1>1, <1>4, <2>1, <2>2
  <1>7. CASE Order
    <2>1. PICK c \in {"press_esc", "start_game", "stop_game", "input"} : Begin(Commanding(c))
      BY <1>7 DEF Order
    <2>2. Commanding(c).at \in {"command", "play.command", "unit.command"}
      <3>1. CASE object \in AdbFamily
        BY <3>1 DEF Commanding, AdbCommand, Frame
      <3>2. CASE object = "MacPlayTools"
        <4>1. object \notin AdbFamily
          BY <3>2 DEF AdbFamily
        <4> QED BY <3>2, <4>1 DEF Commanding, Frame
      <3>3. CASE object \notin AdbFamily /\ object # "MacPlayTools"
        BY <3>3 DEF Commanding, Frame
      <3> QED BY <3>1, <3>2, <3>3
    <2> QED BY <1>1, <1>4, <2>1, <2>2
  <1>8. CASE GetImage \/ Exit
    <2>1. PICK l \in {"image", "exit"} : Begin(Frame(l, "", FALSE))
      BY <1>8 DEF GetImage, Exit
    <2>2. Frame(l, "", FALSE).at \in Begins
      BY <1>3, <1>4
    <2> QED BY <1>1, <2>1, <2>2
  <1>9. CASE Connect \/ AttachWindow
    BY <1>2, <1>9 DEF Connect, AttachWindow
  <1>10. CASE Start
    <2>1. stack' = <<>> /\ UNCHANGED <<late, inited, method>>
      BY <1>10 DEF Start, Quiet, callVars, others, ioVars, adbVars, shotVars, linkVars
    <2> QED BY <2>1, LateEmpty DEF LateInv
  <1>11. CASE Park
    <2>1. stack' = <<>> /\ UNCHANGED <<late, inited, method>>
      BY <1>11 DEF Park, Quiet, others, ioVars, adbVars, shotVars, linkVars
    <2> QED BY <2>1, LateEmpty DEF LateInv
  <1> QED BY <1>5, <1>6, <1>7, <1>8, <1>9, <1>10, <1>11 DEF Client

-----------------------------------------------------------------------------

LEMMA LateInvInit == Init => LateInv
  <1> SUFFICES ASSUME Init PROVE LateInv
    OBVIOUS
  <1>1. stack = <<>> /\ late = 0 /\ ~inited
    BY DEF Init
  <1>2. Chain(<<>>)
    <2>1. <<>> \in Seq(Debts) /\ Len(<<>>) = 0 /\ (\A i : i \notin 1 .. 0) /\ (\A i : i \notin 1 .. 0 - 1)
      OBVIOUS
    <2> QED BY <1>1, <2>1 DEF Chain
  <1>3. \E w : Chain(w)
    BY <1>2
  <1> QED BY <1>1, <1>3 DEF LateInv

LEMMA LateInvStep == CallsInv /\ CallsInv' /\ LateInv /\ [Next]_vars => LateInv'
  <1> SUFFICES ASSUME CallsInv, CallsInv', LateInv, [Next]_vars PROVE LateInv'
    OBVIOUS
  <1>1. Typed /\ Legal /\ Typed'
    BY DEF CallsInv
  <1>2. CASE IO
    BY <1>1, <1>2, LateIO
  <1>3. CASE Adb
    BY <1>1, <1>3, LateAdb
  <1>4. CASE TouchTool
    BY <1>1, <1>4, LateTouchTool
  <1>5. CASE Play
    BY <1>1, <1>5, LatePlay
  <1>6. CASE Unit
    BY <1>1, <1>6, LateUnit
  <1>7. CASE CtrlStep
    BY <1>1, <1>7, LateCtrl
  <1>8. CASE Client
    BY <1>1, <1>8, LateClient
  <1>9. CASE Stop
    BY <1>9, StayedLate DEF Stop, others, ctrlVars, ioVars, adbVars, shotVars, linkVars, touchVars
  <1>10. CASE UNCHANGED vars
    BY <1>10, StayedLate DEF vars, callVars, ctrlVars, ioVars, adbVars, shotVars, linkVars, touchVars
  <1> QED BY <1>2, <1>3, <1>4, <1>5, <1>6, <1>7, <1>8, <1>9, <1>10 DEF Next, Step, Ended

\* Once a chain has been stopped, the call in progress begins at most three commands
\* more on the device, however deep its calls nest and whatever the device answers: the
\* retries of the reconnect look at need_exit before each attempt, and the screenshots
\* and gestures that a failure ends do not go on (AdbController.cpp, call_command and
\* reconnect; Controller.cpp, get_image).  A connect is not stopped at all: need_exit is
\* false while the working thread is parked (Assistant.h:130).
THEOREM StopAlwaysHeeded == ASSUME MaxLate >= 4 PROVE Spec => [](StopHeeded /\ late <= 3)
  <1>1. Init => LateInv
    BY LateInvInit
  <1>2. CallsInv /\ CallsInv' /\ LateInv /\ [Next]_vars => LateInv'
    BY LateInvStep
  <1>3. LateInv => StopHeeded /\ late <= 3
    BY LateAssumption DEF LateInv, StopHeeded
  <1> QED BY <1>1, <1>2, <1>3, CallsAlwaysLegal, PTL DEF Spec
=============================================================================
