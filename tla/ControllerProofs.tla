-------------------------- MODULE ControllerProofs --------------------------
(* What holds of the controllers for any device, any configuration and any bound   *)
(* on what is counted: how the calls in progress may stand on one another, what    *)
(* a finger and the toucher have to do with where a gesture stands, and why a       *)
(* controller that is said to work and fetches its screenshots by nc has the        *)
(* socket they come by.                                                             *)
EXTENDS Controller, FiniteSetTheorems, SequenceTheorems, TLAPS

\* The places in each function, by their labels.
IOBody == {"io", "io.native", "lite.request", "posix.socket", "posix.drain", "win32.wait"}
CallBody ==
  {"call", "call.done", "reconnect", "reconnect.slept", "reconnect.connected",
   "reconnect.recalled", "reconnect.ok", "reconnect.hup", "reconnect.fail", "reconnect.failed"}
ReleaseBody == {"release", "release.done"}
CommandBody == {"command", "command.done"}
ShotBody == {"screencap", "probe", "probe.done", "capture", "capture.decode"}
LinkBody ==
  {"adb.connect", "connect.listed", "connect.connected", "connect.query", "connect.answer",
   "connect.server", "connect.extras", "connect.end"}
HupBody == {"hup", "hup.read", "hup.reading", "hup.props"}
InputBody == {"input", "input.rewrite"}
GestureBody == {"gesture", "gesture.started", "gesture.next", "gesture.sent"}
InjectBody == {"inject", "inject.started"}
TouchBody ==
  {"touch.connect", "touch.connected", "touch.probe", "touch.probed", "touch.ready"}
OpenBody == {"play.connect", "play.open", "play.ask"}
CommitBody == {"play.commit", "play.write"}
PlayBody == {"play.gesture", "play.touched"}
PlayCalls == {"play.shot", "play.read", "play.command"}
UnitBody == {"unit.gesture", "unit.lift"}
UnitCalls ==
  {"unit.connect", "unit.library", "unit.configure", "unit.create", "unit.link", "unit.look",
   "unit.shot", "unit.inject", "unit.command", "unit.key", "window.close", "window.terminate"}
CtrlBody ==
  {"ctrl.connect", "ctrl.create", "ctrl.connected", "ctrl.failed", "ctrl.looked", "ctrl.scale"}
ClientBody == {"image", "image.taken", "image.last", "connected", "exit", "exited"}

Labels ==
  IOBody \cup CallBody \cup ReleaseBody \cup CommandBody \cup ShotBody \cup LinkBody
    \cup HupBody \cup InputBody \cup GestureBody \cup InjectBody \cup TouchBody
    \cup OpenBody \cup CommitBody \cup PlayBody \cup PlayCalls \cup UnitBody \cup UnitCalls
    \cup CtrlBody \cup ClientBody

\* What a call may be about, and what it may answer.
Answers ==
  {"void", "none", "bad", "yes", "no", "crash", "plain", "chance", "crlf", "junk", "empty",
   "ok", "error", "odd", "killed"}
Commands ==
  {"", "nc", "gzip", "encode", "connect", "devices", "uuid", "version", "display_id",
   "event_id", "display", "nc_address", "abilist", "orientation", "push", "chmod", "release",
   "act", "down", "up", "move", "more", "wait", "key_down", "key_up", "esc",
   "click", "swipe", "extra", "pause", "late",
   "press_esc", "start_game", "stop_game", "input",
   "Adb", "Minitouch", "Maatouch", "MacPlayTools", "MaaFwAdb", "Native", "Win32"}
Words == Answers \cup Commands

\* Functions that nothing else calls.
Gesturing == GestureBody \cup PlayBody \cup UnitBody
Outermost == Gesturing \cup InjectBody \cup {"connected", "exit", "exited"}

\* Where a function waits for one that it called.
HupWaits ==
  {"reconnect.hup", "input.rewrite", "gesture.started", "inject.started", "touch.ready"}
Waits == HupWaits \cup
  {"call.done", "release.done", "reconnect.connected", "reconnect.recalled", "reconnect.failed",
   "command.done", "capture.decode", "probe.done", "connect.listed", "connect.connected",
   "connect.answer", "connect.server", "touch.connected", "touch.probed", "gesture.sent",
   "play.read", "play.write", "play.touched", "ctrl.create", "ctrl.connected", "ctrl.failed",
   "ctrl.looked", "image.taken", "image.last", "connected", "exited"}

\* Where in a gesture the finger is lifted.
UpAt(t, c) ==
  CASE c = "click" -> 2 [] c = "swipe" -> 3 [] c = "extra" -> 5 [] c = "late" -> 4
    [] c = "pause" -> IF t = "maatouch" THEN 6 ELSE 5
PlayUpAt(c) == CASE c = "click" -> 2 [] c = "swipe" -> 3 [] c = "extra" -> 4

\* A swipe presses escape.
Escaping(t, b) ==
  \/ b.cmd = "pause" /\ b.n = 3 /\ t # "maatouch"
  \/ b.cmd = "late" /\ b.n = 5

\* The call a may be in progress for one that waits at l, and for the call b.
Serves(l, a) ==
  /\ l \in Waits
  /\ a.at \notin Outermost
  /\ l \in {"call.done", "release.done"} => a.at \in IOBody
  /\ l \in {"reconnect.connected", "reconnect.recalled"} =>
       a.at \in {"call", "call.done"} /\ ~a.flag
  /\ l = "reconnect.failed" => a.at \in ReleaseBody
  /\ l \in HupWaits => a.at \in HupBody
  /\ a.at \in InputBody => l = "gesture.sent"
  /\ a.at \in CommitBody <=> l = "play.touched"
  /\ a.at \in TouchBody => l = "ctrl.connected"
  /\ a.at \in CtrlBody <=> l = "connected"
Allowed(t, b, a) ==
  /\ Serves(b.at, a)
  /\ b.at = "gesture.sent" =>
       /\ a.at \in InputBody \cup CommandBody
       /\ a.at \in CommandBody => Escaping(t, b)
       /\ a.at \in InputBody =>
            /\ ~a.flag
            /\ a.cmd = "down" => b.n = 1
            /\ a.cmd = "up" <=> b.n = UpAt(t, b.cmd)
  /\ b.at = "play.touched" =>
       /\ a.cmd = "down" <=> b.n = 1
       /\ a.cmd = "up" <=> b.n = PlayUpAt(b.cmd)

Legal == \A i \in 1 .. Len(stack) - 1 : Allowed(touch, stack[i + 1], stack[i])

Frames == [at : Labels, cmd : Words, flag : BOOLEAN, n : Nat \ {0}]
Typed == stack \in Seq(Frames) /\ result \in Words /\ finger \in {"up", "down"}

Bottom == stack[Len(stack)]

-----------------------------------------------------------------------------
(* Sequences of frames.                                                            *)

LEMMA Popped ==
  ASSUME NEW s \in Seq(Frames), s # <<>>
  PROVE  /\ Tail(s) \in Seq(Frames) /\ Len(Tail(s)) = Len(s) - 1
         /\ Len(s) \in Nat /\ Len(s) > 0 /\ s[1] = Head(s) /\ Head(s) \in Frames
         /\ \A i \in 1 .. Len(s) - 1 : Tail(s)[i] = s[i + 1]
  OBVIOUS

LEMMA TailOfOne == ASSUME NEW S, NEW s \in Seq(S), Len(s) = 1 PROVE Tail(s) = <<>>
  <1> DEFINE t == Tail(s)
  <1>1. t \in Seq(S) /\ Len(t) = 0
    OBVIOUS
  <1> HIDE DEF t
  <1>2. t = <<>>
    BY <1>1, EmptySeq
  <1> QED BY <1>2 DEF t

LEMMA Replaced ==
  ASSUME NEW s \in Seq(Frames), s # <<>>, NEW f \in Frames, NEW t, t = <<f>> \o Tail(s)
  PROVE  /\ t \in Seq(Frames) /\ Len(t) = Len(s) /\ t[1] = f /\ t # <<>>
         /\ \A i \in 2 .. Len(s) : t[i] = s[i]
  OBVIOUS

LEMMA Entered ==
  ASSUME NEW s \in Seq(Frames), s # <<>>, NEW f \in Frames, NEW g \in Frames,
         NEW t, t = <<g, f>> \o Tail(s)
  PROVE  /\ t \in Seq(Frames) /\ Len(t) = Len(s) + 1 /\ t[1] = g /\ t[2] = f /\ t # <<>>
         /\ \A i \in 3 .. Len(t) : t[i] = s[i - 1]
  OBVIOUS

-----------------------------------------------------------------------------
(* What a step does to the calls in progress.                                      *)

\* Places at which the gestures have something to say of the finger.
Special ==
  InputBody \cup GestureBody \cup InjectBody \cup PlayBody \cup CommitBody \cup UnitBody
    \cup {"hup.read", "hup.reading", "hup.props"}

\* One that is at g may stand wherever one that is at f may.
Follows(f, g) == \A b \in Frames : Allowed(touch, b, f) => Allowed(touch, b, g)

Pop == stack' = Tail(stack)
Move ==
  \E f \in Frames : stack' = <<f>> \o Tail(stack) /\ Follows(Top, f) /\ f.at \notin Special
Push ==
  \E f, g \in Frames :
    /\ stack' = <<g, f>> \o Tail(stack) /\ Follows(Top, f) /\ f.at \notin Special
    /\ Allowed(touch, f, g) /\ g.at \notin Special

Plain ==
  /\ stack # <<>> /\ Top.at \notin Special \cup {"hup"}
  /\ Pop \/ Move \/ Push
  /\ result' \in Words

\* The labels of one function, as far as Allowed tells functions apart.
Kin(l, m) ==
  /\ l \in IOBody => m \in IOBody
  /\ l \in {"call", "call.done"} => m \in {"call", "call.done"}
  /\ l \in ReleaseBody => m \in ReleaseBody
  /\ l \in HupBody => m \in HupBody
  /\ l \in InputBody <=> m \in InputBody
  /\ l \in CommandBody <=> m \in CommandBody
  /\ l \in CommitBody <=> m \in CommitBody
  /\ m \in TouchBody => l \in TouchBody
  /\ l \in CtrlBody <=> m \in CtrlBody
  /\ m \in Outermost => l \in Outermost

LEMMA KinFollows ==
  ASSUME NEW f \in Frames, NEW g \in Frames, Kin(f.at, g.at),
         g.flag = f.flag \/ f.at \notin {"call", "call.done"},
         (g.cmd = f.cmd /\ g.flag = f.flag) \/ f.at \notin InputBody \cup CommitBody
  PROVE  Follows(f, g)
  <1> SUFFICES ASSUME NEW b \in Frames, Allowed(touch, b, f) PROVE Allowed(touch, b, g)
    BY DEF Follows
  <1>1. Serves(b.at, g)
    <2>1. /\ b.at \in Waits
          /\ g.at \notin Outermost
          /\ g.at \in InputBody => b.at = "gesture.sent"
          /\ g.at \in CommitBody <=> b.at = "play.touched"
          /\ g.at \in TouchBody => b.at = "ctrl.connected"
          /\ g.at \in CtrlBody <=> b.at = "connected"
      BY DEF Allowed, Serves, Kin
    <2>2. /\ b.at \in {"call.done", "release.done"} => g.at \in IOBody
          /\ b.at \in {"reconnect.connected", "reconnect.recalled"} =>
               g.at \in {"call", "call.done"} /\ ~g.flag
          /\ b.at = "reconnect.failed" => g.at \in ReleaseBody
          /\ b.at \in HupWaits => g.at \in HupBody
      BY DEF Allowed, Serves, Kin
    <2> QED BY <2>1, <2>2 DEF Serves
  <1>2. b.at = "gesture.sent" =>
          /\ g.at \in InputBody \cup CommandBody
          /\ g.at \in CommandBody => Escaping(touch, b)
    BY DEF Allowed, Kin
  <1>3. b.at = "gesture.sent" /\ g.at \in InputBody =>
          /\ ~g.flag
          /\ g.cmd = "down" => b.n = 1
          /\ g.cmd = "up" <=> b.n = UpAt(touch, b.cmd)
    BY DEF Allowed, Kin
  <1>4. b.at = "play.touched" =>
          /\ g.cmd = "down" <=> b.n = 1
          /\ g.cmd = "up" <=> b.n = PlayUpAt(b.cmd)
    BY DEF Allowed, Kin, Serves
  <1> QED BY <1>1, <1>2, <1>3, <1>4 DEF Allowed

LEMMA FrameMoved ==
  ASSUME NEW f \in Frames, NEW l \in Labels
  PROVE  /\ [f EXCEPT !.at = l] \in Frames
         /\ [f EXCEPT !.at = l].at = l /\ [f EXCEPT !.at = l].cmd = f.cmd
         /\ [f EXCEPT !.at = l].flag = f.flag /\ [f EXCEPT !.at = l].n = f.n
  BY DEF Frames

LEMMA FrameRepeated ==
  ASSUME NEW f \in Frames, NEW l \in Labels
  PROVE  LET g == [f EXCEPT !.at = l, !.n = @ + 1]
         IN  g \in Frames /\ g.at = l /\ g.cmd = f.cmd /\ g.flag = f.flag /\ g.n = f.n + 1
  <1>1. f.n + 1 \in Nat \ {0}
    BY DEF Frames
  <1> QED BY <1>1 DEF Frames

LEMMA FrameNew ==
  ASSUME NEW l \in Labels, NEW c \in Words, NEW b \in BOOLEAN
  PROVE  LET g == Frame(l, c, b)
         IN  g \in Frames /\ g.at = l /\ g.cmd = c /\ g.flag = b /\ g.n = 1
  BY DEF Frames, Frame

LEMMA TopFrame == ASSUME Typed, stack # <<>> PROVE Top \in Frames
  BY Popped DEF Typed, Top

LEMMA JumpPlain ==
  ASSUME Typed, stack # <<>>, Top.at \notin Special \cup {"hup"},
         NEW l \in Labels, Jump(l), Kin(Top.at, l), l \notin Special
  PROVE  Plain
  <1> DEFINE f == [Top EXCEPT !.at = l]
  <1>1. f \in Frames /\ f.at = l /\ f.flag = Top.flag
    BY TopFrame, FrameMoved
  <1>2. stack' = <<f>> \o Tail(stack)
    BY DEF Jump, Goto, Replace
  <1>4. result' \in Words
    BY DEF Jump, Words, Answers
  <1> HIDE DEF f
  <1>3. Follows(Top, f)
    BY <1>1, TopFrame, KinFollows DEF Special
  <1> QED BY <1>1, <1>2, <1>3, <1>4 DEF Plain, Move

LEMMA AgainPlain ==
  ASSUME Typed, stack # <<>>, Top.at \notin Special \cup {"hup"},
         NEW l \in Labels, Again(l), Kin(Top.at, l), l \notin Special
  PROVE  Plain
  <1> DEFINE f == [Top EXCEPT !.at = l, !.n = @ + 1]
  <1>1. f \in Frames /\ f.at = l /\ f.flag = Top.flag
    BY TopFrame, FrameRepeated
  <1>2. stack' = <<f>> \o Tail(stack) /\ result' = result
    BY DEF Again, Repeat, Replace
  <1> HIDE DEF f
  <1>3. Follows(Top, f)
    BY <1>1, TopFrame, KinFollows DEF Special
  <1> QED BY <1>1, <1>2, <1>3 DEF Plain, Move, Typed

LEMMA CallPlain ==
  ASSUME Typed, stack # <<>>, Top.at \notin Special \cup {"hup"},
         NEW l \in Labels, NEW g \in Frames, Call(g, l), Kin(Top.at, l),
         l \notin Special, Serves(l, g), g.at \notin Special
  PROVE  Plain
  <1> DEFINE f == [Top EXCEPT !.at = l]
  <1>1. f \in Frames /\ f.at = l /\ f.flag = Top.flag
    BY TopFrame, FrameMoved
  <1>2. stack' = <<g, f>> \o Tail(stack)
    BY DEF Call, Enter
  <1>4. result' \in Words
    BY DEF Call, Words, Answers
  <1> HIDE DEF f
  <1>3. Follows(Top, f)
    BY <1>1, TopFrame, KinFollows DEF Special
  <1>5. Allowed(touch, f, g)
    BY <1>1 DEF Allowed, Special, GestureBody, PlayBody
  <1> QED BY <1>1, <1>2, <1>3, <1>4, <1>5 DEF Plain, Push

LEMMA ReturnPlain ==
  ASSUME stack # <<>>, Top.at \notin Special \cup {"hup"}, NEW v \in Words, Return(v)
  PROVE  Plain
  <1>1. result' \in Words
    <2>1. CASE Tail(stack) = <<>>
      BY <2>1 DEF Return, Words, Answers
    <2>2. CASE Tail(stack) # <<>>
      BY <2>2 DEF Return
    <2> QED BY <2>1, <2>2
  <1>2. Pop
    BY DEF Pop, Return
  <1> QED BY <1>1, <1>2 DEF Plain

LEMMA ReplacePlain ==
  ASSUME Typed, stack # <<>>, Top.at \notin Special \cup {"hup"},
         NEW f \in Frames, Replace(f), result' = result, Follows(Top, f), f.at \notin Special
  PROVE  Plain
  BY DEF Plain, Move, Replace, Typed

-----------------------------------------------------------------------------
(* The steps of each module that leave the gestures alone.                         *)

LEMMA Families ==
  /\ \A l, m \in IOBody : Kin(l, m)
  /\ \A l, m \in CallBody \ {"call", "call.done"} : Kin(l, m)
  /\ Kin("call", "call.done")
  /\ \A l, m \in ReleaseBody : Kin(l, m)
  /\ \A l, m \in CommandBody : Kin(l, m)
  /\ \A l, m \in ShotBody : Kin(l, m)
  /\ \A l, m \in LinkBody : Kin(l, m)
  /\ \A l, m \in OpenBody : Kin(l, m)
  /\ \A l, m \in PlayCalls : Kin(l, m)
  /\ \A l, m \in UnitCalls : Kin(l, m)
  /\ \A l, m \in TouchBody : Kin(l, m)
  /\ \A l, m \in CtrlBody : Kin(l, m)
  /\ \A l, m \in {"image", "image.taken", "image.last"} : Kin(l, m)
  <1> USE DEF Kin, Outermost, Gesturing, InjectBody
  <1>1. \A l, m \in IOBody : Kin(l, m)
    BY DEF IOBody, ReleaseBody, HupBody, InputBody, CommandBody, CommitBody, TouchBody,
           CtrlBody, GestureBody, PlayBody, UnitBody
  <1>2. \A l, m \in CallBody \ {"call", "call.done"} : Kin(l, m)
    BY DEF CallBody, IOBody, ReleaseBody, HupBody, InputBody, CommandBody, CommitBody, TouchBody,
           CtrlBody, GestureBody, PlayBody, UnitBody
  <1>3. Kin("call", "call.done")
    BY DEF IOBody, ReleaseBody, HupBody, InputBody, CommandBody, CommitBody, TouchBody,
           CtrlBody, GestureBody, PlayBody, UnitBody
  <1>4. \A l, m \in ReleaseBody : Kin(l, m)
    BY DEF IOBody, ReleaseBody, HupBody, InputBody, CommandBody, CommitBody, TouchBody,
           CtrlBody, GestureBody, PlayBody, UnitBody
  <1>5. \A l, m \in CommandBody : Kin(l, m)
    BY DEF IOBody, ReleaseBody, HupBody, InputBody, CommandBody, CommitBody, TouchBody,
           CtrlBody, GestureBody, PlayBody, UnitBody
  <1>6. \A l, m \in ShotBody : Kin(l, m)
    BY DEF ShotBody, IOBody, ReleaseBody, HupBody, InputBody, CommandBody, CommitBody, TouchBody,
           CtrlBody, GestureBody, PlayBody, UnitBody
  <1>7. \A l, m \in LinkBody : Kin(l, m)
    BY DEF LinkBody, IOBody, ReleaseBody, HupBody, InputBody, CommandBody, CommitBody, TouchBody,
           CtrlBody, GestureBody, PlayBody, UnitBody
  <1>8. \A l, m \in OpenBody : Kin(l, m)
    BY DEF OpenBody, IOBody, ReleaseBody, HupBody, InputBody, CommandBody, CommitBody, TouchBody,
           CtrlBody, GestureBody, PlayBody, UnitBody
  <1>9. \A l, m \in PlayCalls : Kin(l, m)
    BY DEF PlayCalls, IOBody, ReleaseBody, HupBody, InputBody, CommandBody, CommitBody, TouchBody,
           CtrlBody, GestureBody, PlayBody, UnitBody
  <1>10. \A l, m \in UnitCalls : Kin(l, m)
    BY DEF UnitCalls, IOBody, ReleaseBody, HupBody, InputBody, CommandBody, CommitBody, TouchBody,
           CtrlBody, GestureBody, PlayBody, UnitBody
  <1>11. \A l, m \in TouchBody : Kin(l, m)
    BY DEF IOBody, ReleaseBody, HupBody, InputBody, CommandBody, CommitBody, TouchBody,
           CtrlBody, GestureBody, PlayBody, UnitBody
  <1>12. \A l, m \in CtrlBody : Kin(l, m)
    BY DEF IOBody, ReleaseBody, HupBody, InputBody, CommandBody, CommitBody, TouchBody,
           CtrlBody, GestureBody, PlayBody, UnitBody
  <1>13. \A l, m \in {"image", "image.taken", "image.last"} : Kin(l, m)
    BY DEF IOBody, ReleaseBody, HupBody, InputBody, CommandBody, CommitBody, TouchBody,
           CtrlBody, GestureBody, PlayBody, UnitBody
  <1> HIDE DEF Kin, Outermost, Gesturing, InjectBody
  <1> QED BY <1>1, <1>2, <1>3, <1>4, <1>5, <1>6, <1>7, <1>8, <1>9, <1>10, <1>11, <1>12, <1>13

\* Places that have nothing to do with a gesture.
Ordinary ==
  IOBody \cup CallBody \cup ReleaseBody \cup CommandBody \cup ShotBody \cup LinkBody
    \cup TouchBody \cup OpenBody \cup PlayCalls \cup UnitCalls \cup CtrlBody \cup ClientBody
LEMMA OrdinaryLabels ==
  \A l \in Ordinary : l \in Labels /\ l \notin Special \cup {"hup"}
  <1>1. Ordinary \subseteq Labels
    BY DEF Ordinary, Labels
  <1> USE DEF Special, InputBody, GestureBody, InjectBody, PlayBody, CommitBody, UnitBody
  <1>2. \A l \in IOBody \cup CallBody \cup ReleaseBody : l \notin Special \cup {"hup"}
    BY DEF IOBody, CallBody, ReleaseBody
  <1>3. \A l \in CommandBody \cup ShotBody \cup LinkBody : l \notin Special \cup {"hup"}
    BY DEF CommandBody, ShotBody, LinkBody
  <1>4. \A l \in TouchBody \cup OpenBody \cup PlayCalls : l \notin Special \cup {"hup"}
    BY DEF TouchBody, OpenBody, PlayCalls
  <1>5. \A l \in UnitCalls \cup CtrlBody \cup ClientBody : l \notin Special \cup {"hup"}
    BY DEF UnitCalls, CtrlBody, ClientBody
  <1> QED BY <1>1, <1>2, <1>3, <1>4, <1>5 DEF Ordinary

LEMMA IOPlain == Typed /\ IOStep => Plain
  <1> SUFFICES ASSUME Typed, IOStep PROVE Plain
    OBVIOUS
  <1> USE DEF At, Labels, IOBody, Words, Answers, Special
  <1>0. \A l, m \in IOBody : Kin(l, m)
    BY Families
  <1>1. \A l \in IOBody : l \notin Special \cup {"hup"}
    BY OrdinaryLabels DEF Ordinary
  <1>2. Screenshot \cup Partial(Top.cmd) \cup Output(Top.cmd) \subseteq Words
    BY DEF Screenshot, Partial, Output, Shots
  <1>3. CASE LiteRefuses \/ LiteBegins
    BY <1>3, <1>0, <1>1, JumpPlain DEF LiteRefuses, LiteBegins
  <1>4. CASE LiteOkay
    BY <1>4, <1>0, <1>1, AgainPlain DEF LiteOkay
  <1>5. CASE LiteMessage \/ LiteData \/ LitePushed
    BY <1>5, <1>1, <1>2, ReturnPlain DEF LiteMessage, LiteData, LitePushed
  <1>6. CASE LiteThrows
    BY <1>6, <1>0, <1>1, ReturnPlain, JumpPlain DEF LiteThrows
  <1>7. CASE PosixFork
    BY <1>7, <1>0, <1>1, ReturnPlain, JumpPlain DEF PosixFork, NativeBegins
  <1>8. CASE Win32Create
    BY <1>8, <1>0, <1>1, ReturnPlain, JumpPlain DEF Win32Create, NativeBegins
  <1>9. CASE PosixSocket
    BY <1>9, <1>0, <1>1, ReturnPlain, JumpPlain DEF PosixSocket
  <1>10. CASE PosixDrain \/ Win32Ended \/ Win32TimedOut \/ Win32Cut
    BY <1>10, <1>1, <1>2, ReturnPlain DEF PosixDrain, Win32Ended, Win32TimedOut, Win32Cut
  <1> QED BY <1>3, <1>4, <1>5, <1>6, <1>7, <1>8, <1>9, <1>10 DEF IOStep

LEMMA CallPlainStep ==
  ASSUME Typed,
         \/ CallBegin \/ CallDone
         \/ ReconnectWait \/ ReconnectSlept \/ ReconnectConnected \/ ReconnectRecalled
         \/ ReconnectFail \/ ReconnectFailed \/ Release \/ ReleaseDone
         \/ CommandSend \/ CommandDone
  PROVE  Plain
  <1>1. CallBody \cup ReleaseBody \cup CommandBody \cup IOBody \subseteq Ordinary
    BY DEF Ordinary
  <1>2. stack # <<>> => /\ Top \in Frames /\ Top.cmd \in Words /\ Top.flag \in BOOLEAN
                        /\ result \in Words
    BY TopFrame DEF Frames, Typed
  <1> USE DEF At, CallBody, ReleaseBody, CommandBody
  <1>3. CASE CallBegin
    <2>1. stack # <<>> /\ Top.at = "call" /\ Call(Command(Top.cmd, BySocket(Top.cmd)), "call.done")
      BY <1>3 DEF CallBegin
    <2>2. BySocket(Top.cmd) \in BOOLEAN
      BY DEF BySocket
    <2>3. Command(Top.cmd, BySocket(Top.cmd)) \in Frames /\ Command(Top.cmd, BySocket(Top.cmd)).at = "io"
      BY <1>2, <2>1, <2>2, FrameNew DEF Command, Labels, IOBody
    <2>4. Serves("call.done", Command(Top.cmd, BySocket(Top.cmd)))
      BY <2>3 DEF Serves, Waits, HupWaits, IOBody, Outermost,
                  Gesturing, GestureBody, PlayBody, UnitBody, InjectBody, InputBody, CommitBody,
                  TouchBody, CtrlBody
    <2>5. "io" \in IOBody
      BY DEF IOBody
    <2> QED BY <1>1, <2>1, <2>3, <2>4, <2>5, Families, OrdinaryLabels, CallPlain
  <1>4. CASE CallDone
    <2>1. stack # <<>> /\ Top.at = "call.done"
      BY <1>4 DEF CallDone
    <2>2. CASE Top.flag /\ Jump("reconnect")
      <3> DEFINE f == [Top EXCEPT !.at = "reconnect"]
      <3>1. f \in Frames /\ f.at = "reconnect"
        BY <1>2, <2>1, FrameMoved DEF Labels
      <3>2. stack' = <<f>> \o Tail(stack) /\ result' \in Words
        BY <2>2 DEF Jump, Goto, Replace, Words, Answers
      <3> HIDE DEF f
      <3>3. Follows(Top, f)
        <4> SUFFICES ASSUME NEW b \in Frames, Allowed(touch, b, Top) PROVE Allowed(touch, b, f)
          BY DEF Follows
        <4> QED BY <2>1, <2>2, <3>1 DEF Allowed, Serves, Waits, HupWaits, IOBody, Outermost, Gesturing, InjectBody, CommandBody,
              GestureBody, PlayBody, UnitBody, TouchBody, CtrlBody, CommitBody, HupBody, InputBody
      <3> QED BY <1>1, <2>1, <3>1, <3>2, <3>3, OrdinaryLabels DEF Plain, Move
    <2>3. CASE \E v \in Words : Return(v)
      BY <1>1, <2>1, <2>3, ReturnPlain, OrdinaryLabels
    <2>4. "none" \in Words
      BY DEF Words, Answers
    <2>5. (Top.flag /\ Jump("reconnect")) \/ Return("none") \/ Return(result)
      BY <1>4 DEF CallDone
    <2> QED BY <1>2, <2>1, <2>2, <2>3, <2>4, <2>5
  <1>5. CASE ReconnectWait
    BY <1>5, <1>1, Families, OrdinaryLabels, JumpPlain DEF ReconnectWait
  <1>6. \A c \in Words, b \in BOOLEAN :
          AdbCall(c, b) \in Frames /\ AdbCall(c, b).at = "call" /\ AdbCall(c, b).flag = b
    BY FrameNew DEF AdbCall, Labels
  <1>7. \A c \in Words :
          Serves("reconnect.connected", AdbCall(c, FALSE)) /\ Serves("reconnect.recalled", AdbCall(c, FALSE))
    BY <1>6 DEF Serves, Waits, HupWaits, Outermost,
                  Gesturing, GestureBody, PlayBody, UnitBody, InjectBody, InputBody, CommitBody,
                TouchBody, CtrlBody
  <1>8. CASE ReconnectSlept
    <2>1. "connect" \in Words
      BY DEF Words, Commands
    <2>2. Top.at = "reconnect.slept" /\ stack # <<>>
      BY <1>8 DEF ReconnectSlept
    <2>3. Jump("reconnect.fail") \/ Call(AdbCall("connect", FALSE), "reconnect.connected")
      BY <1>8 DEF ReconnectSlept
    <2>4. CASE Jump("reconnect.fail")
      BY <1>1, <2>2, <2>4, Families, OrdinaryLabels, JumpPlain
    <2>5. CASE Call(AdbCall("connect", FALSE), "reconnect.connected")
      BY <1>1, <1>6, <1>7, <2>1, <2>2, <2>5, Families, OrdinaryLabels, CallPlain
    <2> QED BY <2>3, <2>4, <2>5
  <1>9. CASE ReconnectConnected
    <2>2. Top.at = "reconnect.connected" /\ stack # <<>>
      BY <1>9 DEF ReconnectConnected
    <2>3. Jump("reconnect.fail") \/ Again("reconnect") \/ Call(AdbCall(Top.cmd, FALSE), "reconnect.recalled")
      BY <1>9 DEF ReconnectConnected
    <2>4. CASE Jump("reconnect.fail") \/ Again("reconnect")
      BY <1>1, <2>2, <2>4, Families, OrdinaryLabels, JumpPlain, AgainPlain
    <2>5. CASE Call(AdbCall(Top.cmd, FALSE), "reconnect.recalled")
      <3>1. Top.cmd \in Words
        BY <1>2, <2>2 DEF Frames
      <3>2. /\ Kin(Top.at, "reconnect.recalled") /\ "reconnect.recalled" \in Labels
            /\ {"call", "reconnect.recalled", "reconnect.connected"}
                 \cap (Special \cup {"hup"}) = {}
        BY <1>1, <2>2, Families, OrdinaryLabels
      <3> DEFINE g == AdbCall(Top.cmd, FALSE)
      <3>3. g \in Frames /\ g.at = "call" /\ Serves("reconnect.recalled", g)
        BY <1>6, <1>7, <3>1
      <3> HIDE DEF g
      <3>4. Call(g, "reconnect.recalled")
        BY <2>5 DEF g
      <3> QED BY <1>1, <2>2, <3>2, <3>3, <3>4, CallPlain
    <2> QED BY <2>3, <2>4, <2>5
  <1>10. CASE ReconnectRecalled
    <2>1. Top.at = "reconnect.recalled" /\ stack # <<>>
      BY <1>10 DEF ReconnectRecalled
    <2> DEFINE f == [Top EXCEPT !.at = "reconnect.ok", !.cmd = result]
    <2>2. Again("reconnect") \/ (Replace(f) /\ result' = result)
      BY <1>10 DEF ReconnectRecalled
    <2>3. f \in Frames /\ f.at = "reconnect.ok" /\ f.flag = Top.flag
      BY <1>2, <2>1 DEF Frames, Labels
    <2> HIDE DEF f
    <2>4. Follows(Top, f)
      BY <1>2, <2>1, <2>3, Families, KinFollows DEF InputBody, CommitBody
    <2> QED BY <1>1, <2>1, <2>2, <2>3, <2>4, Families, OrdinaryLabels, AgainPlain, ReplacePlain
  <1>11. CASE ReconnectFail
    <2>1. "" \in Words
      BY DEF Words, Commands
    <2>2. Frame("release", "", FALSE) \in Frames /\ Frame("release", "", FALSE).at = "release"
      BY <2>1, FrameNew DEF Labels
    <2>3. Serves("reconnect.failed", Frame("release", "", FALSE))
      BY <2>2 DEF Serves, Waits, HupWaits, Outermost,
                  Gesturing, GestureBody, PlayBody, UnitBody, InjectBody, InputBody, CommitBody,
                  TouchBody, CtrlBody
    <2>4. /\ stack # <<>> /\ Top.at = "reconnect.fail"
          /\ Call(Frame("release", "", FALSE), "reconnect.failed")
      BY <1>11 DEF ReconnectFail
    <2>5. /\ Kin(Top.at, "reconnect.failed") /\ "reconnect.failed" \in Labels
          /\ {"release", "reconnect.fail", "reconnect.failed"} \cap (Special \cup {"hup"}) = {}
      BY <1>1, <2>4, Families, OrdinaryLabels
    <2> QED BY <1>1, <2>2, <2>3, <2>4, <2>5, CallPlain
  <1>12. CASE ReconnectFailed \/ ReleaseDone
    BY <1>12, <1>1, OrdinaryLabels, ReturnPlain DEF ReconnectFailed, ReleaseDone, Words, Answers
  <1>13. CASE Release
    <2>1. "release" \in Words /\ "void" \in Words
      BY DEF Words, Commands, Answers
    <2>2. Command("release", FALSE) \in Frames /\ Command("release", FALSE).at = "io"
      BY <2>1, FrameNew DEF Labels, IOBody, Command
    <2>3. Serves("release.done", Command("release", FALSE))
      BY <2>2 DEF Serves, Waits, HupWaits, Outermost,
                  Gesturing, GestureBody, PlayBody, UnitBody, InjectBody, InputBody, CommitBody,
                  TouchBody, CtrlBody, IOBody
    <2>4. stack # <<>> /\ Top.at = "release"
          /\ (Call(Command("release", FALSE), "release.done") \/ Return("void"))
      BY <1>13 DEF Release
    <2>5. "io" \in IOBody
      BY DEF IOBody
    <2> QED BY <1>1, <2>1, <2>2, <2>3, <2>4, <2>5, Families, OrdinaryLabels, CallPlain, ReturnPlain
  <1>14. CASE CommandSend
    <2>1. stack # <<>> /\ Top.at = "command" /\ Call(AdbCall(Top.cmd, TRUE), "command.done")
      BY <1>14 DEF CommandSend
    <2>2. Serves("command.done", AdbCall(Top.cmd, TRUE))
      BY <1>2, <1>6, <2>1 DEF Serves, Waits, HupWaits, Outermost,
                  Gesturing, GestureBody, PlayBody, UnitBody, InjectBody, InputBody, CommitBody,
                  TouchBody, CtrlBody
    <2>3. /\ Kin(Top.at, "command.done") /\ "command.done" \in Labels
          /\ {"call", "command", "command.done"} \cap (Special \cup {"hup"}) = {}
      BY <1>1, <2>1, Families, OrdinaryLabels
    <2>4. AdbCall(Top.cmd, TRUE) \in Frames /\ AdbCall(Top.cmd, TRUE).at = "call"
      BY <1>2, <1>6, <2>1 DEF Frames
    <2> QED BY <1>1, <2>1, <2>2, <2>3, <2>4, CallPlain
  <1>15. CASE CommandDone
    <2>1. stack # <<>> /\ Top.at = "command.done"
      BY <1>15 DEF CommandDone
    <2>2. \/ Return("yes") \/ Return("no")
          \/ \E m \in {2, 3} :
               Replace([Top EXCEPT !.at = "command", !.flag = FALSE, !.n = m]) /\ result' = result
      BY <1>15 DEF CommandDone
    <2>3. CASE Return("yes") \/ Return("no")
      BY <1>1, <2>1, <2>3, OrdinaryLabels, ReturnPlain DEF Words, Answers
    <2>4. ASSUME NEW m \in {2, 3},
                 Replace([Top EXCEPT !.at = "command", !.flag = FALSE, !.n = m]), result' = result
          PROVE  Plain
      <3> DEFINE f == [Top EXCEPT !.at = "command", !.flag = FALSE, !.n = m]
      <3>4. m \in Nat \ {0} /\ "command" \in Labels
        BY DEF Labels
      <3>1. f \in Frames /\ f.at = "command"
        BY <1>2, <2>1, <3>4 DEF Frames
      <3>2. Replace(f)
        BY <2>4
      <3> HIDE DEF f
      <3>3. Follows(Top, f)
        BY <1>2, <2>1, <3>1, Families, KinFollows DEF InputBody, CommitBody
      <3> QED BY <1>1, <2>1, <2>4, <3>1, <3>2, <3>3, OrdinaryLabels, ReplacePlain
    <2> QED BY <2>2, <2>3, <2>4
  <1> QED BY <1>3, <1>4, <1>5, <1>8, <1>9, <1>10, <1>11, <1>12, <1>13, <1>14, <1>15

\* Whoever waits here does not mind who is called.
FreeWaits ==
  {"command.done", "capture.decode", "probe.done", "connect.listed", "connect.connected",
   "connect.answer", "connect.server", "touch.connected", "touch.probed", "play.read",
   "play.write", "ctrl.create", "ctrl.failed", "ctrl.looked", "image.taken", "image.last",
   "exited"}

LEMMA FreeServes ==
  ASSUME NEW l \in FreeWaits, NEW a,
         a.at \notin Outermost \cup TouchBody \cup CtrlBody \cup InputBody \cup CommitBody
  PROVE  Serves(l, a)
  BY DEF Serves, FreeWaits, Waits, HupWaits

\* A call of an ordinary function by another.
LEMMA CallFree ==
  ASSUME Typed, stack # <<>>, Top.at \in Ordinary, NEW l \in FreeWaits \cap Ordinary,
         NEW c \in Words, NEW b \in BOOLEAN,
         NEW e \in Ordinary \ ({"connected", "exit", "exited"} \cup TouchBody \cup CtrlBody),
         Call(Frame(e, c, b), l), Kin(Top.at, l)
  PROVE  Plain
  <1> DEFINE g == Frame(e, c, b)
  <1>1. g \in Frames /\ g.at = e
    BY FrameNew, OrdinaryLabels
  <1>2. e \notin Special /\ l \in Labels /\ l \notin Special
    BY OrdinaryLabels
  <1>3. e \notin Outermost \cup InputBody \cup CommitBody
    BY <1>2 DEF Outermost, Gesturing, Special
  <1>4. Call(g, l)
    OBVIOUS
  <1> HIDE DEF g
  <1>5. Serves(l, g)
    BY <1>1, <1>3, FreeServes
  <1> QED BY <1>1, <1>2, <1>4, <1>5, CallPlain, OrdinaryLabels

LEMMA ShotPlain ==
  ASSUME Typed,
         \/ CaptureBegin \/ CaptureDecode
         \/ ScreencapUnknown \/ ScreencapKnown \/ ScreencapExtras
         \/ Probe \/ ProbeDone \/ ProbeExtras \/ ProbeEnd
  PROVE  Plain
  <1>1. CallBody \cup ShotBody \subseteq Ordinary
    BY DEF Ordinary
  <1>2. stack # <<>> => /\ Top \in Frames /\ Top.cmd \in Words /\ Top.flag \in BOOLEAN
    BY TopFrame DEF Frames
  <1>31. {"yes", "no", "nc", "gzip", "encode"} \subseteq Words
    BY DEF Words, Answers, Commands
  <1>32. /\ DOMAIN CaptureCommand = {"RawByNc", "RawWithGzip", "Encode"}
         /\ CaptureCommand["RawByNc"] = "nc" /\ CaptureCommand["RawWithGzip"] = "gzip"
         /\ CaptureCommand["Encode"] = "encode"
    BY DEF CaptureCommand
  <1>3. "yes" \in Words /\ "no" \in Words /\ \A m \in DOMAIN CaptureCommand : CaptureCommand[m] \in Words
    BY <1>31, <1>32
  <1> USE DEF At, ShotBody
  <1>4. CASE CaptureBegin
    <2>1. Top.at = "capture" /\ stack # <<>>
          /\ (Return("no") \/ Call(Frame("call", Top.cmd, Top.flag), "capture.decode"))
      BY <1>4 DEF CaptureBegin, AdbCall
    <2>2. "call" \in CallBody /\ "call" \notin {"connected", "exit", "exited"} \cup TouchBody \cup CtrlBody
      BY DEF CallBody, TouchBody, CtrlBody
    <2>3. "capture.decode" \in FreeWaits
      BY DEF FreeWaits
    <2> QED BY <1>1, <1>2, <1>3, <2>1, <2>2, <2>3, CallFree, ReturnPlain, Families, OrdinaryLabels
  <1>5. CASE CaptureDecode
    BY <1>5, <1>1, <1>3, ReturnPlain, OrdinaryLabels DEF CaptureDecode
  <1>6. CASE ScreencapUnknown
    BY <1>6, <1>1, JumpPlain, OrdinaryLabels, Families DEF ScreencapUnknown
  <1>7. CASE ScreencapKnown
    <2> DEFINE g == Frame("capture", CaptureCommand[method], Top.flag)
    <2>1. Top.at = "screencap" /\ stack # <<>> /\ Replace(g) /\ result' = result
          /\ method \in DOMAIN CaptureCommand
      BY <1>7 DEF ScreencapKnown, Capture
    <2>2. g \in Frames /\ g.at = "capture"
      BY <1>1, <1>2, <1>3, <2>1, FrameNew, OrdinaryLabels
    <2> HIDE DEF g
    <2>3. Follows(Top, g)
      BY <1>2, <2>1, <2>2, Families, KinFollows DEF CallBody, InputBody, CommitBody
    <2> QED BY <1>1, <2>1, <2>2, <2>3, ReplacePlain, OrdinaryLabels
  <1>8. CASE ScreencapExtras \/ ProbeEnd
    BY <1>8, <1>1, <1>3, ReturnPlain, OrdinaryLabels DEF ScreencapExtras, ProbeEnd
  <1>9. CASE Probe
    <2>1. Top.at = "probe" /\ stack # <<>>
          /\ (Again("probe") \/ Call(Capture(Ways[Top.n], Top.flag), "probe.done"))
          /\ Top.n <= Len(Ways)
      BY <1>9 DEF Probe
    <2>2. CASE Again("probe")
      BY <1>1, <2>1, <2>2, AgainPlain, OrdinaryLabels, Families
    <2>3. CASE Call(Capture(Ways[Top.n], Top.flag), "probe.done")
      <3>1. Top.n \in 1 .. 3
        <4>1. Top.n \in Nat /\ Top.n # 0 /\ Len(Ways) = 3
          BY <1>2, <2>1 DEF Frames, Ways
        <4> QED BY <2>1, <4>1
      <3>2. CaptureCommand[Ways[Top.n]] \in Words
        BY <1>3, <3>1 DEF Ways, CaptureCommand
      <3>3. "capture" \notin {"connected", "exit", "exited"} \cup TouchBody \cup CtrlBody
        BY DEF TouchBody, CtrlBody
      <3>4. "probe.done" \in FreeWaits
        BY DEF FreeWaits
      <3>5. Call(Frame("capture", CaptureCommand[Ways[Top.n]], Top.flag), "probe.done")
        BY <2>3 DEF Capture
      <3> QED BY <1>1, <1>2, <2>1, <3>2, <3>3, <3>4, <3>5, CallFree, Families
    <2> QED BY <2>1, <2>2, <2>3
  <1>10. CASE ProbeDone \/ ProbeExtras
    BY <1>10, <1>1, AgainPlain, OrdinaryLabels, Families DEF ProbeDone, ProbeExtras
  <1> QED BY <1>4, <1>5, <1>6, <1>7, <1>8, <1>9, <1>10

LEMMA LinkPlain ==
  ASSUME Typed,
         \/ ConnectStart \/ ConnectListed \/ ConnectConnected \/ ConnectQuery
         \/ ConnectAnswer \/ ConnectReady \/ ConnectServer \/ ConnectExtras \/ ConnectEnd
  PROVE  Plain
  <1>1. CallBody \cup LinkBody \subseteq Ordinary
    BY DEF Ordinary
  <1>2. stack # <<>> => /\ Top \in Frames /\ Top.n \in Nat /\ Top.n # 0
    BY TopFrame DEF Frames
  <1>3. "yes" \in Words /\ "no" \in Words
    BY DEF Words, Answers
  <1>4. "call" \in CallBody /\ "call" \notin {"connected", "exit", "exited"} \cup TouchBody \cup CtrlBody
    BY DEF CallBody, TouchBody, CtrlBody
  <1> USE DEF At, LinkBody
  <1>5. ASSUME NEW c \in Words, NEW b \in BOOLEAN, Top.at \in LinkBody, stack # <<>>,
               NEW l \in {"connect.listed", "connect.connected", "connect.answer", "connect.server"},
               Call(AdbCall(c, b), l)
        PROVE  Plain
    <2>1. Call(Frame("call", c, b), l)
      BY <1>5 DEF AdbCall
    <2>2. l \in FreeWaits /\ l \in LinkBody
      BY DEF FreeWaits
    <2> QED BY <1>1, <1>4, <1>5, <2>1, <2>2, CallFree, Families
  <1>6. CASE ConnectStart
    <2>1. /\ Top.at = "adb.connect" /\ stack # <<>>
          /\ Return("no") \/ Call(AdbCall("devices", FALSE), "connect.listed")
      BY <1>6 DEF ConnectStart
    <2>2. "devices" \in Words
      BY DEF Words, Commands
    <2> QED BY <1>1, <1>3, <1>5, <2>1, <2>2, ReturnPlain, OrdinaryLabels
  <1>7. CASE ConnectListed
    <2>1. /\ Top.at = "connect.listed" /\ stack # <<>>
          /\ Jump("connect.query") \/ Return("no") \/ Call(AdbCall("connect", FALSE), "connect.connected")
      BY <1>7 DEF ConnectListed
    <2>2. "connect" \in Words
      BY DEF Words, Commands
    <2> QED BY <1>1, <1>3, <1>5, <2>1, <2>2, ReturnPlain, JumpPlain, Families, OrdinaryLabels
  <1>8. CASE ConnectConnected
    BY <1>8, <1>1, <1>3, ReturnPlain, JumpPlain, Families, OrdinaryLabels DEF ConnectConnected
  <1>9. CASE ConnectQuery
    <2>1. /\ Top.at = "connect.query" /\ stack # <<>> /\ Top.n <= Len(Queries)
          /\ \/ Return("no") \/ Again("connect.query")
             \/ Call(AdbCall(Queries[Top.n], Queries[Top.n] # "uuid"), "connect.answer")
      BY <1>9 DEF ConnectQuery
    <2>2. Queries[Top.n] \in Words
      <3>1. Len(Queries) = 5 /\ \A i \in 1 .. 5 : Queries[i] \in Commands
        BY DEF Queries, Commands
      <3>2. Top.n \in 1 .. 5
        BY <1>2, <2>1, <3>1
      <3> QED BY <3>1, <3>2 DEF Words
    <2>3. (Queries[Top.n] # "uuid") \in BOOLEAN
      OBVIOUS
    <2> QED BY <1>1, <1>3, <1>5, <2>1, <2>2, <2>3, ReturnPlain, AgainPlain, Families, OrdinaryLabels
  <1>10. CASE ConnectAnswer
    BY <1>10, <1>1, <1>3, ReturnPlain, AgainPlain, Families, OrdinaryLabels DEF ConnectAnswer
  <1>11. CASE ConnectReady
    <2>1. /\ Top.at = "connect.query" /\ stack # <<>>
          /\ \/ Return("no") \/ Jump("connect.extras")
             \/ Call(AdbCall("nc_address", TRUE), "connect.server")
      BY <1>11 DEF ConnectReady
    <2>2. "nc_address" \in Words
      BY DEF Words, Commands
    <2> QED BY <1>1, <1>3, <1>5, <2>1, <2>2, ReturnPlain, JumpPlain, Families, OrdinaryLabels
  <1>12. CASE ConnectServer
    BY <1>12, <1>1, JumpPlain, Families, OrdinaryLabels DEF ConnectServer
  <1>13. CASE ConnectExtras
    BY <1>13, <1>1, <1>3, ReturnPlain, JumpPlain, Families, OrdinaryLabels DEF ConnectExtras
  <1>14. CASE ConnectEnd
    BY <1>14, <1>1, <1>3, ReturnPlain, OrdinaryLabels DEF ConnectEnd
  <1> QED BY <1>6, <1>7, <1>8, <1>9, <1>10, <1>11, <1>12, <1>13, <1>14

LEMMA PlayPlain ==
  ASSUME Typed,
         \/ PlayOpen \/ PlayAsk \/ PlayOpened \/ PlayConnect \/ PlayShot \/ PlayRead
         \/ PlayCommand \/ PlayEsc
  PROVE  Plain
  <1>1. OpenBody \cup PlayCalls \subseteq Ordinary
    BY DEF Ordinary
  <1>2. stack # <<>> => Top \in Frames
    BY TopFrame
  <1>3. {"yes", "no", ""} \subseteq Words
    BY DEF Words, Answers, Commands
  <1>4. "play.open" \notin {"connected", "exit", "exited"} \cup TouchBody \cup CtrlBody
    BY DEF TouchBody, CtrlBody
  <1> USE DEF At, OpenBody, PlayCalls
  <1>5. CASE PlayOpen
    BY <1>5, <1>1, <1>3, ReturnPlain, JumpPlain, Families, OrdinaryLabels DEF PlayOpen
  <1>6. CASE PlayAsk
    BY <1>6, <1>1, <1>3, ReturnPlain, AgainPlain, Families, OrdinaryLabels DEF PlayAsk
  <1>7. CASE PlayOpened \/ PlayRead \/ PlayCommand \/ PlayEsc
    BY <1>7, <1>1, <1>3, ReturnPlain, OrdinaryLabels DEF PlayOpened, PlayRead, PlayCommand, PlayEsc
  <1>8. CASE PlayConnect
    <2>1. Top.at = "play.connect" /\ stack # <<>> /\ Replace(Open) /\ result' = result
      BY <1>8 DEF PlayConnect
    <2>2. Open \in Frames /\ Open.at = "play.open"
      BY <1>1, <1>3, FrameNew, OrdinaryLabels DEF Open
    <2>3. Follows(Top, Open)
      BY <1>2, <2>1, <2>2, Families, KinFollows DEF InputBody, CommitBody
    <2> QED BY <1>1, <2>1, <2>2, <2>3, ReplacePlain, OrdinaryLabels
  <1>9. CASE PlayShot
    <2>1. Top.at = "play.shot" /\ stack # <<>>
      BY <1>9 DEF PlayShot
    <2>2. \/ Return("yes") \/ Return("no")
          \/ Call(Frame("play.open", "", FALSE), "play.read")
      BY <1>9 DEF PlayShot, Open
    <2>3. "play.read" \in FreeWaits
      BY DEF FreeWaits
    <2> QED BY <1>1, <1>3, <1>4, <2>1, <2>2, <2>3, CallFree, ReturnPlain, Families, OrdinaryLabels
  <1> QED BY <1>5, <1>6, <1>7, <1>8, <1>9

LEMMA UnitPlain ==
  ASSUME Typed, UnitStep, ~(UnitWhole \/ UnitTouch \/ UnitLift)
  PROVE  Plain
  <1>1. UnitCalls \subseteq Ordinary
    BY DEF Ordinary
  <1>2. "yes" \in Words /\ "no" \in Words
    BY DEF Words, Answers
  <1>3. \A v : Asks(v) => v \in Words
    BY <1>2 DEF Asks
  <1> USE DEF At, UnitCalls
  <1>4. CASE AdbUnitConnect \/ Attach32 \/ NativeConnect
    BY <1>4, <1>1, JumpPlain, Families, OrdinaryLabels DEF AdbUnitConnect, Attach32, NativeConnect
  <1>5. CASE AdbLibrary \/ Win32Library \/ NativeLibrary
    BY <1>5, <1>1, <1>2, ReturnPlain, JumpPlain, Families, OrdinaryLabels
    DEF AdbLibrary, Win32Library, NativeLibrary
  <1>6. CASE NativeConfigure \/ UnitCreate \/ UnitLink
    BY <1>6, <1>1, <1>2, ReturnPlain, JumpPlain, Families, OrdinaryLabels
    DEF NativeConfigure, UnitCreate, UnitLink
  <1>7. CASE AdbUnitLook \/ Win32Look \/ NativeReady
    BY <1>7, <1>1, <1>2, ReturnPlain, OrdinaryLabels DEF AdbUnitLook, Win32Look, NativeReady
  <1>8. CASE AdbUnitShot \/ Win32Shot \/ NativeShot
    BY <1>8, <1>1, <1>3, ReturnPlain, OrdinaryLabels DEF AdbUnitShot, Win32Shot, NativeShot
  <1>9. CASE AdbUnitInject \/ Win32Inject \/ NativeInject
    BY <1>9, <1>1, <1>2, <1>3, ReturnPlain, OrdinaryLabels DEF AdbUnitInject, Win32Inject, NativeInject
  <1>10. CASE AdbUnitCommand \/ AdbUnitEsc \/ NativeCommand \/ Win32Input
    BY <1>10, <1>1, <1>3, ReturnPlain, OrdinaryLabels
    DEF AdbUnitCommand, AdbUnitEsc, NativeCommand, Win32Input
  <1>11. CASE NativeEsc \/ Win32Esc \/ StopWindow \/ StopProcess
    BY <1>11, <1>1, <1>2, ReturnPlain, JumpPlain, Families, OrdinaryLabels
    DEF NativeEsc, Win32Esc, StopWindow, StopProcess
  <1>12. CASE KeyUp \/ Win32Start \/ StopByForce
    BY <1>12, <1>1, <1>2, ReturnPlain, OrdinaryLabels DEF KeyUp, Win32Start, StopByForce
  <1> QED BY <1>4, <1>5, <1>6, <1>7, <1>8, <1>9, <1>10, <1>11, <1>12 DEF UnitStep

LEMMA TouchPlain ==
  ASSUME Typed,
         \/ TouchReconnectOk \/ TouchReconnectHup \/ TouchConnect \/ TouchConnected
         \/ TouchProbe \/ TouchProbed \/ TouchReady
  PROVE  Plain
  <1>1. CallBody \cup TouchBody \cup LinkBody \subseteq Ordinary
    BY DEF Ordinary
  <1>2. stack # <<>> => Top \in Frames /\ Top.cmd \in Words /\ Top.n \in Nat /\ Top.n # 0
    BY TopFrame DEF Frames
  <1>3. {"yes", "no", ""} \subseteq Words /\ result \in Words
    BY DEF Words, Answers, Commands, Typed
  <1>4. Hup \in Frames /\ Hup.at = "hup" /\ Hup.at \notin Special
    <2>1. "hup" \in Labels
      BY DEF Labels, HupBody
    <2> QED BY <1>3, <2>1, FrameNew DEF Hup, Special, InputBody, GestureBody, InjectBody, PlayBody,
          CommitBody, UnitBody
  <1>5. \A l \in HupWaits : Serves(l, Hup)
    BY <1>4 DEF Serves, Waits, HupWaits, HupBody, Outermost,
                  Gesturing, GestureBody, PlayBody, UnitBody, InjectBody, InputBody, CommitBody,
                TouchBody, CtrlBody
  <1> USE DEF At, TouchBody
  <1>6. CASE TouchReconnectOk
    <2>1. Top.at = "reconnect.ok" /\ stack # <<>> /\ (Return(Top.cmd) \/ Call(Hup, "reconnect.hup"))
      BY <1>6 DEF TouchReconnectOk
    <2>2. {"reconnect.ok", "reconnect.hup"} \subseteq CallBody \ {"call", "call.done"}
      BY DEF CallBody
    <2>3. "reconnect.hup" \in HupWaits
      BY DEF HupWaits
    <2>4. Kin("reconnect.ok", "reconnect.hup")
      BY <2>2, Families
    <2>5. CASE Return(Top.cmd)
      BY <1>1, <1>2, <2>1, <2>2, <2>5, ReturnPlain, OrdinaryLabels
    <2>6. CASE Call(Hup, "reconnect.hup")
      BY <1>1, <1>4, <1>5, <2>1, <2>2, <2>3, <2>4, <2>6, CallPlain, OrdinaryLabels
    <2> QED BY <2>1, <2>5, <2>6
  <1>7. CASE TouchReconnectHup
    BY <1>7, <1>1, <1>2, ReturnPlain, OrdinaryLabels DEF TouchReconnectHup, CallBody
  <1>8. CASE TouchConnect
    <2>1. Top.at = "touch.connect" /\ stack # <<>>
          /\ Call(Frame("adb.connect", "", FALSE), "touch.connected")
      BY <1>8 DEF TouchConnect
    <2>2. "adb.connect" \in LinkBody \ ({"connected", "exit", "exited"} \cup TouchBody \cup CtrlBody)
      BY DEF LinkBody, CtrlBody
    <2>3. "touch.connected" \in FreeWaits
      BY DEF FreeWaits
    <2> QED BY <1>1, <1>3, <2>1, <2>2, <2>3, CallFree, Families
  <1>9. CASE TouchConnected
    BY <1>9, <1>1, <1>3, ReturnPlain, JumpPlain, Families, OrdinaryLabels DEF TouchConnected
  <1>10. CASE TouchProbe
    <2>1. Top.at = "touch.probe" /\ stack # <<>>
          /\ \/ /\ Top.n <= Len(Installation)
                /\ Call(AdbCall(Installation[Top.n], TRUE), "touch.probed")
             \/ Call(Hup, "touch.ready")
      BY <1>10 DEF TouchProbe
    <2>2. CASE Call(Hup, "touch.ready")
      <3>1. "touch.ready" \in HupWaits
        BY DEF HupWaits
      <3> QED BY <1>1, <1>4, <1>5, <2>1, <2>2, <3>1, CallPlain, OrdinaryLabels, Families
    <2>3. CASE Top.n <= Len(Installation) /\ Call(AdbCall(Installation[Top.n], TRUE), "touch.probed")
      <3>1. Len(Installation) \in Nat /\ \A i \in 1 .. Len(Installation) : Installation[i] \in Commands
        <4>1. CASE touch = "minitouch"
          <5>1. Installation = <<"abilist", "orientation", "push", "chmod">>
            BY <4>1 DEF Installation
          <5>2. Len(Installation) = 4 /\ \A i \in 1 .. 4 : Installation[i] \in Commands
            BY <5>1 DEF Commands
          <5> QED BY <5>2
        <4>2. CASE touch # "minitouch"
          <5>1. Installation = <<"push", "chmod">>
            BY <4>2 DEF Installation
          <5>2. Len(Installation) = 2 /\ \A i \in 1 .. 2 : Installation[i] \in Commands
            BY <5>1 DEF Commands
          <5> QED BY <5>2
        <4> QED BY <4>1, <4>2
      <3>2. Installation[Top.n] \in Words
        BY <1>2, <2>1, <2>3, <3>1 DEF Words
      <3>3. "call" \in CallBody \ ({"connected", "exit", "exited"} \cup TouchBody \cup CtrlBody)
        BY DEF CallBody, CtrlBody
      <3>4. "touch.probed" \in FreeWaits
        BY DEF FreeWaits
      <3>5. Call(Frame("call", Installation[Top.n], TRUE), "touch.probed")
        BY <2>3 DEF AdbCall
      <3> QED BY <1>1, <2>1, <3>2, <3>3, <3>4, <3>5, CallFree, Families
    <2> QED BY <2>1, <2>2, <2>3
  <1>11. CASE TouchProbed
    <2>1. Top.at = "touch.probed" /\ stack # <<>>
      BY <1>11 DEF TouchProbed
    <2>2. CASE Again("touch.probe") \/ Return("no")
      BY <1>1, <1>3, <2>1, <2>2, ReturnPlain, AgainPlain, Families, OrdinaryLabels
    <2>3. ASSUME NEW b \in BOOLEAN, NEW f, f = [Top EXCEPT !.at = "touch.probe", !.n = @ + 1, !.flag = b],
                 Replace(f), result' = result
          PROVE  Plain
      <3>1. Top \in Frames /\ "touch.probe" \in Labels
        BY <2>1, TopFrame DEF Labels
      <3>6. f = [at |-> "touch.probe", cmd |-> Top.cmd, flag |-> b, n |-> Top.n + 1]
        BY <2>3, <3>1 DEF Frames
      <3>7. Top.cmd \in Words /\ Top.n + 1 \in Nat \ {0}
        BY <3>1 DEF Frames
      <3>2. f \in Frames /\ f.at = "touch.probe" /\ f.cmd = Top.cmd
        BY <3>1, <3>6, <3>7 DEF Frames
      <3>3. Kin(Top.at, f.at) /\ Top.at \notin {"call", "call.done"} \cup InputBody \cup CommitBody
        BY <2>1, <3>2, Families DEF InputBody, CommitBody
      <3>4. Follows(Top, f)
        BY <3>1, <3>2, <3>3, KinFollows
      <3>5. f.at \notin Special /\ Top.at \notin Special \cup {"hup"}
        BY <2>1, <3>2, OrdinaryLabels DEF Ordinary
      <3> QED BY <2>1, <2>3, <3>2, <3>4, <3>5, ReplacePlain
    <2> QED BY <1>11, <2>2, <2>3 DEF TouchProbed
  <1>12. CASE TouchReady
    BY <1>12, <1>1, <1>3, ReturnPlain, OrdinaryLabels DEF TouchReady
  <1> QED BY <1>6, <1>7, <1>8, <1>9, <1>10, <1>11, <1>12

LEMMA DestroyedPlain ==
  ASSUME Typed, stack # <<>>, NEW l, Destroyed(l),
         \/ Top.at = "ctrl.connect" /\ l = "ctrl.create"
         \/ Top.at = "ctrl.connected" /\ l = "ctrl.failed"
         \/ Top.at = "exit" /\ l = "exited"
  PROVE  Plain /\ finger' \in {finger, "up"} /\ deref' = deref
  <1>1. {Top.at, l} \cup ReleaseBody \subseteq Ordinary
    BY DEF Ordinary, CtrlBody, ClientBody
  <1>2. "" \in Words
    BY DEF Words, Commands
  <1>3. Kin(Top.at, l)
    <2>1. Kin("exit", "exited")
      BY DEF Kin, IOBody, ReleaseBody, HupBody, InputBody, CommandBody, CommitBody, TouchBody,
             CtrlBody, Outermost, Gesturing, GestureBody, PlayBody, UnitBody, InjectBody
    <2> QED BY <2>1, Families DEF CtrlBody
  <1>4. "release" \in ReleaseBody \ ({"connected", "exit", "exited"} \cup TouchBody \cup CtrlBody)
    BY DEF ReleaseBody, TouchBody, CtrlBody
  <1>5. l \in FreeWaits
    BY DEF FreeWaits
  <1>6. Call(Frame("release", "", FALSE), l) \/ Jump(l)
    BY DEF Destroyed
  <1>7. Plain
    BY <1>1, <1>2, <1>3, <1>4, <1>5, <1>6, CallFree, JumpPlain, OrdinaryLabels
  <1>8. deref' = deref
    BY DEF Destroyed
  <1>9. finger' \in {finger, "up"}
    BY DEF Destroyed
  <1> QED BY <1>7, <1>8, <1>9

LEMMA CtrlPlain ==
  ASSUME Typed,
         \/ CtrlConnect \/ CtrlCreate \/ CtrlConnected \/ CtrlFailed \/ CtrlLooked
         \/ WindowLooked \/ CtrlScale \/ WindowScale \/ ImageTry \/ ImageTaken \/ ImageLast
         \/ ExitDestroy
  PROVE  Plain /\ finger' \in {finger, "up"} /\ deref' = deref
  <1>1. CtrlBody \cup ClientBody \cup ShotBody \cup PlayCalls \cup UnitCalls \cup LinkBody \cup TouchBody \subseteq Ordinary
    BY DEF Ordinary
  <1>3. {"yes", "no", "", "void"} \subseteq Words
    BY DEF Words, Answers, Commands
  <1>4. \A b \in BOOLEAN : \E e \in {"screencap", "play.shot", "unit.shot"} : Shot(b) = Frame(e, "", b)
    <2> SUFFICES ASSUME NEW b \in BOOLEAN
                 PROVE  \E e \in {"screencap", "play.shot", "unit.shot"} : Shot(b) = Frame(e, "", b)
      OBVIOUS
    <2>1. CASE object \in AdbFamily
      BY <2>1 DEF Shot, AdbFamily
    <2>2. CASE object = "MacPlayTools"
      BY <2>2 DEF Shot, AdbFamily
    <2>3. CASE object \notin AdbFamily /\ object # "MacPlayTools"
      BY <2>3 DEF Shot
    <2> QED BY <2>1, <2>2, <2>3
  <1>5. \A e \in {"screencap", "play.shot", "unit.shot", "adb.connect", "play.connect", "unit.connect"} :
          e \in Ordinary \ ({"connected", "exit", "exited"} \cup TouchBody \cup CtrlBody)
    <2>1. \A e \in {"screencap", "play.shot", "unit.shot", "adb.connect", "play.connect", "unit.connect"} :
          e \in ShotBody \cup PlayCalls \cup UnitCalls \cup LinkBody \cup OpenBody
      BY DEF ShotBody, PlayCalls, UnitCalls, LinkBody, OpenBody
    <2>2. OpenBody \subseteq Ordinary
      BY DEF Ordinary
    <2>3. \A e \in {"screencap", "play.shot", "unit.shot", "adb.connect", "play.connect", "unit.connect"} :
          e \notin {"connected", "exit", "exited"} \cup TouchBody \cup CtrlBody
      BY DEF TouchBody, CtrlBody
    <2> QED BY <1>1, <2>1, <2>2, <2>3
  <1>6. {"ctrl.looked", "image.taken", "image.last"} \subseteq FreeWaits
    BY DEF FreeWaits
  <1>7. ASSUME NEW b \in BOOLEAN, NEW l \in {"ctrl.looked", "image.taken", "image.last"},
               stack # <<>>, Top.at \in CtrlBody \cup ClientBody, Kin(Top.at, l), Call(Shot(b), l)
        PROVE  Plain
    <2>1. PICK e \in {"screencap", "play.shot", "unit.shot"} : Shot(b) = Frame(e, "", b)
      BY <1>4
    <2>2. Call(Frame(e, "", b), l)
      BY <1>7, <2>1
    <2>3. l \in Ordinary
      BY <1>1 DEF CtrlBody, ClientBody
    <2> QED BY <1>1, <1>3, <1>5, <1>6, <1>7, <2>2, <2>3, CallFree
  <1>8. CASE CtrlConnect
    BY <1>8, DestroyedPlain DEF CtrlConnect, At
  <1>9. CASE ExitDestroy
    BY <1>9, DestroyedPlain DEF ExitDestroy, At
  <1>10. CASE CtrlCreate
    <2>1. Top.at = "ctrl.create" /\ stack # <<>> /\ finger' = finger
      BY <1>10 DEF CtrlCreate, At
    <2>2. deref' = deref
      BY <1>10 DEF CtrlCreate, Construct, NewTouch, others, touchVars
    <2>3. \/ Return("no")
          \/ \E e \in {"touch.connect", "adb.connect", "play.connect", "unit.connect"} :
               Call(Frame(e, "", FALSE), "ctrl.connected")
      BY <1>10 DEF CtrlCreate
    <2>4. CASE Return("no")
      BY <1>1, <1>3, <2>1, <2>2, <2>4, ReturnPlain, OrdinaryLabels DEF CtrlBody
    <2>5. ASSUME NEW e \in {"touch.connect", "adb.connect", "play.connect", "unit.connect"},
                 Call(Frame(e, "", FALSE), "ctrl.connected")
          PROVE  Plain
      <3> DEFINE g == Frame(e, "", FALSE)
      <3>1. e \in Ordinary /\ e \notin {"connected", "exit", "exited"} \cup CtrlBody
        <4>1. "touch.connect" \in TouchBody /\ "touch.connect" \notin CtrlBody
          BY DEF TouchBody, CtrlBody
        <4> QED BY <1>1, <1>5, <4>1
      <3>2. g \in Frames /\ g.at = e
        BY <1>3, <3>1, FrameNew, OrdinaryLabels
      <3>3. Call(g, "ctrl.connected")
        BY <2>5
      <3>4. e \notin Outermost \cup InputBody \cup CommitBody /\ e \notin Special
        BY <3>1, OrdinaryLabels DEF Outermost, Gesturing, Special
      <3> HIDE DEF g
      <3>5. Serves("ctrl.connected", g)
        BY <3>1, <3>2, <3>4 DEF Serves, Waits, HupWaits
      <3>6. Kin("ctrl.create", "ctrl.connected") /\ "ctrl.connected" \in CtrlBody
            /\ "ctrl.create" \in CtrlBody
        BY Families DEF CtrlBody
      <3> QED BY <1>1, <2>1, <3>2, <3>3, <3>4, <3>5, <3>6, CallPlain, OrdinaryLabels
    <2> QED BY <2>1, <2>2, <2>3, <2>4, <2>5
  <1> USE DEF At
  <1>11. CASE CtrlConnected
    <2>1. Top.at = "ctrl.connected" /\ stack # <<>>
      BY <1>11 DEF CtrlConnected
    <2>2. \/ Destroyed("ctrl.failed")
          \/ Jump("ctrl.scale") /\ UNCHANGED <<finger, deref>>
          \/ Call(Shot(FALSE), "ctrl.looked") /\ UNCHANGED <<finger, deref>>
      BY <1>11 DEF CtrlConnected, others, touchVars
    <2>3. CASE Destroyed("ctrl.failed")
      BY <2>1, <2>3, DestroyedPlain
    <2>6. {"ctrl.connected", "ctrl.scale", "ctrl.looked"} \subseteq CtrlBody
      BY DEF CtrlBody
    <2>4. CASE Jump("ctrl.scale") /\ UNCHANGED <<finger, deref>>
      <3>1. Plain
        BY <1>1, <2>1, <2>4, <2>6, JumpPlain, Families, OrdinaryLabels
      <3> QED BY <2>4, <3>1
    <2>5. CASE Call(Shot(FALSE), "ctrl.looked") /\ UNCHANGED <<finger, deref>>
      <3>1. Plain
        BY <1>7, <2>1, <2>5, <2>6, Families
      <3> QED BY <2>5, <3>1
    <2> QED BY <2>2, <2>3, <2>4, <2>5
  <1>12. CASE CtrlFailed \/ CtrlLooked \/ WindowLooked
    <2>1. UNCHANGED <<finger, deref>>
      BY <1>12 DEF CtrlFailed, CtrlLooked, WindowLooked, others, touchVars
    <2>2. Plain
      BY <1>1, <1>3, <1>12, ReturnPlain, JumpPlain, Families, OrdinaryLabels
      DEF CtrlFailed, CtrlLooked, WindowLooked, CtrlBody
    <2> QED BY <2>1, <2>2
  <1>13. CASE CtrlScale \/ WindowScale
    <2>1. UNCHANGED <<finger, deref>>
      BY <1>13 DEF CtrlScale, WindowScale, others, touchVars
    <2>2. (Return("yes") \/ Return("no")) /\ stack # <<>> /\ Top.at = "ctrl.scale"
      BY <1>13 DEF CtrlScale, WindowScale
    <2>3. Plain
      BY <1>1, <1>3, <2>2, ReturnPlain, OrdinaryLabels DEF CtrlBody
    <2> QED BY <2>1, <2>3
  <1>14. CASE ImageTry
    <2>1. Top.at = "image" /\ stack # <<>> /\ UNCHANGED <<finger, deref>>
      BY <1>14 DEF ImageTry, others, touchVars
    <2>2. \/ Return("void")
          \/ Call(Shot(FALSE), "image.taken")
          \/ Call(Shot(TRUE), "image.last")
      BY <1>14 DEF ImageTry
    <2>3. CASE Return("void")
      BY <1>1, <1>3, <2>1, <2>3, ReturnPlain, OrdinaryLabels DEF ClientBody
    <2>4. CASE Call(Shot(FALSE), "image.taken")
      BY <1>7, <2>1, <2>4, Families DEF ClientBody
    <2>5. CASE Call(Shot(TRUE), "image.last")
      BY <1>7, <2>1, <2>5, Families DEF ClientBody
    <2> QED BY <2>1, <2>2, <2>3, <2>4, <2>5
  <1>15. CASE ImageTaken \/ ImageLast
    <2>1. UNCHANGED <<finger, deref>>
      BY <1>15 DEF ImageTaken, ImageLast, others, touchVars
    <2>2. Plain
      BY <1>1, <1>3, <1>15, ReturnPlain, AgainPlain, Families, OrdinaryLabels
      DEF ImageTaken, ImageLast, ClientBody
    <2> QED BY <2>1, <2>2
  <1> QED BY <1>8, <1>9, <1>10, <1>11, <1>12, <1>13, <1>14, <1>15

-----------------------------------------------------------------------------
(* The inductive invariant.                                                        *)

\* A gesture in progress is one that there is, and not past its end.
BottomInv ==
  stack # <<>> =>
    /\ Bottom.at \in GestureBody => Bottom.cmd \in DOMAIN Gestures
    /\ Bottom.at \in {"gesture", "gesture.started"} => Bottom.n = 1
    /\ Bottom.at = "gesture.sent" => Bottom.n <= Len(Gestures[Bottom.cmd])
    /\ Bottom.at \in PlayBody => Bottom.cmd \in DOMAIN PlayGestures
    /\ Bottom.at = "play.touched" => Bottom.n <= Len(PlayGestures[Bottom.cmd])
    /\ Bottom.at \notin CommitBody
    /\ Bottom.at \in InputBody => Bottom.flag
    /\ Bottom.at \in UnitBody => Bottom.cmd \in DOMAIN UnitGestures
    /\ Bottom.at = "unit.gesture" => Bottom.n <= Len(UnitGestures[Bottom.cmd])

\* The toucher is there whenever it is used, unless a pause lost it.
TouchInv ==
  /\ At("input") => toucher
  /\ (At("input.rewrite") \/ At("gesture.started") \/ At("inject.started")) /\ result = "yes" =>
       toucher
  /\ At("gesture.next") /\ Top.cmd # "pause" => toucher \/ (Top.cmd = "late" /\ Top.n > 5)
  /\ At("gesture.sent") /\ Top.cmd # "pause" /\ result = "yes" =>
       toucher \/ (Top.cmd = "late" /\ Top.n = 5)
  /\ deref # "none" => stack = <<>>
  /\ NullUse

\* A finger is down only in a gesture that has begun and has not come to its lift.
DownInv ==
  /\ stack # <<>>
  /\ Bottom.at \in {"gesture.next", "gesture.sent"} \cup PlayBody \cup UnitBody
  /\ Bottom.at \in GestureBody => toucher /\ Bottom.n <= UpAt(touch, Bottom.cmd)
  /\ At("gesture.sent") =>
       Top.n < UpAt(touch, Top.cmd) /\ (result = "yes" \/ Gestures[Top.cmd][Top.n] \in Discarded)
  /\ Bottom.at \in PlayBody => Bottom.n <= PlayUpAt(Bottom.cmd)
  /\ Bottom.at \in PlayBody /\ ~At("play.touched") => Bottom.n >= 2
  /\ At("play.touched") => Top.n < PlayUpAt(Top.cmd) /\ ~(Top.cmd = "click" /\ result = "no")
  /\ Bottom.at = "unit.gesture" => Bottom.n >= 2
  /\ Bottom.at \in UnitBody => unit # "none" /\ kind # "MaaFwAdb"
FingerInv ==
  /\ At("hup.read") \/ At("hup.reading") \/ At("hup.props") \/ At("input.rewrite") => finger = "up"
  /\ finger = "down" => DownInv

CallsInv == Typed /\ Legal /\ BottomInv /\ TouchInv /\ FingerInv

\* What waits is called by nothing that is outermost.
LEMMA StackFacts ==
  ASSUME Typed, Legal, stack # <<>>
  PROVE  /\ Len(stack) \in Nat \ {0} /\ Bottom \in Frames /\ Top = stack[1] /\ Top \in Frames
         /\ \A i \in 1 .. Len(stack) : stack[i] \in Frames
         /\ \A i \in 1 .. Len(stack) - 1 : stack[i].at \notin Outermost /\ stack[i + 1].at \in Waits
         /\ Len(stack) > 1 => Bottom.at \in Waits /\ Top.at \notin Outermost
         /\ Len(stack) = 1 => Bottom = Top /\ Tail(stack) = <<>>
         /\ Len(stack) = 1 \/ Len(stack) > 1
  <1>6. \A n \in Nat : n # 0 => n = 1 \/ n > 1
    OBVIOUS
  <1>1. Len(stack) \in Nat \ {0} /\ Top = stack[1] /\ \A i \in 1 .. Len(stack) : stack[i] \in Frames
    BY DEF Typed, Top
  <1>2. \A i \in 1 .. Len(stack) - 1 : stack[i].at \notin Outermost /\ stack[i + 1].at \in Waits
    BY DEF Legal, Allowed, Serves
  <1>3. Bottom \in Frames /\ Top \in Frames
    BY <1>1 DEF Bottom
  <1>4. Len(stack) > 1 => Bottom.at \in Waits /\ Top.at \notin Outermost
    <2> SUFFICES ASSUME Len(stack) > 1 PROVE Bottom.at \in Waits /\ Top.at \notin Outermost
      OBVIOUS
    <2>1. Len(stack) - 1 \in 1 .. Len(stack) - 1 /\ 1 \in 1 .. Len(stack) - 1
          /\ Len(stack) - 1 + 1 = Len(stack)
      BY <1>1
    <2> QED BY <1>1, <1>2, <2>1 DEF Bottom
  <1>5. Len(stack) = 1 => Bottom = Top /\ Tail(stack) = <<>>
    <2>1. Len(stack) = 1 => Bottom = Top
      BY <1>1 DEF Bottom
    <2>3. Len(stack) = 1 => Tail(stack) = <<>>
      BY TailOfOne DEF Typed
    <2> QED BY <2>1, <2>3
  <1>7. Len(stack) = 1 \/ Len(stack) > 1
    BY <1>1, <1>6
  <1> QED BY <1>1, <1>2, <1>3, <1>4, <1>5, <1>7

\* What a step does to the stack.
LEMMA PopShape ==
  ASSUME Typed, stack # <<>>, Pop
  PROVE  /\ stack' \in Seq(Frames) /\ Len(stack') = Len(stack) - 1
         /\ \A i \in 1 .. Len(stack) - 1 : stack'[i] = stack[i + 1]
         /\ Len(stack) > 1 => stack' # <<>> /\ Bottom' = Bottom /\ Top' = stack[2]
         /\ Len(stack) = 1 => stack' = <<>>
  <1>1. /\ stack' \in Seq(Frames) /\ Len(stack') = Len(stack) - 1
        /\ \A i \in 1 .. Len(stack) - 1 : stack'[i] = stack[i + 1]
        /\ Len(stack) \in Nat /\ Len(stack) > 0
    BY Popped DEF Typed, Pop
  <1>2. Len(stack) > 1 => stack' # <<>> /\ Bottom' = Bottom /\ Top' = stack[2]
    <2> SUFFICES ASSUME Len(stack) > 1 PROVE stack' # <<>> /\ Bottom' = Bottom /\ Top' = stack[2]
      OBVIOUS
    <2>1. Len(stack') \in 1 .. Len(stack) - 1 /\ Len(stack') + 1 = Len(stack)
          /\ 1 \in 1 .. Len(stack) - 1 /\ Len(<<>>) = 0
      BY <1>1
    <2>2. stack'[Len(stack')] = stack[Len(stack)] /\ stack'[1] = stack[2]
      BY <1>1, <2>1
    <2>3. stack' # <<>>
      BY <2>1
    <2> QED BY <1>1, <2>2, <2>3 DEF Bottom, Top
  <1>3. Len(stack) = 1 => stack' = <<>>
    BY <1>1
  <1> QED BY <1>1, <1>2, <1>3

LEMMA ReplaceShape ==
  ASSUME Typed, stack # <<>>, NEW f \in Frames, stack' = <<f>> \o Tail(stack)
  PROVE  /\ stack' \in Seq(Frames) /\ Len(stack') = Len(stack) /\ stack' # <<>> /\ Top' = f
         /\ \A i \in 2 .. Len(stack) : stack'[i] = stack[i]
         /\ Len(stack) > 1 => Bottom' = Bottom
         /\ Len(stack) = 1 => Bottom' = f
  <1>1. /\ stack' \in Seq(Frames) /\ Len(stack') = Len(stack) /\ stack'[1] = f /\ stack' # <<>>
        /\ \A i \in 2 .. Len(stack) : stack'[i] = stack[i]
        /\ Len(stack) \in Nat /\ Len(stack) > 0
    BY Replaced, Popped DEF Typed
  <1>2. Top' = f
    BY <1>1 DEF Top
  <1>3. Len(stack) > 1 => Bottom' = Bottom
    BY <1>1 DEF Bottom
  <1>4. Len(stack) = 1 => Bottom' = f
    BY <1>1 DEF Bottom
  <1> QED BY <1>1, <1>2, <1>3, <1>4

LEMMA EnterShape ==
  ASSUME Typed, stack # <<>>, NEW f \in Frames, NEW g \in Frames, stack' = <<g, f>> \o Tail(stack)
  PROVE  /\ stack' \in Seq(Frames) /\ Len(stack') = Len(stack) + 1 /\ stack' # <<>> /\ Top' = g
         /\ stack'[1] = g /\ stack'[2] = f
         /\ \A i \in 3 .. Len(stack) + 1 : stack'[i] = stack[i - 1]
         /\ Len(stack) > 1 => Bottom' = Bottom
         /\ Len(stack) = 1 => Bottom' = f
  <1>1. /\ stack' \in Seq(Frames) /\ Len(stack') = Len(stack) + 1 /\ stack'[1] = g /\ stack' # <<>>
        /\ stack'[2] = f
        /\ \A i \in 3 .. Len(stack) + 1 : stack'[i] = stack[i - 1]
        /\ Len(stack) \in Nat /\ Len(stack) > 0
    BY Entered, Popped DEF Typed
  <1>2. Top' = g
    BY <1>1 DEF Top
  <1>3. Len(stack) > 1 => Bottom' = Bottom
    BY <1>1 DEF Bottom
  <1>4. Len(stack) = 1 => Bottom' = f
    BY <1>1 DEF Bottom
  <1> QED BY <1>1, <1>2, <1>3, <1>4

-----------------------------------------------------------------------------
(* Steps that leave the gestures alone.                                            *)

\* Only a gesture has to do with which program the touches go through.
SameGestures == touch' = touch \/ \A i \in 1 .. Len(stack) : stack[i].at # "gesture.sent"

LEMMA AllowedAnyway ==
  ASSUME NEW t, NEW u, NEW b, NEW a, Allowed(t, b, a), u = t \/ b.at # "gesture.sent"
  PROVE  Allowed(u, b, a)
  BY DEF Allowed

LEMMA PopLegal ==
  ASSUME Typed, Legal, stack # <<>>, Pop, SameGestures
  PROVE  Legal'
  <1> SUFFICES ASSUME NEW i \in 1 .. Len(stack') - 1
               PROVE  Allowed(touch', stack'[i + 1], stack'[i])
    BY DEF Legal
  <1>1. i + 1 \in 1 .. Len(stack) - 1 /\ i \in 1 .. Len(stack) - 1 /\ i + 2 \in 1 .. Len(stack)
        /\ i + 1 + 1 = i + 2
    BY PopShape, StackFacts
  <1>2. stack'[i] = stack[i + 1] /\ stack'[i + 1] = stack[i + 2]
    BY <1>1, PopShape
  <1>3. Allowed(touch, stack[i + 2], stack[i + 1])
    BY <1>1 DEF Legal
  <1>4. touch' = touch \/ stack[i + 2].at # "gesture.sent"
    BY <1>1 DEF SameGestures
  <1>5. Allowed(touch', stack[i + 2], stack[i + 1])
    BY <1>3, <1>4, AllowedAnyway
  <1> QED BY <1>2, <1>5

LEMMA ReplaceLegal ==
  ASSUME Typed, Legal, stack # <<>>, NEW f \in Frames, stack' = <<f>> \o Tail(stack),
         Len(stack) > 1 => Follows(Top, f), SameGestures
  PROVE  Legal'
  <1> SUFFICES ASSUME NEW i \in 1 .. Len(stack') - 1
               PROVE  Allowed(touch', stack'[i + 1], stack'[i])
    BY DEF Legal
  <1>1. i \in 1 .. Len(stack) - 1 /\ i + 1 \in 2 .. Len(stack) /\ i + 1 \in 1 .. Len(stack)
        /\ (i # 1 => i \in 2 .. Len(stack)) /\ Len(stack) > 1
    BY ReplaceShape, StackFacts
  <1>2. stack'[i + 1] = stack[i + 1] /\ stack[i + 1] \in Frames
    BY <1>1, ReplaceShape, StackFacts
  <1>3. Allowed(touch, stack[i + 1], stack[i])
    BY <1>1 DEF Legal
  <1>4. touch' = touch \/ stack[i + 1].at # "gesture.sent"
    BY <1>1 DEF SameGestures
  <1>5. Allowed(touch, stack[i + 1], stack'[i])
    <2>1. CASE i = 1
      <3>1. stack'[1] = f /\ stack[1] = Top
        BY ReplaceShape, StackFacts DEF Top
      <3> QED BY <1>1, <1>2, <1>3, <2>1, <3>1 DEF Follows
    <2>2. CASE i # 1
      BY <1>1, <1>3, <2>2, ReplaceShape
    <2> QED BY <2>1, <2>2
  <1> QED BY <1>2, <1>4, <1>5, AllowedAnyway

LEMMA EnterLegal ==
  ASSUME Typed, Legal, stack # <<>>, NEW f \in Frames, NEW g \in Frames,
         stack' = <<g, f>> \o Tail(stack),
         Len(stack) > 1 => Follows(Top, f), SameGestures, Allowed(touch', f, g)
  PROVE  Legal'
  <1> SUFFICES ASSUME NEW i \in 1 .. Len(stack') - 1
               PROVE  Allowed(touch', stack'[i + 1], stack'[i])
    BY DEF Legal
  <1>1. CASE i = 1
    BY <1>1, EnterShape
  <1>2. CASE i # 1
    <2> DEFINE j == i - 1
    <2>1. j \in 1 .. Len(stack) - 1 /\ j + 1 \in 1 .. Len(stack) /\ Len(stack) > 1
          /\ i + 1 \in 3 .. Len(stack) + 1 /\ i + 1 - 1 = j + 1
          /\ (j # 1 => i \in 3 .. Len(stack) + 1) /\ (j = 1 => i = 2)
      BY <1>2, EnterShape, StackFacts
    <2>2. stack'[i + 1] = stack[j + 1] /\ stack[j + 1] \in Frames
      BY <2>1, EnterShape, StackFacts
    <2>3. Allowed(touch, stack[j + 1], stack[j])
      BY <2>1 DEF Legal
    <2>4. touch' = touch \/ stack[j + 1].at # "gesture.sent"
      BY <2>1 DEF SameGestures
    <2>5. Allowed(touch, stack[j + 1], stack'[i])
      <3>1. CASE j = 1
        <4>1. stack'[i] = f /\ stack[1] = Top
          BY <2>1, <3>1, EnterShape, StackFacts
        <4> QED BY <2>1, <2>2, <2>3, <3>1, <4>1 DEF Follows
      <3>2. CASE j # 1
        <4>1. stack'[i] = stack[j]
          BY <2>1, <3>2, EnterShape
        <4> QED BY <2>3, <4>1
      <3> QED BY <3>1, <3>2
    <2> QED BY <2>2, <2>4, <2>5, AllowedAnyway
  <1> QED BY <1>1, <1>2

LEMMA GesturingPlaces ==
  /\ Waits \cap Outermost =
       {"gesture.started", "gesture.sent", "inject.started", "play.touched", "connected", "exited"}
  /\ Waits \cap Gesturing = {"gesture.started", "gesture.sent", "play.touched"}
  /\ Gesturing \subseteq Outermost /\ InjectBody \subseteq Outermost
  /\ Gesturing \cap (HupBody \cup CommitBody \cup InputBody \cup InjectBody) = {}
  /\ Gesturing \subseteq Special
  <1>1. Waits \cap Outermost =
       {"gesture.started", "gesture.sent", "inject.started", "play.touched", "connected", "exited"}
    BY DEF Waits, HupWaits, Outermost, Gesturing, GestureBody, PlayBody, UnitBody, InjectBody
  <1>2. Waits \cap Gesturing = {"gesture.started", "gesture.sent", "play.touched"}
    BY DEF Waits, HupWaits, Gesturing, GestureBody, PlayBody, UnitBody
  <1>3. Gesturing \cap (HupBody \cup CommitBody \cup InputBody \cup InjectBody) = {}
    BY DEF Gesturing, GestureBody, PlayBody, UnitBody, HupBody, CommitBody, InputBody, InjectBody
  <1>4. Gesturing \subseteq Special
    BY DEF Gesturing, Special
  <1> QED BY <1>1, <1>2, <1>3, <1>4 DEF Outermost

\* A gesture that is called down from waits for that call.
LEMMA Below ==
  ASSUME CallsInv, stack # <<>>, Top.at \notin Gesturing
  PROVE  /\ deref = "none"
         /\ Bottom.at \in Gesturing => Len(stack) > 1
         /\ \A i \in 1 .. Len(stack) : stack[i].at = "gesture.sent" => Bottom.at = "gesture.sent"
         /\ finger = "down" => Len(stack) > 1 /\ Bottom.at \in {"gesture.sent", "play.touched"}
  <1> USE DEF CallsInv
  <1>1. deref = "none"
    BY DEF TouchInv
  <1>2. Bottom.at \in Gesturing => Len(stack) > 1
    BY StackFacts
  <1>3. ASSUME NEW i \in 1 .. Len(stack), stack[i].at = "gesture.sent" PROVE Bottom.at = "gesture.sent"
    <2>1. CASE i = Len(stack)
      BY <1>3, <2>1 DEF Bottom
    <2>2. CASE i # Len(stack)
      <3>1. i \in 1 .. Len(stack) - 1
        BY <2>2, StackFacts
      <3> QED BY <1>3, <3>1, StackFacts, GesturingPlaces
    <2> QED BY <2>1, <2>2
  <1>4. ASSUME finger = "down"
        PROVE  Len(stack) > 1 /\ Bottom.at \in {"gesture.sent", "play.touched"}
    <2>1. Bottom.at \in {"gesture.next", "gesture.sent"} \cup PlayBody \cup UnitBody
      BY <1>4 DEF FingerInv, DownInv
    <2>2. Bottom.at \in Gesturing /\ Bottom.at # "gesture.started"
      BY <2>1 DEF Gesturing, GestureBody, PlayBody, UnitBody
    <2>3. Bottom.at \in Waits
      BY <1>2, <2>2, StackFacts
    <2> QED BY <1>2, <2>2, <2>3, GesturingPlaces
  <1> QED BY <1>1, <1>2, <1>3, <1>4

\* A step that leaves calls in progress, none of them of a gesture at its turn.
LEMMA AwayKeeps ==
  ASSUME CallsInv, stack # <<>>, Top.at \notin Gesturing,
         finger' \in {finger, "up"}, deref' = deref,
         touch' = touch \/ Bottom.at \notin Gesturing,
         toucher' = toucher \/ finger' = "up" \/ Bottom.at \notin Gesturing,
         Typed', Legal', stack' # <<>>,
         Top'.at \notin Gesturing,
         Top'.at = "input" => toucher',
         Top'.at \in {"input.rewrite", "inject.started"} /\ result' = "yes" => toucher',
         Top'.at \in {"hup.read", "hup.reading", "hup.props", "input.rewrite"} => finger' = "up",
         Len(stack) > 1 => Bottom' = Bottom,
         Len(stack) = 1 => /\ Bottom'.at \notin Gesturing \cup CommitBody
                           /\ Bottom'.at \in InputBody => Bottom'.flag
  PROVE  CallsInv'
  <1> USE DEF CallsInv
  <1>1. \A l \in Gesturing : ~At(l)'
    BY DEF At
  <1>2. {"gesture.started", "gesture.next", "gesture.sent", "play.touched"} \subseteq Gesturing
    BY DEF Gesturing, GestureBody, PlayBody
  <1>3. Len(stack) > 1 \/ Len(stack) = 1
    BY StackFacts
  <1>4. BottomInv'
    <2>1. CASE Len(stack) = 1
      BY <2>1 DEF BottomInv, Gesturing, GestureBody, PlayBody, UnitBody
    <2>2. CASE Len(stack) > 1 /\ Bottom.at \in Gesturing
      <3>1. Gestures' = Gestures /\ Bottom' = Bottom
        BY <2>2 DEF Gestures
      <3>2. BottomInv
        OBVIOUS
      <3> QED BY <3>1, <3>2 DEF BottomInv
    <2>3. CASE Len(stack) > 1 /\ Bottom.at \notin Gesturing
      <3>1. Bottom' = Bottom /\ BottomInv
        BY <2>3
      <3> QED BY <2>3, <3>1 DEF BottomInv, Gesturing, GestureBody, PlayBody, UnitBody
    <2> QED BY <1>3, <2>1, <2>2, <2>3
  <1>5. TouchInv'
    <2>1. deref' = "none"
      BY Below
    <2> QED BY <1>1, <1>2, <2>1 DEF TouchInv, NullUse, At
  <1>6. FingerInv'
    <2>1. ASSUME finger' = "down" PROVE DownInv'
      <3>1. finger = "down" /\ Len(stack) > 1 /\ Bottom.at \in {"gesture.sent", "play.touched"}
        BY <2>1, Below
      <3>2. DownInv /\ touch' = touch /\ toucher' = toucher /\ Bottom' = Bottom
        BY <1>2, <2>1, <3>1 DEF FingerInv
      <3>3. Bottom.at \notin UnitBody /\ Bottom.at # "unit.gesture"
        BY <3>1 DEF UnitBody
      <3>4. ~At("play.touched")
        BY <1>2 DEF At
      <3> QED BY <1>1, <1>2, <3>1, <3>2, <3>3, <3>4 DEF DownInv
    <2> QED BY <1>1, <2>1 DEF FingerInv, At
  <1> QED BY <1>4, <1>5, <1>6

\* What the call below the one that returns goes on with.
LEMMA Second ==
  ASSUME CallsInv, stack # <<>>, Pop, Len(stack) > 1
  PROVE  /\ stack' \in Seq(Frames) /\ stack' # <<>> /\ Bottom' = Bottom /\ Top' = stack[2]
         /\ stack[2] \in Frames /\ stack[2].at \in Waits /\ Allowed(touch, stack[2], Top)
         /\ stack[2].at \in Outermost => stack[2] = Bottom /\ Len(stack) = 2
         /\ Len(stack) = 2 => stack[2] = Bottom
  <1> USE DEF CallsInv
  <1>1. 1 \in 1 .. Len(stack) - 1 /\ 2 \in 1 .. Len(stack) /\ 1 + 1 = 2
    BY StackFacts
  <1>2. Allowed(touch, stack[1 + 1], stack[1])
    BY <1>1 DEF Legal
  <1>3. stack[2].at \in Outermost => Len(stack) = 2
    <2>1. stack[2].at \in Outermost => 2 \notin 1 .. Len(stack) - 1
      BY StackFacts
    <2>2. \A n \in Nat : n > 1 /\ 2 \notin 1 .. n - 1 => n = 2
      OBVIOUS
    <2>3. Len(stack) \in Nat
      BY StackFacts
    <2> QED BY <2>1, <2>2, <2>3
  <1> QED BY <1>1, <1>2, <1>3, StackFacts, PopShape DEF Bottom

\* The end of the outermost call.
LEMMA Emptied ==
  ASSUME stack' = <<>>, result' \in Words, finger' = "up", NullUse'
  PROVE  CallsInv'
  <1>1. <<>> \in Seq(Frames) /\ Len(<<>>) = 0
    OBVIOUS
  <1>2. Typed' /\ Legal'
    BY <1>1 DEF Typed, Legal
  <1>3. BottomInv' /\ TouchInv' /\ FingerInv'
    BY DEF BottomInv, TouchInv, FingerInv, At
  <1> QED BY <1>2, <1>3 DEF CallsInv

\* A call of something else returns: to a gesture only one that pressed escape.
LEMMA PopKeeps ==
  ASSUME CallsInv, stack # <<>>, Pop, result' \in Words,
         Top.at \notin Gesturing \cup HupBody \cup InputBody \cup CommitBody,
         finger' \in {finger, "up"}, deref' = deref,
         UNCHANGED <<touch, toucher>> \/ Bottom.at \notin Gesturing,
         Len(stack) > 1, Legal'
  PROVE  CallsInv'
  <1> USE DEF CallsInv
  <1>0. finger' \in {"up", "down"}
    BY DEF Typed
  <1>1. /\ stack' \in Seq(Frames) /\ stack' # <<>> /\ Bottom' = Bottom /\ Top' = stack[2]
        /\ stack[2] \in Frames /\ stack[2].at \in Waits /\ Allowed(touch, stack[2], Top)
    BY Second
  <1>2. stack[2].at \notin HupWaits \cup {"play.touched"}
    BY <1>1 DEF Allowed, Serves
  <1>3. stack[2].at = "gesture.sent" => /\ stack[2] = Bottom /\ Len(stack) = 2
                                        /\ Escaping(touch, stack[2])
    BY <1>1, Second, GesturingPlaces DEF Allowed
  <1>4. \A l \in (Gesturing \cup HupBody \cup InputBody \cup HupWaits) \ {"gesture.sent"} : ~At(l)'
    <2>1. Waits \cap (HupBody \cup InputBody) \subseteq HupWaits
      BY DEF Waits, HupWaits, HupBody, InputBody
    <2>2. "gesture.started" \in HupWaits
      BY DEF HupWaits
    <2> QED BY <1>1, <1>2, <2>1, <2>2, GesturingPlaces DEF At
  <1>5. deref = "none"
    BY Below
  <1>6. Gestures' = Gestures \/ Bottom.at \notin Gesturing
    BY DEF Gestures
  <1>7. BottomInv'
    <2>1. BottomInv
      OBVIOUS
    <2> QED BY <1>1, <1>6, <2>1 DEF BottomInv, Gesturing, GestureBody
  <1>8. {"input", "input.rewrite", "gesture.started", "inject.started", "hup.read", "hup.reading",
         "hup.props", "play.touched", "gesture.next"}
          \subseteq (Gesturing \cup HupBody \cup InputBody \cup HupWaits) \ {"gesture.sent"}
    BY DEF Gesturing, GestureBody, PlayBody, HupBody, InputBody, HupWaits
  <1>9. TouchInv'
    <2>1. At("gesture.sent")' /\ Top'.cmd # "pause" => Top'.cmd = "late" /\ Top'.n = 5
      BY <1>1, <1>3 DEF At, Escaping
    <2> QED BY <1>4, <1>5, <1>8, <2>1 DEF TouchInv, NullUse
  <1>10. FingerInv'
    <2>1. ASSUME finger' = "down" PROVE DownInv'
      <3>1. finger = "down" /\ Bottom.at \in {"gesture.sent", "play.touched"}
        BY <2>1, Below
      <3>2. DownInv /\ UNCHANGED <<touch, toucher>>
        BY <3>1, GesturingPlaces DEF FingerInv
      <3>4. Bottom.at \notin UnitBody /\ Bottom.at # "unit.gesture" /\ ~At("play.touched")
        BY <3>1, GesturingPlaces DEF UnitBody, At
      <3>5. At("gesture.sent")' =>
              Top'.n < UpAt(touch, Top'.cmd) /\ Gestures[Top'.cmd][Top'.n] \in Discarded
        <4> SUFFICES ASSUME At("gesture.sent")'
                     PROVE  Top'.n < UpAt(touch, Top'.cmd) /\ Gestures[Top'.cmd][Top'.n] \in Discarded
          OBVIOUS
        <4>1. Top' = Bottom /\ Escaping(touch, Bottom) /\ Bottom.at = "gesture.sent"
          BY <1>1, <1>3 DEF At
        <4>2. Bottom.n <= UpAt(touch, Bottom.cmd)
          BY <3>2, <4>1 DEF DownInv, GestureBody
        <4>3. Bottom.cmd = "pause" /\ Bottom.n = 3 /\ touch # "maatouch"
          BY <4>1, <4>2 DEF Escaping, UpAt
        <4>4. UpAt(touch, "pause") = 5
          BY <4>3 DEF UpAt
        <4>5. Gestures["pause"][3] = "esc"
          <5>1. Gestures["pause"] = <<"down">> \o PausedPath(<<"esc">>) \o <<"up">>
            BY <4>3 DEF Gestures
          <5> QED BY <5>1 DEF PausedPath
        <4> QED BY <4>1, <4>3, <4>4, <4>5 DEF Discarded
      <3>6. \A c, n : Gestures'[c][n] = Gestures[c][n]
        BY <3>2 DEF Gestures
      <3> QED BY <1>1, <1>4, <1>8, <3>1, <3>2, <3>4, <3>5, <3>6 DEF DownInv
    <2> QED BY <1>4, <1>8, <2>1 DEF FingerInv
  <1> QED BY <1>0, <1>1, <1>7, <1>9, <1>10 DEF Typed

\* No finger is down when an outermost call that is not a gesture ends.
LEMMA LastPop ==
  ASSUME CallsInv, stack # <<>>, Top.at \notin Gesturing, Pop, result' \in Words,
         finger' \in {finger, "up"}, deref' = deref, Len(stack) = 1
  PROVE  CallsInv'
  <1> USE DEF CallsInv
  <1>1. stack' = <<>>
    BY PopShape
  <1>2. finger' = "up" /\ deref' = "none"
    BY Below DEF Typed
  <1> QED BY <1>1, <1>2, Emptied DEF NullUse

LEMMA PlainKeeps ==
  ASSUME CallsInv, Plain, finger' \in {finger, "up"}, deref' = deref,
         UNCHANGED <<touch, toucher>> \/ Bottom.at \notin Gesturing
  PROVE  CallsInv'
  <1> USE DEF CallsInv
  <1>1. /\ stack # <<>> /\ Top.at \notin Special \cup {"hup"} /\ result' \in Words
        /\ finger' \in {"up", "down"}
        /\ Top.at \notin Gesturing \cup HupBody \cup InputBody \cup CommitBody
    BY DEF Plain, Typed, Special, HupBody, Gesturing
  <1>2. SameGestures
    <2>1. CASE Bottom.at \notin Gesturing
      BY <1>1, <2>1, GesturingPlaces, Below DEF SameGestures
    <2>2. CASE touch' = touch
      BY <2>2 DEF SameGestures
    <2> QED BY <2>1, <2>2
  <1>3. CASE Pop
    <2>1. Legal'
      BY <1>1, <1>2, <1>3, PopLegal
    <2>2. CASE Len(stack) > 1
      BY <1>1, <1>3, <2>1, <2>2, PopKeeps
    <2>3. CASE Len(stack) = 1
      BY <1>1, <1>3, <2>3, LastPop
    <2> QED BY <1>1, <2>2, <2>3, StackFacts
  <1>4. \A f : f.at \notin Special =>
          /\ f.at \notin Gesturing \cup CommitBody \cup InputBody \cup InjectBody
          /\ f.at \notin {"input", "input.rewrite", "inject.started", "hup.read", "hup.reading",
                          "hup.props"}
    BY GesturingPlaces DEF Special, InputBody, InjectBody
  <1>5. CASE Move
    <2>1. PICK f \in Frames : stack' = <<f>> \o Tail(stack) /\ Follows(Top, f) /\ f.at \notin Special
      BY <1>5 DEF Move
    <2>2. Legal'
      BY <1>1, <1>2, <2>1, ReplaceLegal
    <2>3. /\ stack' \in Seq(Frames) /\ stack' # <<>> /\ Top' = f
          /\ Len(stack) > 1 => Bottom' = Bottom
          /\ Len(stack) = 1 => Bottom' = f
      BY <1>1, <2>1, ReplaceShape
    <2>4. Typed'
      BY <1>1, <2>3 DEF Typed
    <2> QED BY <1>1, <1>4, <2>1, <2>2, <2>3, <2>4, AwayKeeps
  <1>6. CASE Push
    <2>1. PICK f \in Frames, g \in Frames :
            /\ stack' = <<g, f>> \o Tail(stack) /\ Follows(Top, f) /\ f.at \notin Special
            /\ Allowed(touch, f, g) /\ g.at \notin Special
      BY <1>6 DEF Push
    <2>5. Allowed(touch', f, g)
      BY <2>1, AllowedAnyway DEF Special, GestureBody
    <2>2. Legal'
      BY <1>1, <1>2, <2>1, <2>5, EnterLegal
    <2>3. /\ stack' \in Seq(Frames) /\ stack' # <<>> /\ Top' = g
          /\ Len(stack) > 1 => Bottom' = Bottom
          /\ Len(stack) = 1 => Bottom' = f
      BY <1>1, <2>1, EnterShape
    <2>4. Typed'
      BY <1>1, <2>3 DEF Typed
    <2> QED BY <1>1, <1>4, <2>1, <2>2, <2>3, <2>4, AwayKeeps
  <1> QED BY <1>3, <1>5, <1>6 DEF Plain

-----------------------------------------------------------------------------
(* The steps of the touch programs outside the gestures themselves.               *)

\* A function other than a gesture calls another.
LEMMA CallKeeps ==
  ASSUME CallsInv, stack # <<>>, Top.at \notin Gesturing, NEW l \in Labels, NEW g \in Frames,
         Call(g, l), Kin(Top.at, l), l \notin Gesturing,
         Allowed(touch, [Top EXCEPT !.at = l], g),
         g.at \notin Gesturing \cup InputBody \cup {"inject.started", "hup.read", "hup.reading", "hup.props"},
         UNCHANGED <<touch, toucher, deref, finger>>
  PROVE  CallsInv'
  <1> USE DEF CallsInv
  <1> DEFINE f == [Top EXCEPT !.at = l]
  <1>1. f \in Frames /\ f.at = l /\ f.flag = Top.flag /\ f.cmd = Top.cmd
    BY TopFrame, FrameMoved
  <1>2. stack' = <<g, f>> \o Tail(stack) /\ result' \in Words
    BY DEF Call, Enter, Words, Answers
  <1>3. Allowed(touch', f, g)
    OBVIOUS
  <1> HIDE DEF f
  <1>4. Follows(Top, f)
    BY <1>1, TopFrame, KinFollows
  <1>5. SameGestures
    BY DEF SameGestures
  <1>6. Legal'
    BY <1>1, <1>2, <1>3, <1>4, <1>5, EnterLegal
  <1>7. /\ stack' \in Seq(Frames) /\ stack' # <<>> /\ Top' = g
        /\ Len(stack) > 1 => Bottom' = Bottom
        /\ Len(stack) = 1 => Bottom' = f
    BY <1>1, <1>2, EnterShape
  <1>8. Typed'
    BY <1>2, <1>7 DEF Typed
  <1>9. Len(stack) = 1 => l \notin CommitBody /\ (l \in InputBody => f.flag)
    <2>1. Len(stack) = 1 => Bottom = Top
      BY StackFacts
    <2> QED BY <1>1, <2>1 DEF BottomInv, Kin
  <1>10. {"input", "input.rewrite"} \subseteq InputBody
    BY DEF InputBody
  <1> QED BY <1>1, <1>6, <1>7, <1>8, <1>9, <1>10, AwayKeeps

\* A restart of the program returns: it is there only if that succeeded.
LEMMA HupReturns ==
  ASSUME CallsInv, stack # <<>>, Top.at \in HupBody, Pop, result' \in Words,
         result' = "yes" => toucher', finger' = "up", deref' = deref, touch' = touch
  PROVE  CallsInv'
  <1> USE DEF CallsInv
  <1>1. Top.at \notin Gesturing
    BY GesturingPlaces
  <1>2. Legal'
    BY PopLegal DEF SameGestures
  <1>3. CASE Len(stack) = 1
    BY <1>1, <1>3, LastPop
  <1>4. CASE Len(stack) > 1
    <2>1. /\ stack' \in Seq(Frames) /\ stack' # <<>> /\ Bottom' = Bottom /\ Top' = stack[2]
          /\ stack[2] \in Frames /\ stack[2].at \in Waits /\ Allowed(touch, stack[2], Top)
      BY <1>4, Second
    <2>2. stack[2].at # "gesture.sent" /\ stack[2].at # "gesture.next" /\ stack[2].at # "input"
          /\ stack[2].at \notin {"hup.read", "hup.reading", "hup.props"}
      <3>1. HupBody \cap (InputBody \cup CommandBody) = {}
        BY DEF HupBody, InputBody, CommandBody
      <3> QED BY <2>1, <3>1 DEF Allowed, Waits, HupWaits
    <2>3. Typed'
      BY <2>1 DEF Typed
    <2>4. BottomInv'
      <3>1. Gestures' = Gestures
        BY DEF Gestures
      <3>2. BottomInv
        OBVIOUS
      <3> QED BY <2>1, <3>1, <3>2 DEF BottomInv
    <2>5. deref' = "none"
      BY <1>1, Below
    <2>6. TouchInv'
      BY <2>1, <2>2, <2>5 DEF TouchInv, NullUse, At
    <2>7. FingerInv'
      BY DEF FingerInv
    <2> QED BY <1>2, <2>3, <2>4, <2>6, <2>7
  <1> QED BY <1>3, <1>4, StackFacts

LEMMA HupGoesOn ==
  ASSUME CallsInv, stack # <<>>, Top.at \in HupBody, NEW l \in HupBody, Jump(l),
         finger' = "up", deref' = deref, touch' = touch
  PROVE  CallsInv'
  <1> USE DEF CallsInv
  <1> DEFINE f == [Top EXCEPT !.at = l]
  <1>1. f \in Frames /\ f.at = l /\ f.flag = Top.flag /\ f.cmd = Top.cmd
    BY TopFrame, FrameMoved DEF Labels
  <1>2. stack' = <<f>> \o Tail(stack) /\ result' \in Words
    BY DEF Jump, Goto, Replace, Words, Answers
  <1> HIDE DEF f
  <1>3. \A h, m \in HupBody : Kin(h, m) /\ m \notin Gesturing \cup CommitBody \cup InputBody
                              /\ m # "inject.started"
    BY DEF Kin, HupBody, IOBody, ReleaseBody, InputBody, CommandBody, CommitBody, TouchBody,
           CtrlBody, Outermost, Gesturing, GestureBody, PlayBody, UnitBody, InjectBody
  <1>4. Follows(Top, f)
    BY <1>1, <1>3, TopFrame, KinFollows
  <1>5. Legal'
    BY <1>1, <1>2, <1>4, ReplaceLegal DEF SameGestures
  <1>6. /\ stack' \in Seq(Frames) /\ stack' # <<>> /\ Top' = f
        /\ Len(stack) > 1 => Bottom' = Bottom
        /\ Len(stack) = 1 => Bottom' = f
    BY <1>1, <1>2, ReplaceShape
  <1>7. Typed'
    BY <1>2, <1>6 DEF Typed
  <1>8. {"input", "input.rewrite"} \subseteq InputBody
    BY DEF InputBody
  <1> QED BY <1>1, <1>3, <1>5, <1>6, <1>7, <1>8, AwayKeeps

LEMMA HupKeeps ==
  ASSUME CallsInv, HupStart \/ HupPoll \/ HupRead \/ HupProps
  PROVE  CallsInv'
  <1> USE DEF At, HupBody
  <1>1. ASSUME stack # <<>>, Top.at \in HupBody, NEW v \in {"yes", "no"}, Return(v),
               v = "yes" => toucher', finger' = "up", deref' = deref, touch' = touch
        PROVE  CallsInv'
    <2>1. result' \in {"void", v}
      BY <1>1 DEF Return
    <2>2. Pop /\ result' \in Words /\ (result' = "yes" => toucher')
      BY <1>1, <2>1 DEF Pop, Return, Words, Answers
    <2> QED BY <1>1, <2>2, HupReturns
  <1>2. CASE HupStart
    BY <1>1, <1>2, HupGoesOn DEF HupStart
  <1>3. CASE HupPoll \/ HupRead \/ HupProps
    <2>1. stack # <<>> /\ Top.at \in {"hup.read", "hup.reading", "hup.props"} /\ finger' = finger
          /\ deref' = deref /\ touch' = touch
      BY <1>3 DEF HupPoll, HupRead, HupProps
    <2>2. finger = "up"
      BY <2>1 DEF CallsInv, FingerInv
    <2>3. \/ \E v \in {"yes", "no"} : Return(v) /\ (v = "yes" => toucher')
          \/ Jump("hup.read") \/ Jump("hup.reading") \/ Jump("hup.props")
      BY <1>3 DEF HupPoll, HupRead, HupProps
    <2> QED BY <1>1, <2>1, <2>2, <2>3, HupGoesOn
  <1> QED BY <1>2, <1>3

\* Where the finger of a gesture goes down and up.
LEMMA LiftFacts ==
  /\ DOMAIN Gestures = {"click", "swipe", "extra", "pause", "late"}
  /\ DOMAIN PlayGestures = {"click", "swipe", "extra"}
  /\ \A t, c : c \in DOMAIN Gestures => UpAt(t, c) \in Nat /\ UpAt(t, c) > 1
  /\ \A c \in DOMAIN PlayGestures : PlayUpAt(c) \in Nat /\ PlayUpAt(c) > 1
  /\ PlayUpAt("click") = 2
  <1>1. DOMAIN Gestures = {"click", "swipe", "extra", "pause", "late"}
    BY DEF Gestures
  <1>2. DOMAIN PlayGestures = {"click", "swipe", "extra"}
    BY DEF PlayGestures
  <1>3. \A t, c : c \in DOMAIN Gestures => UpAt(t, c) \in Nat /\ UpAt(t, c) > 1
    BY <1>1 DEF UpAt
  <1>4. \A c \in DOMAIN PlayGestures : PlayUpAt(c) \in Nat /\ PlayUpAt(c) > 1
    BY <1>2 DEF PlayUpAt
  <1>5. PlayUpAt("click") = 2
    BY DEF PlayUpAt
  <1> QED BY <1>1, <1>2, <1>3, <1>4, <1>5

LEMMA InputReturns ==
  ASSUME CallsInv, stack # <<>>, Top.at \in InputBody, NEW v \in {"yes", "no"}, Return(v),
         UNCHANGED <<touch, toucher, deref>>,
         v = "yes" => toucher /\ Written(Top.cmd),
         v = "no" => finger = "up" /\ Unsent(Top.cmd)
  PROVE  CallsInv'
  <1> USE DEF CallsInv
  <1>1. Top.at \notin Gesturing /\ Pop
    BY GesturingPlaces DEF Pop, Return
  <1>2. result' \in Words /\ (Tail(stack) # <<>> => result' = v)
    BY DEF Return, Words, Answers
  <1>3. Legal'
    BY <1>1, PopLegal DEF SameGestures
  <1>4. v = "no" => finger' = "up"
    BY DEF Unsent
  <1>5. CASE Len(stack) = 1
    <2>1. Top.flag
      BY <1>5, StackFacts DEF BottomInv
    <2>2. finger' \in {finger, "up"}
      BY <1>4, <2>1 DEF Written
    <2> QED BY <1>1, <1>2, <1>5, <2>2, LastPop
  <1>6. CASE Len(stack) > 1
    <2> DEFINE b == stack[2]
    <2>1. /\ stack' \in Seq(Frames) /\ stack' # <<>> /\ Bottom' = Bottom /\ Top' = b
          /\ b \in Frames /\ Allowed(touch, b, Top)
      BY <1>1, <1>6, Second
    <2>2. b.at = "gesture.sent"
      BY <2>1 DEF Allowed, Serves
    <2>3. b = Bottom /\ Top' = Bottom /\ Bottom.at = "gesture.sent"
      BY <1>1, <1>6, <2>1, <2>2, Second, GesturingPlaces
    <2>4. /\ ~Top.flag
          /\ Top.cmd = "down" => b.n = 1
          /\ Top.cmd = "up" <=> b.n = UpAt(touch, b.cmd)
      BY <2>1, <2>2 DEF Allowed
    <2> HIDE DEF b
    <2>5. result' = v
      BY <1>2, <2>1 DEF Return
    <2>6. Typed'
      BY <1>2, <2>1, <2>4 DEF Typed, Written, Sent, Unsent
    <2>7. Gestures' = Gestures
      BY DEF Gestures
    <2>8. BottomInv'
      <3>1. BottomInv
        OBVIOUS
      <3> QED BY <2>1, <2>7, <3>1 DEF BottomInv
    <2>9. deref' = "none"
      BY <1>1, Below
    <2>10. TouchInv'
      BY <2>3, <2>5, <2>9 DEF TouchInv, NullUse, At
    <2>11. FingerInv'
      <3>1. ASSUME finger' = "down" PROVE DownInv'
        <4>1. v = "yes" /\ toucher /\ Sent(Top.cmd)
          BY <1>4, <2>4, <3>1 DEF Written
        <4>2. Top.cmd = "down" \/ (Top.cmd # "up" /\ finger = "down")
          BY <3>1, <4>1 DEF Sent
        <4>3. b.cmd \in DOMAIN Gestures
          BY <2>3 DEF BottomInv, GestureBody
        <4>4. b.n \in Nat /\ UpAt(touch, b.cmd) \in Nat /\ UpAt(touch, b.cmd) > 1
          BY <2>1, <4>3, LiftFacts DEF Frames
        <4>5. b.n < UpAt(touch, b.cmd)
          <5>1. CASE Top.cmd = "down"
            BY <2>4, <4>4, <5>1
          <5>2. CASE Top.cmd # "up" /\ finger = "down"
            <6>1. b.n <= UpAt(touch, b.cmd)
              BY <2>3, <5>2 DEF FingerInv, DownInv, GestureBody
            <6> QED BY <2>4, <4>4, <5>2, <6>1
          <5> QED BY <4>2, <5>1, <5>2
        <4>6. b.n <= UpAt(touch, b.cmd)
          BY <4>4, <4>5
        <4>7. ~At("play.touched")' /\ Bottom.at \notin PlayBody \cup UnitBody /\ Bottom.at # "unit.gesture"
          BY <2>3 DEF At, PlayBody, UnitBody
        <4> QED BY <2>1, <2>3, <2>5, <4>1, <4>5, <4>6, <4>7 DEF DownInv
      <3> QED BY <2>3, <3>1 DEF FingerInv, At
    <2> QED BY <1>3, <2>6, <2>8, <2>10, <2>11
  <1> QED BY <1>5, <1>6, StackFacts

LEMMA HupIsNew ==
  /\ Hup \in Frames /\ Hup.at = "hup"
  /\ Hup.at \notin Gesturing \cup InputBody \cup {"inject.started", "hup.read", "hup.reading", "hup.props"}
  /\ \A l \in HupWaits : Serves(l, Hup)
  <1>1. Hup \in Frames /\ Hup.at = "hup"
    BY FrameNew DEF Hup, Labels, HupBody, Words, Commands
  <1> QED BY <1>1 DEF Serves, Waits, HupWaits, HupBody, Outermost, Gesturing, GestureBody, PlayBody,
            UnitBody, InjectBody, InputBody, CommitBody, TouchBody, CtrlBody

LEMMA InputKeeps ==
  ASSUME CallsInv, InputWrite \/ InputRewrite
  PROVE  CallsInv'
  <1> USE DEF At, InputBody
  <1>1. CASE InputWrite
    <2>1. stack # <<>> /\ Top.at = "input" /\ UNCHANGED <<touch, toucher, deref>>
      BY <1>1 DEF InputWrite
    <2>2. toucher
      BY <2>1 DEF CallsInv, TouchInv
    <2>3. CASE Return("yes") /\ Written(Top.cmd)
      BY <2>1, <2>2, <2>3, InputReturns
    <2>4. CASE Call(Hup, "input.rewrite") /\ UNCHANGED finger
      <3>1. Kin("input", "input.rewrite")
        BY DEF Kin, HupBody, IOBody, ReleaseBody, CommandBody, CommitBody, TouchBody,
               CtrlBody, Outermost, Gesturing, GestureBody, PlayBody, UnitBody, InjectBody
      <3>2. "input.rewrite" \in HupWaits /\ "input.rewrite" \in Labels /\ "input.rewrite" \notin Gesturing
            /\ Top.at \notin Gesturing
        BY <2>1, GesturingPlaces DEF HupWaits, Labels
      <3>3. Allowed(touch, [Top EXCEPT !.at = "input.rewrite"], Hup)
        <4>1. [Top EXCEPT !.at = "input.rewrite"].at = "input.rewrite"
          BY <2>1, <3>2, TopFrame, FrameMoved DEF CallsInv
        <4> QED BY <3>2, <4>1, HupIsNew DEF Allowed
      <3> QED BY <2>1, <2>4, <3>1, <3>2, <3>3, HupIsNew, CallKeeps
    <2> QED BY <1>1, <2>3, <2>4 DEF InputWrite
  <1>2. CASE InputRewrite
    <2>1. stack # <<>> /\ Top.at = "input.rewrite" /\ UNCHANGED <<touch, toucher, deref>>
      BY <1>2 DEF InputRewrite
    <2>2. (result = "yes" => toucher) /\ finger = "up"
      BY <2>1 DEF CallsInv, TouchInv, FingerInv
    <2>3. \/ result = "yes" /\ Return("yes") /\ Written(Top.cmd)
          \/ Return("no") /\ Unsent(Top.cmd)
      BY <1>2 DEF InputRewrite
    <2> QED BY <2>1, <2>2, <2>3, InputReturns
  <1> QED BY <1>1, <1>2

LEMMA InjectKeeps ==
  ASSUME CallsInv, InjectBegin \/ InjectStarted
  PROVE  CallsInv'
  <1> USE DEF At
  <1>1. stack # <<>> /\ Top.at \in InjectBody /\ UNCHANGED <<touch, toucher, deref, finger>>
    BY DEF InjectBegin, InjectStarted, touchVars, InjectBody
  <1>2. Len(stack) = 1 /\ Bottom = Top /\ Top \in Frames /\ Top.at \notin Gesturing /\ Typed /\ Legal
    BY <1>1, StackFacts, GesturingPlaces DEF CallsInv
  <1>3. ASSUME Replace(Input(Top.cmd, TRUE)), UNCHANGED result, toucher
        PROVE  CallsInv'
    <2> DEFINE f == Input(Top.cmd, TRUE)
    <2>1. f \in Frames /\ f.at = "input" /\ f.flag
      <3>1. Top.cmd \in Words
        BY <1>2 DEF Frames
      <3>2. "input" \in Labels
        BY DEF Labels, InputBody
      <3> QED BY <3>1, <3>2, FrameNew DEF Input
    <2>2. stack' = <<f>> \o Tail(stack)
      BY <1>3 DEF Replace
    <2> HIDE DEF f
    <2>3. /\ stack' \in Seq(Frames) /\ stack' # <<>> /\ Top' = f /\ Bottom' = f
      BY <1>1, <1>2, <2>1, <2>2, ReplaceShape
    <2>4. Legal'
      BY <1>1, <1>2, <2>1, <2>2, ReplaceLegal DEF SameGestures
    <2>5. Typed'
      BY <1>1, <1>2, <1>3, <2>3 DEF Typed
    <2>6. "input" \notin Gesturing \cup CommitBody
      BY DEF Gesturing, GestureBody, PlayBody, UnitBody, CommitBody
    <2> QED BY <1>1, <1>2, <1>3, <2>1, <2>3, <2>4, <2>5, <2>6, AwayKeeps
  <1>4. CASE InjectBegin
    <2>1. CASE toucher
      BY <1>3, <1>4, <2>1 DEF InjectBegin
    <2>2. CASE Call(Hup, "inject.started")
      <3>1. Kin(Top.at, "inject.started") /\ "inject.started" \in HupWaits /\ "inject.started" \in Labels
            /\ "inject.started" \notin Gesturing
        BY <1>1 DEF InjectBody, HupWaits, Labels, Kin, HupBody, IOBody, ReleaseBody, InputBody, CommandBody,
             CommitBody, TouchBody, CtrlBody, Outermost, Gesturing, GestureBody, PlayBody, UnitBody
      <3>2. Allowed(touch, [Top EXCEPT !.at = "inject.started"], Hup)
        <4>1. [Top EXCEPT !.at = "inject.started"].at = "inject.started"
          BY <1>2, <3>1, FrameMoved
        <4> QED BY <3>1, <4>1, HupIsNew DEF Allowed
      <3> QED BY <1>1, <1>2, <2>2, <3>1, <3>2, HupIsNew, CallKeeps
    <2> QED BY <1>4, <2>1, <2>2 DEF InjectBegin
  <1>5. CASE InjectStarted
    <2>1. CASE result = "yes"
      <3>1. toucher
        BY <1>5, <2>1 DEF CallsInv, TouchInv, InjectStarted
      <3> QED BY <1>3, <1>5, <2>1, <3>1 DEF InjectStarted
    <2>2. CASE Return("no")
      <3>1. Pop /\ result' \in Words
        BY <2>2 DEF Pop, Return, Words, Answers
      <3> QED BY <1>1, <1>2, <3>1, LastPop
    <2> QED BY <1>5, <2>1, <2>2 DEF InjectStarted
  <1> QED BY <1>4, <1>5

-----------------------------------------------------------------------------
(* The gestures.                                                                   *)

\* What the commands of each gesture are.
LEMMA GestureCommands ==
  ASSUME NEW c \in DOMAIN Gestures
  PROVE  /\ Len(Gestures[c]) \in Nat
         /\ \A i \in 1 .. Len(Gestures[c]) :
              /\ Gestures[c][i] \in Words
              /\ Gestures[c][i] = "down" => i = 1
              /\ Gestures[c][i] = "up" <=> i = UpAt(touch, c)
              /\ Gestures[c][i] = "esc" => (c = "pause" /\ i = 3 /\ touch # "maatouch") \/ (c = "late" /\ i = 5)
              /\ Gestures[c][i] \in Discarded => c = "pause" \/ (c = "late" /\ i = 5)
         /\ UpAt(touch, c) <= Len(Gestures[c])
         /\ c = "late" => Len(Gestures[c]) = 5
  <1> DEFINE g == Gestures[c]
  <1>1. CASE c = "click"
    <2>1. Len(g) = 2 /\ g[1] = "down" /\ g[2] = "up"
      BY <1>1 DEF Gestures, Path, PausedPath
    <2> HIDE DEF g
    <2>2. \A i \in 1 .. 2 : i = 1 \/ i = 2
      OBVIOUS
    <2>3. UpAt(touch, c) = 2
      BY <1>1 DEF UpAt
    <2>4. Len(g) \in Nat /\ UpAt(touch, c) <= Len(g) /\ (c = "late" => Len(g) = 5)
      BY <1>1, <2>1, <2>3
    <2>5. \A i \in 1 .. Len(g) :
            /\ g[i] \in Words
            /\ g[i] = "down" => i = 1
            /\ g[i] = "up" <=> i = UpAt(touch, c)
            /\ g[i] = "esc" => (c = "pause" /\ i = 3 /\ touch # "maatouch") \/ (c = "late" /\ i = 5)
            /\ g[i] \in Discarded => c = "pause" \/ (c = "late" /\ i = 5)
      BY <1>1, <2>1, <2>2, <2>3 DEF Words, Commands, Discarded
    <2> QED BY <2>4, <2>5 DEF g
  <1>2. CASE c = "swipe"
    <2>1. Len(g) = 3 /\ g[1] = "down" /\ g[2] = "move" /\ g[3] = "up"
      BY <1>2 DEF Gestures, Path, PausedPath
    <2> HIDE DEF g
    <2>2. \A i \in 1 .. 3 : i = 1 \/ i = 2 \/ i = 3
      OBVIOUS
    <2>3. UpAt(touch, c) = 3
      BY <1>2 DEF UpAt
    <2>4. Len(g) \in Nat /\ UpAt(touch, c) <= Len(g) /\ (c = "late" => Len(g) = 5)
      BY <1>2, <2>1, <2>3
    <2>5. \A i \in 1 .. Len(g) :
            /\ g[i] \in Words
            /\ g[i] = "down" => i = 1
            /\ g[i] = "up" <=> i = UpAt(touch, c)
            /\ g[i] = "esc" => (c = "pause" /\ i = 3 /\ touch # "maatouch") \/ (c = "late" /\ i = 5)
            /\ g[i] \in Discarded => c = "pause" \/ (c = "late" /\ i = 5)
      BY <1>2, <2>1, <2>2, <2>3 DEF Words, Commands, Discarded
    <2> QED BY <2>4, <2>5 DEF g
  <1>3. CASE c = "extra"
    <2>1. Len(g) = 5 /\ g[1] = "down" /\ g[2] = "move" /\ g[3] = "wait" /\ g[4] = "move" /\ g[5] = "up"
      BY <1>3 DEF Gestures, Path, PausedPath
    <2> HIDE DEF g
    <2>2. \A i \in 1 .. 5 : i = 1 \/ i = 2 \/ i = 3 \/ i = 4 \/ i = 5
      OBVIOUS
    <2>3. UpAt(touch, c) = 5
      BY <1>3 DEF UpAt
    <2>4. Len(g) \in Nat /\ UpAt(touch, c) <= Len(g) /\ (c = "late" => Len(g) = 5)
      BY <1>3, <2>1, <2>3
    <2>5. \A i \in 1 .. Len(g) :
            /\ g[i] \in Words
            /\ g[i] = "down" => i = 1
            /\ g[i] = "up" <=> i = UpAt(touch, c)
            /\ g[i] = "esc" => (c = "pause" /\ i = 3 /\ touch # "maatouch") \/ (c = "late" /\ i = 5)
            /\ g[i] \in Discarded => c = "pause" \/ (c = "late" /\ i = 5)
      BY <1>3, <2>1, <2>2, <2>3 DEF Words, Commands, Discarded
    <2> QED BY <2>4, <2>5 DEF g
  <1>4. CASE c = "late"
    <2>1. Len(g) = 5 /\ g[1] = "down" /\ g[2] = "move" /\ g[3] = "move" /\ g[4] = "up" /\ g[5] = "esc"
      BY <1>4 DEF Gestures, Path, PausedPath
    <2> HIDE DEF g
    <2>2. \A i \in 1 .. 5 : i = 1 \/ i = 2 \/ i = 3 \/ i = 4 \/ i = 5
      OBVIOUS
    <2>3. UpAt(touch, c) = 4
      BY <1>4 DEF UpAt
    <2>4. Len(g) \in Nat /\ UpAt(touch, c) <= Len(g) /\ (c = "late" => Len(g) = 5)
      BY <1>4, <2>1, <2>3
    <2>5. \A i \in 1 .. Len(g) :
            /\ g[i] \in Words
            /\ g[i] = "down" => i = 1
            /\ g[i] = "up" <=> i = UpAt(touch, c)
            /\ g[i] = "esc" => (c = "pause" /\ i = 3 /\ touch # "maatouch") \/ (c = "late" /\ i = 5)
            /\ g[i] \in Discarded => c = "pause" \/ (c = "late" /\ i = 5)
      BY <1>4, <2>1, <2>2, <2>3 DEF Words, Commands, Discarded
    <2> QED BY <2>4, <2>5 DEF g
  <1>5. CASE c = "pause" /\ touch = "maatouch"
    <2>1. Len(g) = 6 /\ g[1] = "down" /\ g[2] = "move" /\ g[3] = "key_down" /\ g[4] = "key_up" /\ g[5] = "move" /\ g[6] = "up"
      BY <1>5 DEF Gestures, Path, PausedPath
    <2> HIDE DEF g
    <2>2. \A i \in 1 .. 6 : i = 1 \/ i = 2 \/ i = 3 \/ i = 4 \/ i = 5 \/ i = 6
      OBVIOUS
    <2>3. UpAt(touch, c) = 6
      BY <1>5 DEF UpAt
    <2>4. Len(g) \in Nat /\ UpAt(touch, c) <= Len(g) /\ (c = "late" => Len(g) = 5)
      BY <1>5, <2>1, <2>3
    <2>5. \A i \in 1 .. Len(g) :
            /\ g[i] \in Words
            /\ g[i] = "down" => i = 1
            /\ g[i] = "up" <=> i = UpAt(touch, c)
            /\ g[i] = "esc" => (c = "pause" /\ i = 3 /\ touch # "maatouch") \/ (c = "late" /\ i = 5)
            /\ g[i] \in Discarded => c = "pause" \/ (c = "late" /\ i = 5)
      BY <1>5, <2>1, <2>2, <2>3 DEF Words, Commands, Discarded
    <2> QED BY <2>4, <2>5 DEF g
  <1>6. CASE c = "pause" /\ touch # "maatouch"
    <2>1. Len(g) = 5 /\ g[1] = "down" /\ g[2] = "move" /\ g[3] = "esc" /\ g[4] = "move" /\ g[5] = "up"
      BY <1>6 DEF Gestures, Path, PausedPath
    <2> HIDE DEF g
    <2>2. \A i \in 1 .. 5 : i = 1 \/ i = 2 \/ i = 3 \/ i = 4 \/ i = 5
      OBVIOUS
    <2>3. UpAt(touch, c) = 5
      BY <1>6 DEF UpAt
    <2>4. Len(g) \in Nat /\ UpAt(touch, c) <= Len(g) /\ (c = "late" => Len(g) = 5)
      BY <1>6, <2>1, <2>3
    <2>5. \A i \in 1 .. Len(g) :
            /\ g[i] \in Words
            /\ g[i] = "down" => i = 1
            /\ g[i] = "up" <=> i = UpAt(touch, c)
            /\ g[i] = "esc" => (c = "pause" /\ i = 3 /\ touch # "maatouch") \/ (c = "late" /\ i = 5)
            /\ g[i] \in Discarded => c = "pause" \/ (c = "late" /\ i = 5)
      BY <1>6, <2>1, <2>2, <2>3 DEF Words, Commands, Discarded
    <2> QED BY <2>4, <2>5 DEF g
  <1> QED BY <1>1, <1>2, <1>3, <1>4, <1>5, <1>6, LiftFacts

\* A gesture calls: what is called stands on it alone.
LEMMA GestureCalls ==
  ASSUME Typed, Legal, stack # <<>>, Top.at \in Outermost, NEW l \in Labels, NEW g \in Frames, Call(g, l),
         Allowed(touch', [Top EXCEPT !.at = l], g)
  PROVE  /\ Typed' <=> finger' \in {"up", "down"}
         /\ Legal' /\ stack' # <<>> /\ Top' = g
         /\ Bottom'.at = l /\ Bottom'.cmd = Top.cmd /\ Bottom'.n = Top.n
  <1> DEFINE f == [Top EXCEPT !.at = l]
  <1>1. f \in Frames /\ f.at = l /\ f.n = Top.n /\ f.cmd = Top.cmd
    BY TopFrame, FrameMoved
  <1>2. stack' = <<g, f>> \o Tail(stack) /\ result' \in Words
    BY DEF Call, Enter, Words, Answers
  <1>3. Allowed(touch', f, g)
    OBVIOUS
  <1> HIDE DEF f
  <1>4. Len(stack) = 1 /\ Bottom = Top
    BY StackFacts
  <1>5. /\ stack' \in Seq(Frames) /\ stack' # <<>> /\ Top' = g /\ Len(stack') = 2
        /\ stack'[1] = g /\ stack'[2] = f /\ Bottom' = f
    BY <1>1, <1>2, <1>4, EnterShape
  <1>6. Legal'
    <2> SUFFICES ASSUME NEW i \in 1 .. Len(stack') - 1
                 PROVE  Allowed(touch', stack'[i + 1], stack'[i])
      BY DEF Legal
    <2>1. i = 1
      BY <1>5
    <2> QED BY <1>3, <1>5, <2>1
  <1> QED BY <1>1, <1>2, <1>5, <1>6 DEF Typed

\* A gesture goes on by itself.
LEMMA GestureMoves ==
  ASSUME Typed, Legal, stack # <<>>, Top.at \in Outermost, NEW f \in Frames, stack' = <<f>> \o Tail(stack)
  PROVE  /\ Typed' <=> result' \in Words /\ finger' \in {"up", "down"}
         /\ Legal' /\ stack' # <<>> /\ Top' = f /\ Bottom' = f
  <1>4. Len(stack) = 1 /\ Bottom = Top
    BY StackFacts
  <1>5. /\ stack' \in Seq(Frames) /\ stack' # <<>> /\ Top' = f /\ Len(stack') = 1 /\ Bottom' = f
    BY <1>4, ReplaceShape
  <1>6. Legal'
    <2>1. \A i : i \notin 1 .. 1 - 1
      OBVIOUS
    <2> QED BY <1>5, <2>1 DEF Legal
  <1> QED BY <1>5, <1>6 DEF Typed

LEMMA GestureEnds ==
  ASSUME CallsInv, stack # <<>>, Top.at \in Outermost, NEW v \in Words, Return(v), finger # "down",
         UNCHANGED <<finger, deref>>
  PROVE  CallsInv'
  <1>1. Len(stack) = 1 /\ Typed
    BY StackFacts DEF CallsInv
  <1>2. stack' = <<>>
    BY <1>1, StackFacts DEF Return, CallsInv
  <1>3. result' \in Words /\ finger' = "up" /\ deref' = "none"
    BY <1>1 DEF Return, Words, Answers, Typed, CallsInv, TouchInv
  <1> QED BY <1>2, <1>3, Emptied DEF NullUse

LEMMA GestureTop ==
  ASSUME CallsInv, stack # <<>>, Top.at \in Outermost
  PROVE  /\ Len(stack) = 1 /\ Bottom = Top /\ Top \in Frames /\ Typed /\ Legal
         /\ deref = "none" /\ Top.n \in Nat /\ Top.n # 0 /\ Top.cmd \in Words /\ result \in Words
         /\ finger \in {"up", "down"}
         /\ Top.at \in GestureBody => Top.cmd \in DOMAIN Gestures
         /\ Top.at \in PlayBody => Top.cmd \in DOMAIN PlayGestures
         /\ Top.at \in UnitBody => Top.cmd \in DOMAIN UnitGestures
  <1>1. Len(stack) = 1 /\ Bottom = Top /\ Top \in Frames /\ Typed /\ Legal
    BY StackFacts DEF CallsInv
  <1>2. deref = "none" /\ result \in Words /\ finger \in {"up", "down"}
    BY <1>1 DEF CallsInv, TouchInv, Typed
  <1>3. Top.n \in Nat /\ Top.n # 0 /\ Top.cmd \in Words
    BY <1>1 DEF Frames
  <1> QED BY <1>1, <1>2, <1>3 DEF CallsInv, BottomInv

LEMMA GestureBeginKeeps ==
  ASSUME CallsInv, GestureBegin \/ GestureStarted
  PROVE  CallsInv'
  <1> USE DEF At
  <1>1. stack # <<>> /\ Top.at \in {"gesture", "gesture.started"}
        /\ UNCHANGED <<touch, toucher, deref, finger>>
    BY DEF GestureBegin, GestureStarted, touchVars
  <1>2. Top.at \in Outermost /\ Top.at \in GestureBody
    BY <1>1 DEF Outermost, Gesturing, GestureBody
  <1>3. Top.n = 1 /\ finger # "down" /\ Top.cmd \in DOMAIN Gestures
    <2>1. Bottom.at \notin {"gesture.next", "gesture.sent"} \cup PlayBody \cup UnitBody
      BY <1>1, <1>2, GestureTop DEF PlayBody, UnitBody
    <2>2. finger # "down"
      BY <2>1 DEF CallsInv, FingerInv, DownInv
    <2> QED BY <1>1, <1>2, <2>2, GestureTop DEF CallsInv, BottomInv
  <1>4. Gestures' = Gestures
    BY <1>1 DEF Gestures
  <1>5. ASSUME Jump("gesture.next"), toucher PROVE CallsInv'
    <2> DEFINE f == [Top EXCEPT !.at = "gesture.next"]
    <2>1. f \in Frames /\ f.at = "gesture.next" /\ f.cmd = Top.cmd /\ f.n = Top.n
      BY <1>1, <1>2, GestureTop, FrameMoved DEF Labels, GestureBody
    <2>2. stack' = <<f>> \o Tail(stack) /\ result' \in Words
      BY <1>5 DEF Jump, Goto, Replace, Words, Answers
    <2> HIDE DEF f
    <2>3. Typed' /\ Legal' /\ stack' # <<>> /\ Top' = f /\ Bottom' = f
      BY <1>1, <1>2, <2>1, <2>2, GestureTop, GestureMoves
    <2>4. BottomInv'
      BY <1>3, <1>4, <2>1, <2>3 DEF BottomInv, PlayBody, CommitBody, InputBody, UnitBody
    <2>5. TouchInv'
      BY <1>1, <1>2, <1>5, <2>1, <2>3, GestureTop DEF TouchInv, NullUse
    <2>6. FingerInv'
      BY <1>1, <1>3, <2>1, <2>3 DEF FingerInv
    <2> QED BY <2>3, <2>4, <2>5, <2>6 DEF CallsInv
  <1>6. CASE GestureBegin
    <2>1. CASE toucher
      BY <1>5, <1>6, <2>1 DEF GestureBegin
    <2>2. CASE Call(Hup, "gesture.started")
      <3>1. "gesture.started" \in Labels /\ "gesture.started" \in HupWaits
        BY DEF Labels, GestureBody, HupWaits
      <3>2. Allowed(touch', [Top EXCEPT !.at = "gesture.started"], Hup)
        <4>1. [Top EXCEPT !.at = "gesture.started"].at = "gesture.started"
          BY <1>1, <1>2, <3>1, GestureTop, FrameMoved
        <4> QED BY <3>1, <4>1, HupIsNew DEF Allowed
      <3>3. /\ Typed' /\ Legal' /\ stack' # <<>> /\ Top' = Hup
            /\ Bottom'.at = "gesture.started" /\ Bottom'.cmd = Top.cmd /\ Bottom'.n = Top.n
        BY <1>1, <1>2, <2>2, <3>1, <3>2, GestureTop, GestureCalls, HupIsNew
      <3>4. BottomInv'
        BY <1>3, <1>4, <3>3 DEF BottomInv, PlayBody, CommitBody, InputBody, UnitBody
      <3>5. TouchInv'
        BY <1>1, <1>2, <3>3, GestureTop, HupIsNew DEF TouchInv, NullUse
      <3>6. FingerInv'
        BY <1>1, <1>3, <3>3, HupIsNew DEF FingerInv, InputBody
      <3> QED BY <3>3, <3>4, <3>5, <3>6 DEF CallsInv
    <2> QED BY <1>6, <2>1, <2>2 DEF GestureBegin
  <1>7. CASE GestureStarted
    <2>1. CASE result = "yes"
      <3>1. toucher
        BY <1>7, <2>1 DEF CallsInv, TouchInv, GestureStarted
      <3> QED BY <1>5, <1>7, <2>1, <3>1 DEF GestureStarted
    <2>2. CASE Return("no")
      BY <1>1, <1>2, <1>3, <2>2, GestureEnds DEF Words, Answers
    <2> QED BY <1>7, <2>1, <2>2 DEF GestureStarted
  <1> QED BY <1>6, <1>7

LEMMA GestureSentKeeps ==
  ASSUME CallsInv, GestureSent
  PROVE  CallsInv'
  <1> USE DEF At
  <1>1. stack # <<>> /\ Top.at = "gesture.sent" /\ UNCHANGED <<touch, toucher, deref, finger>>
    BY DEF GestureSent, touchVars
  <1>2. Top.at \in Outermost /\ Top.at \in GestureBody
    BY <1>1 DEF Outermost, Gesturing, GestureBody
  <1>3. Top.cmd \in DOMAIN Gestures /\ Top.n \in 1 .. Len(Gestures[Top.cmd]) /\ Bottom = Top
    <2>1. Top.cmd \in DOMAIN Gestures /\ Top.n <= Len(Gestures[Top.cmd])
      BY <1>1, <1>2, GestureTop DEF CallsInv, BottomInv
    <2>2. Len(Gestures[Top.cmd]) \in Nat
      BY <2>1, GestureCommands
    <2> QED BY <1>1, <1>2, <2>1, <2>2, GestureTop
  <1>4. Gestures' = Gestures
    BY <1>1 DEF Gestures
  <1>5. finger = "down" => /\ toucher /\ Top.n < UpAt(touch, Top.cmd)
                           /\ result = "yes" \/ Gestures[Top.cmd][Top.n] \in Discarded
    BY <1>1, <1>2, <1>3 DEF CallsInv, FingerInv, DownInv
  <1>6. CASE (result = "yes" \/ Gestures[Top.cmd][Top.n] \in Discarded) /\ Again("gesture.next")
    <2> DEFINE f == [Top EXCEPT !.at = "gesture.next", !.n = @ + 1]
    <2>1. f \in Frames /\ f.at = "gesture.next" /\ f.cmd = Top.cmd /\ f.n = Top.n + 1
      BY <1>1, <1>2, GestureTop, FrameRepeated DEF Labels, GestureBody
    <2>2. stack' = <<f>> \o Tail(stack) /\ result' \in Words
      BY <1>1, <1>2, <1>6, GestureTop DEF Again, Repeat, Replace
    <2> HIDE DEF f
    <2>3. Typed' /\ Legal' /\ stack' # <<>> /\ Top' = f /\ Bottom' = f
      BY <1>1, <1>2, <2>1, <2>2, GestureTop, GestureMoves
    <2>4. BottomInv'
      BY <1>3, <1>4, <2>1, <2>3 DEF BottomInv, PlayBody, CommitBody, InputBody, UnitBody
    <2>5. Top.cmd # "pause" => toucher \/ (Top.cmd = "late" /\ Top.n = 5)
      <3>1. CASE result = "yes"
        BY <1>1, <3>1 DEF CallsInv, TouchInv
      <3>2. CASE Gestures[Top.cmd][Top.n] \in Discarded
        BY <1>3, <3>2, GestureCommands
      <3> QED BY <1>6, <3>1, <3>2
    <2>6. Top.n = 5 => Top.n + 1 > 5
      OBVIOUS
    <2>7. TouchInv'
      BY <1>1, <1>2, <2>1, <2>3, <2>5, <2>6, GestureTop DEF TouchInv, NullUse
    <2>8. finger = "down" => Top.n + 1 <= UpAt(touch, Top.cmd)
      BY <1>1, <1>2, <1>3, <1>5, GestureTop, LiftFacts
    <2>9. FingerInv'
      BY <1>1, <1>2, <1>5, <2>1, <2>3, <2>8 DEF FingerInv, DownInv, PlayBody, UnitBody
    <2> QED BY <2>3, <2>4, <2>7, <2>9 DEF CallsInv
  <1>7. CASE ~(result = "yes" \/ Gestures[Top.cmd][Top.n] \in Discarded) /\ Return("no")
    BY <1>1, <1>2, <1>5, <1>7, GestureEnds DEF Words, Answers
  <1> QED BY <1>6, <1>7 DEF GestureSent

\* One more command of a gesture is begun: what it calls may touch the screen
\* only as this command does.
LEMMA GestureCallKeeps ==
  ASSUME CallsInv, stack # <<>>, Top.at = "gesture.next", Top.n <= Len(Gestures[Top.cmd]),
         NEW g \in Frames, Call(g, "gesture.sent"), UNCHANGED <<touch, toucher, deref, finger>>,
         Serves("gesture.sent", g),
         \/ g.at = "command" /\ Gestures[Top.cmd][Top.n] = "esc"
         \/ g.at = "input" /\ ~g.flag /\ g.cmd = Gestures[Top.cmd][Top.n] /\ toucher
  PROVE  CallsInv'
  <1>1. Top.at \in Outermost /\ Top.at \in GestureBody
    BY DEF Outermost, Gesturing, GestureBody
  <1>2. Top.cmd \in DOMAIN Gestures /\ Top.n \in 1 .. Len(Gestures[Top.cmd]) /\ Bottom = Top
    <2>1. Top.cmd \in DOMAIN Gestures /\ Len(Gestures[Top.cmd]) \in Nat
      BY <1>1, GestureTop, GestureCommands
    <2> QED BY <1>1, <2>1, GestureTop
  <1>3. Gestures' = Gestures
    BY DEF Gestures
  <1> DEFINE f == [Top EXCEPT !.at = "gesture.sent"]
  <1>4. f \in Frames /\ f.at = "gesture.sent" /\ f.cmd = Top.cmd /\ f.n = Top.n
        /\ "gesture.sent" \in Labels
    BY <1>1, GestureTop, FrameMoved DEF Labels, GestureBody
  <1>5. Allowed(touch', f, g)
    <2>1. "command" \in CommandBody \ InputBody /\ "input" \in InputBody \ CommandBody
      BY DEF CommandBody, InputBody
    <2> HIDE DEF f
    <2>2. g.at = "command" => Escaping(touch, f)
      BY <1>2, <1>4, GestureCommands DEF Escaping
    <2>3. g.at = "input" => /\ ~g.flag
                            /\ g.cmd = "down" => f.n = 1
                            /\ g.cmd = "up" <=> f.n = UpAt(touch, f.cmd)
      BY <1>2, <1>4, GestureCommands
    <2> QED BY <1>4, <2>1, <2>2, <2>3 DEF Allowed
  <1> HIDE DEF f
  <1>6. /\ Typed' /\ Legal' /\ stack' # <<>> /\ Top' = g
        /\ Bottom'.at = "gesture.sent" /\ Bottom'.cmd = Top.cmd /\ Bottom'.n = Top.n
    BY <1>1, <1>4, <1>5, GestureTop, GestureCalls DEF f
  <1>7. BottomInv'
    BY <1>2, <1>3, <1>6 DEF BottomInv, PlayBody, CommitBody, InputBody, UnitBody
  <1>8. TouchInv'
    BY <1>1, <1>6, GestureTop DEF TouchInv, NullUse, At
  <1>9. FingerInv'
    <2>1. ASSUME finger' = "down" PROVE DownInv'
      <3>1. toucher /\ Top.n <= UpAt(touch, Top.cmd)
        BY <1>1, <1>2, <2>1 DEF CallsInv, FingerInv, DownInv
      <3> QED BY <1>6, <3>1 DEF DownInv, PlayBody, UnitBody, At
    <2> QED BY <1>6, <2>1 DEF FingerInv, At
  <1> QED BY <1>6, <1>7, <1>8, <1>9 DEF CallsInv

LEMMA GestureNextKeeps ==
  ASSUME CallsInv, GestureNext
  PROVE  CallsInv'
  <1>1. stack # <<>> /\ Top.at = "gesture.next" /\ UNCHANGED <<touch, toucher, finger>>
    BY DEF GestureNext, At
  <1>2. Top.at \in Outermost /\ Top.at \in GestureBody
    BY <1>1 DEF Outermost, Gesturing, GestureBody
  <1>3. /\ Top.cmd \in DOMAIN Gestures /\ Len(Gestures[Top.cmd]) \in Nat
        /\ UpAt(touch, Top.cmd) <= Len(Gestures[Top.cmd]) /\ UpAt(touch, Top.cmd) \in Nat
        /\ Top.n \in Nat /\ Top.n # 0
    BY <1>1, <1>2, GestureTop, GestureCommands, LiftFacts
  <1>4. finger = "down" => toucher /\ Top.n <= UpAt(touch, Top.cmd)
    BY <1>1, <1>2, GestureTop DEF CallsInv, FingerInv, DownInv
  <1> DEFINE c == Gestures[Top.cmd][Top.n]
  <1>5. Top.n <= Len(Gestures[Top.cmd]) => c \in Words
    BY <1>3, GestureCommands
  <1>6. CASE Top.n > Len(Gestures[Top.cmd])
    <2>1. Return("yes") /\ UNCHANGED deref
      BY <1>6 DEF GestureNext
    <2>2. finger # "down"
      BY <1>3, <1>4, <1>6
    <2> QED BY <1>1, <1>2, <2>1, <2>2, GestureEnds DEF Words, Answers
  <1>7. CASE Top.n <= Len(Gestures[Top.cmd]) /\ c = "esc"
    <2>0. ~(Top.n > Len(Gestures[Top.cmd]))
      BY <1>3, <1>7
    <2>1. Call(AdbCommand(FALSE), "gesture.sent") /\ UNCHANGED deref
      BY <1>7, <2>0 DEF GestureNext
    <2>2. AdbCommand(FALSE) \in Frames /\ AdbCommand(FALSE).at = "command"
      BY FrameNew DEF AdbCommand, Labels, CommandBody, Words, Commands
    <2>3. Serves("gesture.sent", AdbCommand(FALSE))
      BY <2>2 DEF Serves, Waits, HupWaits, Outermost, Gesturing, GestureBody, PlayBody, UnitBody,
                  InjectBody, InputBody, CommitBody, TouchBody, CtrlBody
    <2> QED BY <1>1, <1>7, <2>1, <2>2, <2>3, GestureCallKeeps
  <1>8. CASE Top.n <= Len(Gestures[Top.cmd]) /\ c # "esc" /\ toucher
    <2>0. ~(Top.n > Len(Gestures[Top.cmd]))
      BY <1>3, <1>8
    <2>1. Call(Input(c, FALSE), "gesture.sent") /\ UNCHANGED deref
      BY <1>8, <2>0 DEF GestureNext
    <2>2. /\ Input(c, FALSE) \in Frames /\ Input(c, FALSE).at = "input"
          /\ Input(c, FALSE).cmd = c /\ ~Input(c, FALSE).flag
      <3>1. c \in Words /\ "input" \in Labels
        BY <1>5, <1>8 DEF Labels, InputBody
      <3> HIDE DEF c
      <3> QED BY <3>1, FrameNew DEF Input
    <2>3. Serves("gesture.sent", Input(c, FALSE))
      BY <2>2 DEF Serves, Waits, HupWaits, Outermost, Gesturing, GestureBody, PlayBody, UnitBody,
                  InjectBody, InputBody, CommitBody, TouchBody, CtrlBody
    <2> QED BY <1>1, <1>8, <2>1, <2>2, <2>3, GestureCallKeeps
  <1>9. CASE Top.n <= Len(Gestures[Top.cmd]) /\ c # "esc" /\ ~toucher
    <2>0. ~(Top.n > Len(Gestures[Top.cmd]))
      BY <1>3, <1>9
    <2>1. stack' = <<>> /\ result' = "crash" /\ deref' = Top.cmd
      BY <1>9, <2>0 DEF GestureNext
    <2>2. Top.cmd = "pause"
      <3>1. Top.cmd # "pause" => Top.cmd = "late" /\ Top.n > 5
        BY <1>1, <1>9 DEF CallsInv, TouchInv, At
      <3>2. Top.cmd = "late" => Len(Gestures[Top.cmd]) = 5
        BY <1>3, GestureCommands
      <3> QED BY <1>3, <1>9, <3>1, <3>2
    <2>3. finger' = "up"
      BY <1>1, <1>2, <1>4, <1>9, GestureTop
    <2>4. NullUse'
      BY <1>1, <1>9, <2>1, <2>2 DEF NullUse
    <2> QED BY <2>1, <2>3, <2>4, Emptied DEF Words, Answers
  <1>10. Top.n > Len(Gestures[Top.cmd]) \/ Top.n <= Len(Gestures[Top.cmd])
    BY <1>3
  <1> QED BY <1>6, <1>7, <1>8, <1>9, <1>10

LEMMA PlayCommands ==
  ASSUME NEW c \in DOMAIN PlayGestures
  PROVE  /\ Len(PlayGestures[c]) = PlayUpAt(c)
         /\ \A i \in 1 .. Len(PlayGestures[c]) :
              /\ PlayGestures[c][i] \in Words
              /\ PlayGestures[c][i] = "down" <=> i = 1
              /\ PlayGestures[c][i] = "up" <=> i = PlayUpAt(c)
  <1> DEFINE g == PlayGestures[c]
  <1>1. CASE c = "click"
    <2>1. Len(g) = 2 /\ g[1] = "down" /\ g[2] = "up"
      BY <1>1 DEF PlayGestures, Path
    <2> HIDE DEF g
    <2>2. \A i \in 1 .. 2 : i = 1 \/ i = 2
      OBVIOUS
    <2>3. PlayUpAt(c) = 2
      BY <1>1 DEF PlayUpAt
    <2>4. \A i \in 1 .. Len(g) : g[i] \in Words
      BY <2>1, <2>2 DEF Words, Commands
    <2>5. \A i \in 1 .. Len(g) : (g[i] = "down" <=> i = 1) /\ (g[i] = "up" <=> i = PlayUpAt(c))
      BY <2>1, <2>2, <2>3
    <2> QED BY <2>1, <2>3, <2>4, <2>5 DEF g
  <1>2. CASE c = "swipe"
    <2>1. Len(g) = 3 /\ g[1] = "down" /\ g[2] = "move" /\ g[3] = "up"
      BY <1>2 DEF PlayGestures, Path
    <2> HIDE DEF g
    <2>2. \A i \in 1 .. 3 : i = 1 \/ i = 2 \/ i = 3
      OBVIOUS
    <2>3. PlayUpAt(c) = 3
      BY <1>2 DEF PlayUpAt
    <2>4. \A i \in 1 .. Len(g) : g[i] \in Words
      BY <2>1, <2>2 DEF Words, Commands
    <2>5. \A i \in 1 .. Len(g) : (g[i] = "down" <=> i = 1) /\ (g[i] = "up" <=> i = PlayUpAt(c))
      BY <2>1, <2>2, <2>3
    <2> QED BY <2>1, <2>3, <2>4, <2>5 DEF g
  <1>3. CASE c = "extra"
    <2>1. Len(g) = 4 /\ g[1] = "down" /\ g[2] = "move" /\ g[3] = "move" /\ g[4] = "up"
      BY <1>3 DEF PlayGestures, Path
    <2> HIDE DEF g
    <2>2. \A i \in 1 .. 4 : i = 1 \/ i = 2 \/ i = 3 \/ i = 4
      OBVIOUS
    <2>3. PlayUpAt(c) = 4
      BY <1>3 DEF PlayUpAt
    <2>4. \A i \in 1 .. Len(g) : g[i] \in Words
      BY <2>1, <2>2 DEF Words, Commands
    <2>5. \A i \in 1 .. Len(g) : (g[i] = "down" <=> i = 1) /\ (g[i] = "up" <=> i = PlayUpAt(c))
      BY <2>1, <2>2, <2>3
    <2> QED BY <2>1, <2>3, <2>4, <2>5 DEF g
  <1> QED BY <1>1, <1>2, <1>3, LiftFacts

LEMMA PlayGestureKeeps ==
  ASSUME CallsInv, PlayGesture, UNCHANGED <<touch, toucher, deref>>
  PROVE  CallsInv'
  <1>1. stack # <<>> /\ Top.at = "play.gesture" /\ finger' = finger
    BY DEF PlayGesture, At
  <1>2. Top.at \in Outermost /\ Top.at \in PlayBody
    BY <1>1 DEF Outermost, Gesturing, PlayBody
  <1>3. /\ Top.cmd \in DOMAIN PlayGestures /\ Len(PlayGestures[Top.cmd]) = PlayUpAt(Top.cmd)
        /\ PlayUpAt(Top.cmd) \in Nat /\ Top.n \in Nat /\ Top.n # 0
    BY <1>1, <1>2, GestureTop, PlayCommands, LiftFacts
  <1>4. finger = "down" => Top.n <= PlayUpAt(Top.cmd) /\ Top.n >= 2
    BY <1>1, <1>2, GestureTop DEF CallsInv, FingerInv, DownInv, At
  <1>5. CASE Top.n > Len(PlayGestures[Top.cmd])
    <2>1. Return(result)
      BY <1>5 DEF PlayGesture
    <2>2. finger # "down"
      BY <1>3, <1>4, <1>5
    <2> QED BY <1>1, <1>2, <2>1, <2>2, GestureTop, GestureEnds
  <1>6. CASE ~(Top.n > Len(PlayGestures[Top.cmd]))
    <2> DEFINE g == Commit(PlayGestures[Top.cmd][Top.n])
               f == [Top EXCEPT !.at = "play.touched"]
    <2>0. Top.n \in 1 .. Len(PlayGestures[Top.cmd]) /\ Top.n <= PlayUpAt(Top.cmd)
      BY <1>3, <1>6
    <2>1. Call(g, "play.touched")
      BY <1>6 DEF PlayGesture
    <2>2. /\ g \in Frames /\ g.at = "play.commit"
          /\ g.cmd = "down" <=> Top.n = 1
          /\ g.cmd = "up" <=> Top.n = PlayUpAt(Top.cmd)
      <3>1. PlayGestures[Top.cmd][Top.n] \in Words
        BY <1>3, <2>0, PlayCommands
      <3>2. g \in Frames /\ g.at = "play.commit" /\ g.cmd = PlayGestures[Top.cmd][Top.n]
        <4>1. "play.commit" \in Labels
          BY DEF Labels, CommitBody
        <4>2. \A w \in Words : Commit(w) = Frame("play.commit", w, FALSE)
          BY DEF Commit
        <4>3. g = Frame("play.commit", PlayGestures[Top.cmd][Top.n], FALSE)
          BY <3>1, <4>2
        <4> HIDE DEF g
        <4> QED BY <3>1, <4>1, <4>3, FrameNew
      <3> QED BY <1>3, <2>0, <3>2, PlayCommands
    <2>3. Serves("play.touched", g)
      BY <2>2 DEF Serves, Waits, HupWaits, Outermost, Gesturing, GestureBody, PlayBody, UnitBody,
                  InjectBody, InputBody, CommitBody, TouchBody, CtrlBody
    <2>4. f \in Frames /\ f.at = "play.touched" /\ f.cmd = Top.cmd /\ f.n = Top.n
          /\ "play.touched" \in Labels
      BY <1>1, <1>2, GestureTop, FrameMoved DEF Labels, PlayBody
    <2> HIDE DEF f, g
    <2>5. Allowed(touch', f, g)
      BY <2>2, <2>3, <2>4 DEF Allowed, CommitBody, InputBody
    <2>6. /\ Typed' /\ Legal' /\ stack' # <<>> /\ Top' = g
          /\ Bottom'.at = "play.touched" /\ Bottom'.cmd = Top.cmd /\ Bottom'.n = Top.n
      BY <1>1, <1>2, <2>1, <2>2, <2>4, <2>5, GestureTop, GestureCalls DEF f
    <2>7. BottomInv'
      BY <1>3, <2>0, <2>6 DEF BottomInv, GestureBody, CommitBody, InputBody, UnitBody
    <2>8. TouchInv'
      BY <1>1, <1>2, <2>2, <2>6, GestureTop DEF TouchInv, NullUse, At
    <2>9. FingerInv'
      BY <1>1, <1>4, <2>0, <2>2, <2>6 DEF FingerInv, DownInv, GestureBody, PlayBody, UnitBody, At
    <2> QED BY <2>6, <2>7, <2>8, <2>9 DEF CallsInv
  <1> QED BY <1>5, <1>6

LEMMA PlayTouchedKeeps ==
  ASSUME CallsInv, PlayTouched, UNCHANGED <<touch, toucher, deref>>
  PROVE  CallsInv'
  <1>1. stack # <<>> /\ Top.at = "play.touched" /\ finger' = finger
    BY DEF PlayTouched, At
  <1>2. Top.at \in Outermost /\ Top.at \in PlayBody
    BY <1>1 DEF Outermost, Gesturing, PlayBody
  <1>3. /\ Top.cmd \in DOMAIN PlayGestures /\ PlayUpAt(Top.cmd) \in Nat /\ Top.n \in Nat /\ Top.n # 0
    BY <1>1, <1>2, GestureTop, LiftFacts
  <1>4. finger = "down" => Top.n < PlayUpAt(Top.cmd) /\ ~(Top.cmd = "click" /\ result = "no")
    BY <1>1 DEF CallsInv, FingerInv, DownInv, At
  <1>5. CASE Top.cmd = "click" /\ result = "no" /\ Return("no")
    BY <1>1, <1>2, <1>4, <1>5, GestureEnds DEF Words, Answers
  <1>6. CASE Again("play.gesture")
    <2> DEFINE f == [Top EXCEPT !.at = "play.gesture", !.n = @ + 1]
    <2>1. f \in Frames /\ f.at = "play.gesture" /\ f.cmd = Top.cmd /\ f.n = Top.n + 1
      BY <1>1, <1>2, GestureTop, FrameRepeated DEF Labels, PlayBody
    <2>2. stack' = <<f>> \o Tail(stack) /\ result' \in Words
      BY <1>1, <1>2, <1>6, GestureTop DEF Again, Repeat, Replace
    <2> HIDE DEF f
    <2>3. Typed' /\ Legal' /\ stack' # <<>> /\ Top' = f /\ Bottom' = f
      BY <1>1, <1>2, <2>1, <2>2, GestureTop, GestureMoves
    <2>4. BottomInv'
      BY <1>3, <2>1, <2>3 DEF BottomInv, GestureBody, CommitBody, InputBody, UnitBody
    <2>5. TouchInv'
      BY <1>1, <1>2, <2>1, <2>3, GestureTop DEF TouchInv, NullUse, At
    <2>6. finger = "down" => Top.n + 1 <= PlayUpAt(Top.cmd) /\ Top.n + 1 >= 2
      BY <1>3, <1>4
    <2>7. FingerInv'
      BY <1>1, <2>1, <2>3, <2>6 DEF FingerInv, DownInv, GestureBody, PlayBody, UnitBody, At
    <2> QED BY <2>3, <2>4, <2>5, <2>7 DEF CallsInv
  <1> QED BY <1>5, <1>6 DEF PlayTouched

\* A touch of PlayTools is committed for the gesture that stands below it.
LEMMA CommitBelow ==
  ASSUME CallsInv, stack # <<>>, Top.at \in CommitBody
  PROVE  /\ Len(stack) > 1
         /\ stack[2] = Bottom /\ Bottom.at = "play.touched" /\ Bottom \in Frames
         /\ Top.cmd = "down" <=> Bottom.n = 1
         /\ Top.cmd = "up" <=> Bottom.n = PlayUpAt(Bottom.cmd)
  <1> USE DEF CallsInv
  <1>1. Len(stack) > 1
    BY StackFacts DEF BottomInv
  <1>2. Allowed(touch, stack[2], Top) /\ stack[2] \in Frames
    <2>1. 1 \in 1 .. Len(stack) - 1 /\ 2 \in 1 .. Len(stack) /\ 1 + 1 = 2
      BY <1>1, StackFacts
    <2>2. Allowed(touch, stack[1 + 1], stack[1])
      BY <2>1 DEF Legal
    <2> QED BY <2>1, <2>2, StackFacts
  <1>3. stack[2].at = "play.touched"
    BY <1>2 DEF Allowed, Serves
  <1>4. stack[2] = Bottom
    <2>1. 2 \notin 1 .. Len(stack) - 1
      BY <1>3, StackFacts, GesturingPlaces DEF PlayBody, Gesturing
    <2>2. \A n \in Nat : n > 1 /\ 2 \notin 1 .. n - 1 => n = 2
      OBVIOUS
    <2>3. Len(stack) = 2
      BY <1>1, <2>1, <2>2, StackFacts
    <2> QED BY <2>3 DEF Bottom
  <1> QED BY <1>1, <1>2, <1>3, <1>4 DEF Allowed

LEMMA PlayCommitKeeps ==
  ASSUME CallsInv, PlayCommit \/ PlayWrite, UNCHANGED <<touch, toucher, deref>>
  PROVE  CallsInv'
  <1>1. stack # <<>> /\ Top.at \in CommitBody /\ Top.at \notin Gesturing
    BY GesturingPlaces DEF PlayCommit, PlayWrite, At, CommitBody
  <1>2. CASE PlayCommit
    <2>1. Open \in Frames /\ Open.at = "play.open"
      BY FrameNew DEF Open, Labels, OpenBody, Words, Commands
    <2>2. Kin("play.commit", "play.write") /\ "play.write" \notin Gesturing /\ "play.write" \in Labels
      BY GesturingPlaces DEF CommitBody, Labels, Kin, HupBody, IOBody, ReleaseBody, InputBody,
           CommandBody, TouchBody, CtrlBody, Outermost, InjectBody
    <2>3. Serves("play.write", Open)
      BY <2>1 DEF Serves, Waits, HupWaits, Outermost, Gesturing, GestureBody, PlayBody, UnitBody,
                  InjectBody, InputBody, CommitBody, TouchBody, CtrlBody
    <2>4. Allowed(touch, [Top EXCEPT !.at = "play.write"], Open)
      <3>1. [Top EXCEPT !.at = "play.write"].at = "play.write"
        BY <1>1, <2>2, TopFrame, FrameMoved DEF CallsInv
      <3> QED BY <2>3, <3>1 DEF Allowed
    <2>5. Open.at \notin Gesturing \cup InputBody \cup
            {"inject.started", "hup.read", "hup.reading", "hup.props"}
      BY <2>1 DEF Gesturing, GestureBody, PlayBody, UnitBody, InputBody
    <2>6. Top.at = "play.commit" /\ Call(Open, "play.write") /\ UNCHANGED finger
      BY <1>2 DEF PlayCommit, At
    <2> QED BY <1>1, <2>1, <2>2, <2>4, <2>5, <2>6, CallKeeps
  <1>3. CASE PlayWrite
    <2> USE DEF CallsInv
    <2>1. PICK v \in {"yes", "no"} : /\ Return(v)
                                     /\ v = "yes" => Sent(Top.cmd)
                                     /\ v = "no" => Unsent(Top.cmd)
      BY <1>3 DEF PlayWrite
    <2>2. Pop /\ result' \in Words /\ (Tail(stack) # <<>> => result' = v)
      BY <2>1 DEF Pop, Return, Words, Answers
    <2>3. /\ stack' \in Seq(Frames) /\ stack' # <<>> /\ Bottom' = Bottom /\ Top' = Bottom
          /\ result' = v
      BY <1>1, <2>2, CommitBelow, Second DEF Pop
    <2>4. Legal'
      BY <1>1, <2>2, PopLegal DEF SameGestures
    <2>5. Typed'
      BY <2>1, <2>2, <2>3 DEF Typed, Sent, Unsent
    <2>6. BottomInv'
      <3>1. Gestures' = Gestures /\ BottomInv
        BY DEF Gestures
      <3> QED BY <1>1, <2>3, <3>1 DEF BottomInv
    <2>7. deref' = "none"
      BY <1>1, Below
    <2>8. TouchInv'
      BY <1>1, <2>3, <2>7, CommitBelow DEF TouchInv, NullUse, At
    <2>9. FingerInv'
      <3>1. ASSUME finger' = "down" PROVE DownInv'
        <4>1. Bottom.at \in PlayBody /\ Bottom.cmd \in DOMAIN PlayGestures
          BY <1>1, CommitBelow DEF BottomInv, PlayBody
        <4>2. Bottom.n \in Nat /\ PlayUpAt(Bottom.cmd) \in Nat /\ PlayUpAt(Bottom.cmd) > 1
          BY <1>1, <4>1, CommitBelow, LiftFacts DEF Frames
        <4>3. finger = "down" => Bottom.n <= PlayUpAt(Bottom.cmd) /\ Bottom.n >= 2
          BY <1>1, <4>1 DEF FingerInv, DownInv, At, CommitBody
        <4>4. \/ v = "yes" /\ Top.cmd = "down"
              \/ Top.cmd # "up" /\ finger = "down"
          BY <2>1, <3>1 DEF Sent, Unsent
        <4>5. Bottom.n < PlayUpAt(Bottom.cmd)
          BY <1>1, <4>2, <4>3, <4>4, CommitBelow
        <4>6. ~(Bottom.cmd = "click" /\ v = "no")
          BY <4>2, <4>3, <4>4, <4>5, LiftFacts
        <4>7. Bottom.n <= PlayUpAt(Bottom.cmd)
          BY <4>2, <4>5
        <4>8. At("play.touched")' /\ ~At("gesture.sent")' /\ Bottom.at \notin GestureBody \cup UnitBody
          BY <1>1, <2>3, CommitBelow DEF GestureBody, UnitBody, At
        <4> QED BY <1>1, <2>3, <4>1, <4>5, <4>6, <4>7, <4>8, CommitBelow DEF DownInv
      <3> QED BY <1>1, <2>3, <3>1, CommitBelow DEF FingerInv, At
    <2> QED BY <2>4, <2>5, <2>6, <2>8, <2>9
  <1> QED BY <1>2, <1>3

LEMMA UnitCommands ==
  ASSUME NEW c \in DOMAIN UnitGestures
  PROVE  /\ Len(UnitGestures[c]) \in Nat
         /\ \A i \in 1 .. Len(UnitGestures[c]) :
              /\ UnitGestures[c][i] \in {"down", "move", "more", "up"}
              /\ UnitGestures[c][i] = "down" => i = 1
              /\ UnitGestures[c][i] # "up" => i < Len(UnitGestures[c])
  <1> DEFINE g == UnitGestures[c]
  <1>0. DOMAIN UnitGestures = {"click", "swipe", "extra"}
    BY DEF UnitGestures
  <1>1. CASE c = "click"
    <2>1. Len(g) = 2 /\ g[1] = "down" /\ g[2] = "up"
      BY <1>1 DEF UnitGestures, Path
    <2> HIDE DEF g
    <2>2. \A i \in 1 .. 2 : i = 1 \/ i = 2
      OBVIOUS
    <2>3. \A i \in 1 .. Len(g) : g[i] \in {"down", "move", "more", "up"}
      BY <2>1, <2>2
    <2>4. \A i \in 1 .. Len(g) : (g[i] = "down" => i = 1) /\ (g[i] # "up" => i < Len(g))
      BY <2>1, <2>2
    <2> QED BY <2>1, <2>3, <2>4 DEF g
  <1>2. CASE c = "swipe"
    <2>1. Len(g) = 3 /\ g[1] = "down" /\ g[2] = "move" /\ g[3] = "up"
      BY <1>2 DEF UnitGestures, Path
    <2> HIDE DEF g
    <2>2. \A i \in 1 .. 3 : i = 1 \/ i = 2 \/ i = 3
      OBVIOUS
    <2>3. \A i \in 1 .. Len(g) : g[i] \in {"down", "move", "more", "up"}
      BY <2>1, <2>2
    <2>4. \A i \in 1 .. Len(g) : (g[i] = "down" => i = 1) /\ (g[i] # "up" => i < Len(g))
      BY <2>1, <2>2
    <2> QED BY <2>1, <2>3, <2>4 DEF g
  <1>3. CASE c = "extra"
    <2>1. Len(g) = 4 /\ g[1] = "down" /\ g[2] = "move" /\ g[3] = "more" /\ g[4] = "up"
      BY <1>3 DEF UnitGestures, Path
    <2> HIDE DEF g
    <2>2. \A i \in 1 .. 4 : i = 1 \/ i = 2 \/ i = 3 \/ i = 4
      OBVIOUS
    <2>3. \A i \in 1 .. Len(g) : g[i] \in {"down", "move", "more", "up"}
      BY <2>1, <2>2
    <2>4. \A i \in 1 .. Len(g) : (g[i] = "down" => i = 1) /\ (g[i] # "up" => i < Len(g))
      BY <2>1, <2>2
    <2> QED BY <2>1, <2>3, <2>4 DEF g
  <1> QED BY <1>0, <1>1, <1>2, <1>3

LEMMA UnitKeeps ==
  ASSUME CallsInv, UnitWhole \/ UnitTouch \/ UnitLift, UNCHANGED <<touch, toucher, deref>>
  PROVE  CallsInv'
  <1>1. stack # <<>> /\ Top.at \in UnitBody /\ UNCHANGED <<unit, kind>>
    BY DEF UnitWhole, UnitTouch, UnitLift, At, UnitBody, unitVars
  <1>2. Top.at \in Outermost
    BY <1>1 DEF Outermost, Gesturing
  <1>3. Top.cmd \in DOMAIN UnitGestures /\ Top.n \in Nat /\ Top.n # 0 /\ Bottom = Top
    BY <1>1, <1>2, GestureTop
  <1>4. finger = "down" => /\ unit # "none" /\ kind # "MaaFwAdb"
                           /\ Top.at = "unit.gesture" => Top.n >= 2
    BY <1>1, <1>3 DEF CallsInv, FingerInv, DownInv
  \* It ends with the finger up.
  <1>5. ASSUME NEW v \in {"yes", "no"}, Return(v), finger' = "up"
        PROVE  CallsInv'
    <2>1. stack' = <<>> /\ result' \in Words
      BY <1>1, <1>2, <1>5, GestureTop, StackFacts DEF Return, Words, Answers
    <2>2. NullUse'
      BY <1>1, <1>2, GestureTop DEF NullUse
    <2> QED BY <1>5, <2>1, <2>2, Emptied
  \* It goes on.
  <1>6. ASSUME NEW f \in Frames, stack' = <<f>> \o Tail(stack), result' \in Words,
               f.at \in UnitBody, f.cmd = Top.cmd, finger' \in {"up", "down"},
               f.at = "unit.gesture" => f.n <= Len(UnitGestures[f.cmd]) /\ f.n >= 2,
               unit # "none", kind # "MaaFwAdb"
        PROVE  CallsInv'
    <2>1. Typed' /\ Legal' /\ stack' # <<>> /\ Top' = f /\ Bottom' = f
      BY <1>1, <1>2, <1>6, GestureTop, GestureMoves
    <2>2. f.at \notin GestureBody \cup PlayBody \cup CommitBody \cup InputBody
      BY <1>6 DEF UnitBody, GestureBody, PlayBody, CommitBody, InputBody
    <2>3. BottomInv'
      BY <1>3, <1>6, <2>1, <2>2 DEF BottomInv, GestureBody, PlayBody
    <2>4. f.at \notin {"input", "input.rewrite", "gesture.started", "inject.started", "gesture.next",
                       "gesture.sent", "hup.read", "hup.reading", "hup.props", "play.touched"}
      BY <1>6 DEF UnitBody
    <2>5. TouchInv'
      BY <1>1, <1>2, <2>1, <2>4, GestureTop DEF TouchInv, NullUse, At
    <2>6. FingerInv'
      BY <1>1, <1>6, <2>1, <2>2, <2>4 DEF FingerInv, DownInv, At
    <2> QED BY <2>1, <2>3, <2>5, <2>6 DEF CallsInv
  <1>7. CASE UnitWhole
    <2>1. finger # "down" /\ finger' = finger
      BY <1>4, <1>7 DEF UnitWhole
    <2>2. finger' = "up"
      BY <1>1, <1>2, <2>1, GestureTop
    <2>3. PICK v \in {"yes", "no"} : Return(v)
      BY <1>7 DEF UnitWhole
    <2> QED BY <1>5, <2>2, <2>3
  <1>8. CASE UnitLift
    BY <1>5, <1>8 DEF UnitLift
  <1>9. CASE UnitTouch
    <2> DEFINE phase == UnitGestures[Top.cmd][Top.n]
    <2>1. Top.at = "unit.gesture" /\ unit # "none" /\ kind # "MaaFwAdb"
      BY <1>9 DEF UnitTouch, At
    <2>2. Top.n \in 1 .. Len(UnitGestures[Top.cmd]) /\ Len(UnitGestures[Top.cmd]) \in Nat
      <3>1. Top.n <= Len(UnitGestures[Top.cmd])
        BY <1>1, <1>3, <2>1 DEF CallsInv, BottomInv
      <3> QED BY <1>3, <3>1, UnitCommands
    <2>3. /\ phase \in {"down", "move", "more", "up"}
          /\ phase = "down" => Top.n = 1
          /\ phase # "up" => Top.n < Len(UnitGestures[Top.cmd])
      BY <1>3, <2>2, UnitCommands
    <2>4. \/ Sent(phase) /\ phase = "up" /\ Return("yes")
          \/ Sent(phase) /\ phase # "up" /\ Again("unit.gesture")
          \/ Unsent(phase) /\ phase = "move" /\ Jump("unit.lift")
          \/ Unsent(phase) /\ phase = "more" /\ Again("unit.gesture")
          \/ Unsent(phase) /\ phase = "up" /\ (Return("yes") \/ Return("no"))
          \/ Unsent(phase) /\ phase = "down" /\ Return("no")
      <3>1. \/ Sent(phase) /\ (IF phase = "up" THEN Return("yes") ELSE Again("unit.gesture"))
            \/ /\ Unsent(phase)
               /\ CASE phase = "move" -> Jump("unit.lift")
                    [] phase = "more" -> Again("unit.gesture")
                    [] phase = "up" -> Return(IF kind = "Native" /\ Top.cmd # "click"
                                              THEN "yes" ELSE "no")
                    [] OTHER -> Return("no")
        BY <1>9 DEF UnitTouch
      <3> HIDE DEF phase
      <3> QED BY <2>3, <3>1
    <2> HIDE DEF phase
    <2>5. finger \in {"up", "down"}
      BY <1>1, <1>2, GestureTop
    <2>6. ASSUME Again("unit.gesture"), phase # "up", finger' \in {"up", "down"} PROVE CallsInv'
      <3> DEFINE f == [Top EXCEPT !.at = "unit.gesture", !.n = @ + 1]
      <3>1. f \in Frames /\ f.at = "unit.gesture" /\ f.cmd = Top.cmd /\ f.n = Top.n + 1
        BY <1>1, <1>2, GestureTop, FrameRepeated DEF Labels, UnitBody
      <3>2. stack' = <<f>> \o Tail(stack) /\ result' \in Words
        BY <1>1, <1>2, <2>6, GestureTop DEF Again, Repeat, Replace
      <3> HIDE DEF f
      <3>3. f.n <= Len(UnitGestures[f.cmd]) /\ f.n >= 2
        BY <1>3, <2>2, <2>3, <2>6, <3>1
      <3>4. f.at \in UnitBody
        BY <3>1 DEF UnitBody
      <3> QED BY <1>6, <2>1, <2>6, <3>1, <3>2, <3>3, <3>4
    <2>7. CASE Unsent(phase) /\ phase = "move" /\ Jump("unit.lift")
      <3> DEFINE f == [Top EXCEPT !.at = "unit.lift"]
      <3>1. f \in Frames /\ f.at = "unit.lift" /\ f.cmd = Top.cmd
        BY <1>1, <1>2, GestureTop, FrameMoved DEF Labels, UnitBody
      <3>2. stack' = <<f>> \o Tail(stack) /\ result' \in Words
        BY <2>7 DEF Jump, Goto, Replace, Words, Answers
      <3> HIDE DEF f
      <3>3. f.at \in UnitBody /\ finger' \in {"up", "down"}
        BY <2>5, <2>7, <3>1 DEF UnitBody, Unsent
      <3> QED BY <1>6, <2>1, <3>1, <3>2, <3>3
    <2>8. Sent(phase) => finger' \in {"up", "down"} /\ (phase = "up" => finger' = "up")
      BY <2>5 DEF Sent
    <2>9. Unsent(phase) => finger' \in {"up", "down"} /\ (phase = "up" => finger' = "up")
      BY <2>5 DEF Unsent
    <2>10. CASE Unsent(phase) /\ phase = "down" /\ Return("no")
      <3>1. finger' = finger
        BY <2>10 DEF Unsent
      <3>2. finger # "down"
        BY <1>4, <2>1, <2>3, <2>10
      <3> QED BY <1>5, <2>5, <2>10, <3>1, <3>2
    <2> QED BY <1>5, <2>4, <2>6, <2>7, <2>8, <2>9, <2>10
  <1> QED BY <1>7, <1>8, <1>9

-----------------------------------------------------------------------------
(* Every step of the thread keeps the invariant.                                   *)

\* While a connect is in progress no gesture is.
LEMMA ConnectAlone ==
  ASSUME Typed, Legal, stack # <<>>, Top.at \in CtrlBody \cup TouchBody \cup {"exit"}
  PROVE  Bottom.at \notin Gesturing
  <1>1. (CtrlBody \cup TouchBody \cup {"connected", "exit"}) \cap Gesturing = {}
    BY DEF CtrlBody, TouchBody, Gesturing, GestureBody, PlayBody, UnitBody
  <1>2. ASSUME NEW i \in 1 .. Len(stack) - 1, stack[i].at \in CtrlBody
        PROVE  Bottom.at = "connected"
    <2>1. stack[i + 1].at = "connected" /\ i + 1 \in 1 .. Len(stack)
      BY <1>2, StackFacts DEF Legal, Allowed, Serves
    <2>2. i + 1 \notin 1 .. Len(stack) - 1
      BY <2>1, StackFacts DEF Outermost
    <2>3. i + 1 = Len(stack)
      BY <2>1, <2>2, StackFacts
    <2> QED BY <2>1, <2>3 DEF Bottom
  <1>3. CASE Len(stack) = 1
    BY <1>1, <1>3, StackFacts
  <1>4. CASE Len(stack) > 1 /\ Top.at \in CtrlBody
    <2>1. 1 \in 1 .. Len(stack) - 1 /\ Top = stack[1]
      BY <1>4, StackFacts
    <2> QED BY <1>1, <1>2, <1>4, <2>1
  <1>5. CASE Len(stack) > 1 /\ Top.at \in TouchBody
    <2>1. 1 \in 1 .. Len(stack) - 1 /\ Top = stack[1] /\ 1 + 1 = 2
      BY <1>5, StackFacts
    <2>2. Allowed(touch, stack[1 + 1], stack[1])
      BY <2>1 DEF Legal
    <2>3. stack[2].at = "ctrl.connected"
      BY <1>5, <2>1, <2>2 DEF Allowed, Serves
    <2>4. stack[2].at \in CtrlBody
      BY <2>3 DEF CtrlBody
    <2>6. \A n \in Nat : n > 1 => 2 = n \/ 2 \in 1 .. n - 1
      OBVIOUS
    <2>5. 2 = Len(stack) \/ 2 \in 1 .. Len(stack) - 1
      BY <1>5, <2>6, StackFacts
    <2> QED BY <1>1, <1>2, <2>4, <2>5 DEF Bottom
  <1>6. CASE Len(stack) > 1 /\ Top.at = "exit"
    BY <1>6, StackFacts DEF Outermost
  <1> QED BY <1>3, <1>4, <1>5, <1>6, StackFacts

LEMMA IOKeeps ==
  ASSUME CallsInv, IO PROVE CallsInv'
  <1>1. Plain
    BY IOPlain DEF IO, CallsInv
  <1>2. UNCHANGED <<finger, touch, toucher, deref>>
    BY DEF IO, touchVars
  <1> QED BY <1>1, <1>2, PlainKeeps

LEMMA AdbKeeps ==
  ASSUME CallsInv, Adb PROVE CallsInv'
  <1>1. Plain
    BY CallPlainStep, ShotPlain, LinkPlain DEF Adb, AdbStep, CallsInv
  <1>2. UNCHANGED <<finger, touch, toucher, deref>>
    BY DEF Adb, touchVars
  <1> QED BY <1>1, <1>2, PlainKeeps

LEMMA TouchToolKeeps ==
  ASSUME CallsInv, TouchTool PROVE CallsInv'
  <1> USE DEF TouchTool
  <1>1. CASE TouchReconnectOk \/ TouchReconnectHup \/ TouchConnect \/ TouchConnected
             \/ TouchProbe \/ TouchProbed \/ TouchReady
    <2>1. Plain
      BY <1>1, TouchPlain DEF CallsInv
    <2>2. UNCHANGED <<finger, touch, deref>>
      BY <1>1 DEF TouchReconnectOk, TouchReconnectHup, TouchConnect, TouchConnected,
             TouchProbe, TouchProbed, TouchReady, touchVars
    <2>3. toucher' = toucher \/ TouchConnect
      BY <1>1 DEF TouchReconnectOk, TouchReconnectHup, TouchConnected,
             TouchProbe, TouchProbed, TouchReady, touchVars
    <2>4. TouchConnect => Bottom.at \notin Gesturing
      BY ConnectAlone DEF TouchConnect, At, TouchBody, CallsInv
    <2> QED BY <2>1, <2>2, <2>3, <2>4, PlainKeeps
  <1>2. CASE HupStart \/ HupPoll \/ HupRead \/ HupProps
    BY <1>2, HupKeeps
  <1>3. CASE InputWrite \/ InputRewrite
    BY <1>3, InputKeeps
  <1>4. CASE GestureBegin \/ GestureStarted
    BY <1>4, GestureBeginKeeps
  <1>5. CASE GestureNext
    BY <1>5, GestureNextKeeps
  <1>6. CASE GestureSent
    BY <1>6, GestureSentKeeps
  <1>7. CASE InjectBegin \/ InjectStarted
    BY <1>7, InjectKeeps
  <1> QED BY <1>1, <1>2, <1>3, <1>4, <1>5, <1>6, <1>7 DEF TouchStep

LEMMA PlayKeeps ==
  ASSUME CallsInv, Play PROVE CallsInv'
  <1>1. UNCHANGED <<touch, toucher, deref>>
    BY DEF Play, touchVars
  <1>2. CASE \/ PlayOpen \/ PlayAsk \/ PlayOpened \/ PlayConnect \/ PlayShot \/ PlayRead
             \/ PlayCommand \/ PlayEsc
    <2>1. Plain
      BY <1>2, PlayPlain DEF CallsInv
    <2>2. finger' = finger
      BY <1>2 DEF PlayOpen, PlayAsk, PlayOpened, PlayConnect, PlayShot, PlayRead, PlayCommand, PlayEsc
    <2> QED BY <1>1, <2>1, <2>2, PlainKeeps
  <1>3. CASE PlayCommit \/ PlayWrite
    BY <1>1, <1>3, PlayCommitKeeps
  <1>4. CASE PlayGesture
    BY <1>1, <1>4, PlayGestureKeeps
  <1>5. CASE PlayTouched
    BY <1>1, <1>5, PlayTouchedKeeps
  <1> QED BY <1>2, <1>3, <1>4, <1>5 DEF Play, PlayStep

LEMMA UnitStepKeeps ==
  ASSUME CallsInv, Unit PROVE CallsInv'
  <1>1. UNCHANGED <<touch, toucher, deref>>
    BY DEF Unit, touchVars
  <1>2. CASE ~(UnitWhole \/ UnitTouch \/ UnitLift)
    <2>1. Plain
      BY <1>2, UnitPlain DEF Unit, CallsInv
    <2>2. finger' = finger
      BY <1>2 DEF Unit, UnitStep, AdbUnitConnect, Attach32, NativeConnect,
         AdbLibrary, Win32Library, NativeLibrary, NativeConfigure,
         UnitCreate, UnitLink, AdbUnitLook, Win32Look, NativeReady,
         AdbUnitShot, Win32Shot, NativeShot, AdbUnitInject, Win32Inject, NativeInject,
         AdbUnitCommand, AdbUnitEsc, NativeCommand, NativeEsc,
         Win32Esc, KeyUp, Win32Input, Win32Start, StopWindow, StopProcess, StopByForce
    <2> QED BY <1>1, <2>1, <2>2, PlainKeeps
  <1> QED BY <1>1, <1>2, UnitKeeps

LEMMA CtrlKeeps ==
  ASSUME CallsInv,
         \/ CtrlConnect \/ CtrlCreate \/ CtrlConnected \/ CtrlFailed \/ CtrlLooked
         \/ WindowLooked \/ CtrlScale \/ WindowScale \/ ImageTry \/ ImageTaken \/ ImageLast
         \/ ExitDestroy
  PROVE  CallsInv'
  <1>1. Plain /\ finger' \in {finger, "up"} /\ deref' = deref
    BY CtrlPlain DEF CallsInv
  <1>2. CASE CtrlConnect \/ CtrlCreate \/ CtrlConnected \/ ExitDestroy
    <2>1. stack # <<>> /\ Top.at \in CtrlBody \cup TouchBody \cup {"exit"}
      BY <1>2 DEF CtrlConnect, CtrlCreate, CtrlConnected, ExitDestroy, At, CtrlBody
    <2> QED BY <1>1, <2>1, ConnectAlone, PlainKeeps DEF CallsInv
  <1>3. CASE CtrlFailed \/ CtrlLooked \/ WindowLooked \/ CtrlScale \/ WindowScale
             \/ ImageTry \/ ImageTaken \/ ImageLast
    <2>1. UNCHANGED <<touch, toucher>>
      BY <1>3 DEF CtrlFailed, CtrlLooked, WindowLooked, CtrlScale, WindowScale, ImageTry,
         ImageTaken, ImageLast, others, touchVars
    <2> QED BY <1>1, <2>1, PlainKeeps
  <1> QED BY <1>2, <1>3

-----------------------------------------------------------------------------
(* The callers.                                                                    *)

\* Between two calls no finger is down.
LEMMA AtRest ==
  ASSUME CallsInv, stack = <<>>
  PROVE  finger = "up" /\ result \in Words
  BY DEF CallsInv, Typed, FingerInv, DownInv

LEMMA BeginKeeps ==
  ASSUME CallsInv, Quiet, NEW e \in Labels, NEW c \in Words, NEW b \in BOOLEAN,
         Begin(Frame(e, c, b)), finger' = finger,
         e \in {"command", "gesture", "inject", "play.gesture", "play.command", "unit.gesture",
                "unit.inject", "unit.command", "image", "exit"},
         e = "gesture" => c \in DOMAIN Gestures,
         e = "play.gesture" => c \in DOMAIN PlayGestures,
         e = "unit.gesture" => c \in DOMAIN UnitGestures
  PROVE  CallsInv'
  <1> DEFINE f == Frame(e, c, b)
  <1>1. f \in Frames /\ f.at = e /\ f.cmd = c /\ f.n = 1
    BY FrameNew
  <1>2. stack' = <<f>> /\ UNCHANGED <<result, touch, toucher, deref>>
    BY DEF Begin, touchVars
  <1>3. finger' = "up" /\ result' \in Words /\ deref' = "none"
    BY <1>2, AtRest DEF Quiet
  <1> HIDE DEF f
  <1>4. stack' \in Seq(Frames) /\ Len(stack') = 1 /\ stack'[1] = f /\ stack' # <<>>
    BY <1>1, <1>2
  <1>5. Top' = f /\ Bottom' = f
    BY <1>2, <1>4 DEF Top, Bottom
  <1>6. Legal'
    <2>1. \A i : i \notin 1 .. 1 - 1
      OBVIOUS
    <2> QED BY <1>4, <2>1 DEF Legal
  <1>7. e = "unit.gesture" => 1 <= Len(UnitGestures[c])
    <2>1. e = "unit.gesture" => c \in {"click", "swipe", "extra"}
      BY DEF UnitGestures
    <2> QED BY <2>1 DEF UnitGestures, Path
  <1>8. BottomInv'
    <2>1. Gestures' = Gestures
      BY <1>2 DEF Gestures
    <2> QED BY <1>1, <1>5, <1>7, <2>1 DEF BottomInv, GestureBody, PlayBody, UnitBody, CommitBody, InputBody
  <1>9. TouchInv'
    BY <1>1, <1>3, <1>5 DEF TouchInv, NullUse, At
  <1>10. FingerInv'
    BY <1>3 DEF FingerInv
  <1> QED BY <1>3, <1>4, <1>6, <1>8, <1>9, <1>10 DEF CallsInv, Typed

LEMMA TouchKeeps == ASSUME CallsInv, Touch PROVE CallsInv'
  <1>1. Quiet /\ UNCHANGED <<finger, ctrlVars>>
    BY DEF Touch
  <1>2. PICK g \in {"click", "swipe", "extra", "pause", "late"} :
          IF proxy THEN Begin(Touching(g))
          ELSE /\ deref' = "proxy"
               /\ UNCHANGED <<callVars, ioVars, adbVars, touch, handler, toucher, playVars, unitVars>>
    BY DEF Touch
  <1>3. CASE proxy
    <2>1. Begin(Touching(g))
      BY <1>2, <1>3
    <2> DEFINE plain == IF g \in {"pause", "late"} THEN "swipe" ELSE g
    <2>2. plain \in {"click", "swipe", "extra"}
      OBVIOUS
    <2>3. \/ \E b \in BOOLEAN : Touching(g) = Frame("command", "act", b)
          \/ Touching(g) = Frame("gesture", g, FALSE)
          \/ Touching(g) = Frame("play.gesture", plain, FALSE)
          \/ Touching(g) = Frame("unit.gesture", plain, FALSE)
      BY DEF Touching, AdbCommand, Gesture
    <2> HIDE DEF plain
    <2>4. {"command", "gesture", "play.gesture", "unit.gesture"} \subseteq Labels
      BY DEF Labels, CommandBody, GestureBody, PlayBody, UnitBody
    <2>5. g \in Words /\ plain \in Words /\ "act" \in Words
      <3>1. {"click", "swipe", "extra", "pause", "late", "act"} \subseteq Words
        BY DEF Words, Commands
      <3> QED BY <2>2, <3>1
    <2>6. DOMAIN UnitGestures = {"click", "swipe", "extra"}
      BY DEF UnitGestures
    <2>7. ASSUME NEW b \in BOOLEAN, Touching(g) = Frame("command", "act", b) PROVE CallsInv'
      BY <1>1, <2>1, <2>4, <2>5, <2>7, BeginKeeps
    <2>8. CASE Touching(g) = Frame("gesture", g, FALSE)
      BY <1>1, <2>1, <2>4, <2>5, <2>8, LiftFacts, BeginKeeps
    <2>9. CASE Touching(g) = Frame("play.gesture", plain, FALSE)
      BY <1>1, <2>1, <2>2, <2>4, <2>5, <2>9, LiftFacts, BeginKeeps
    <2>10. CASE Touching(g) = Frame("unit.gesture", plain, FALSE)
      BY <1>1, <2>1, <2>2, <2>4, <2>5, <2>6, <2>10, BeginKeeps
    <2> QED BY <2>3, <2>7, <2>8, <2>9, <2>10
  <1>4. CASE ~proxy
    <2>1. stack' = <<>> /\ result' = result /\ deref' = "proxy" /\ ~proxy'
      BY <1>1, <1>2, <1>4 DEF callVars, ctrlVars, Quiet
    <2> QED BY <1>1, <2>1, AtRest, Emptied DEF Quiet, NullUse
  <1> QED BY <1>3, <1>4

LEMMA RequestKeeps == ASSUME CallsInv, Inject \/ Order \/ GetImage \/ Exit PROVE CallsInv'
  <1>1. Quiet /\ finger' = finger
    BY DEF Inject, Order, GetImage, Exit
  <1>2. CASE Inject
    <2>1. PICK c \in {"down", "up", "wait"} : Begin(Event(c))
      BY <1>2 DEF Inject
    <2>2. \/ Event(c) = Frame("play.command", c, FALSE)
          \/ Event(c) = Frame("inject", c, TRUE)
          \/ Event(c) = Frame("unit.inject", c, FALSE)
      <3>1. CASE object = "Adb" \/ object = "MacPlayTools"
        BY <3>1 DEF Event
      <3>2. CASE object \in {"Minitouch", "Maatouch"}
        BY <3>2 DEF Event, InputEvent
      <3>3. CASE object \notin {"Adb", "MacPlayTools", "Minitouch", "Maatouch"}
        BY <3>3 DEF Event
      <3> QED BY <3>1, <3>2, <3>3
    <2>3. {"play.command", "inject", "unit.inject"} \subseteq Labels
      BY DEF Labels, PlayCalls, InjectBody, UnitCalls
    <2>4. c \in Words
      BY DEF Words, Commands
    <2> QED BY <1>1, <2>1, <2>2, <2>3, <2>4, BeginKeeps
  <1>3. CASE Order
    <2>1. PICK c \in {"press_esc", "start_game", "stop_game", "input"} : Begin(Commanding(c))
      BY <1>3 DEF Order
    <2>2. \/ Commanding(c) = Frame("command", "act", FALSE)
          \/ Commanding(c) = Frame("play.command", c, FALSE)
          \/ Commanding(c) = Frame("unit.command", c, FALSE)
      BY DEF Commanding, AdbCommand, AdbFamily
    <2>3. {"play.command", "command", "unit.command"} \subseteq Labels
      BY DEF Labels, PlayCalls, CommandBody, UnitCalls
    <2>4. c \in Words /\ "act" \in Words
      BY DEF Words, Commands
    <2> QED BY <1>1, <2>1, <2>2, <2>3, <2>4, BeginKeeps
  <1>4. CASE GetImage \/ Exit
    <2>1. Begin(Frame("image", "", FALSE)) \/ Begin(Frame("exit", "", FALSE))
      BY <1>4 DEF GetImage, Exit
    <2>2. {"image", "exit"} \subseteq Labels /\ "" \in Words
      BY DEF Labels, ClientBody, Words, Commands
    <2> QED BY <1>1, <2>1, <2>2, BeginKeeps
  <1> QED BY <1>2, <1>3, <1>4

LEMMA ConnectKeeps == ASSUME CallsInv, Connect \/ AttachWindow PROVE CallsInv'
  <1>1. Quiet
    BY DEF Connect, AttachWindow
  <1>2. PICK t \in Words, attach \in BOOLEAN : Connecting(t, attach)
    <2>1. Types \subseteq Words
      <3>1. \A mode \in DOMAIN ControllerType : ControllerType[mode] \in Words
        <4>1. /\ DOMAIN ControllerType =
                   {"Adb", "Minitouch", "Maatouch", "MacPlayTools", "MaaFwAdb", "Android"}
              /\ ControllerType["Adb"] = "Adb" /\ ControllerType["Minitouch"] = "Minitouch"
              /\ ControllerType["Maatouch"] = "Maatouch" /\ ControllerType["MaaFwAdb"] = "MaaFwAdb"
              /\ ControllerType["MacPlayTools"] = "MacPlayTools" /\ ControllerType["Android"] = "Native"
          BY DEF ControllerType
        <4>2. {"Adb", "Minitouch", "Maatouch", "MacPlayTools", "MaaFwAdb", "Native"} \subseteq Words
          BY DEF Words, Commands
        <4> QED BY <4>1, <4>2
      <3>2. TouchModes \subseteq DOMAIN ControllerType
        BY DEF TouchModes, ControllerType
      <3> QED BY <3>1, <3>2 DEF Types
    <2>2. "Win32" \in Words
      BY DEF Words, Commands
    <2>3. CASE Connect
      <3>1. PICK t \in Types \cup (IF object = "Win32" THEN {"Win32"} ELSE {}) : Connecting(t, FALSE)
        BY <2>3 DEF Connect
      <3> QED BY <2>1, <2>2, <3>1
    <2>4. CASE AttachWindow
      BY <2>2, <2>4 DEF AttachWindow
    <2> QED BY <2>3, <2>4
  <1> DEFINE g == Frame("ctrl.connect", t, attach)
             f == Frame("connected", "", FALSE)
  <1>3. g \in Frames /\ g.at = "ctrl.connect" /\ f \in Frames /\ f.at = "connected"
    <2>1. "ctrl.connect" \in Labels /\ "connected" \in Labels /\ "" \in Words
      BY DEF Labels, CtrlBody, ClientBody, Words, Commands
    <2>2. f \in Frames /\ f.at = "connected"
      BY <2>1, FrameNew
    <2>3. g \in Frames /\ g.at = "ctrl.connect"
      <3>1. t \in Words /\ attach \in BOOLEAN
        OBVIOUS
      <3>2. "ctrl.connect" \in Labels
        BY <2>1
      <3>3. g = Frame("ctrl.connect", t, attach)
        OBVIOUS
      <3> HIDE DEF f, g
      <3> QED BY <3>1, <3>2, <3>3, FrameNew
    <2> QED BY <2>2, <2>3
  <1>4. stack' = <<g, f>> /\ UNCHANGED <<result, finger, touch, toucher, deref>>
    BY <1>2 DEF Connecting, touchVars
  <1> HIDE DEF f, g
  <1>5. finger' = "up" /\ result' \in Words /\ deref' = "none"
    BY <1>1, <1>4, AtRest DEF Quiet
  <1>6. stack' \in Seq(Frames) /\ Len(stack') = 2 /\ stack'[1] = g /\ stack'[2] = f /\ stack' # <<>>
    BY <1>3, <1>4
  <1>7. Top' = g /\ Bottom' = f
    BY <1>4, <1>6 DEF Top, Bottom
  <1>8. Legal'
    <2>1. \A i \in 1 .. 2 - 1 : i = 1 /\ i + 1 = 2
      OBVIOUS
    <2>2. Serves("connected", g)
      BY <1>3 DEF Serves, Waits, HupWaits, Outermost, Gesturing, GestureBody, PlayBody, UnitBody,
                  InjectBody, InputBody, CommitBody, TouchBody, CtrlBody
    <2>3. Allowed(touch', f, g)
      BY <1>3, <2>2 DEF Allowed
    <2> QED BY <1>6, <2>1, <2>3 DEF Legal
  <1>9. BottomInv'
    BY <1>3, <1>7 DEF BottomInv, GestureBody, PlayBody, UnitBody, CommitBody, InputBody
  <1>10. TouchInv'
    BY <1>3, <1>5, <1>7 DEF TouchInv, NullUse, At
  <1>11. FingerInv'
    BY <1>5 DEF FingerInv
  <1> QED BY <1>5, <1>6, <1>8, <1>9, <1>10, <1>11 DEF CallsInv, Typed

LEMMA EndKeeps == ASSUME CallsInv, Connected \/ Exited PROVE CallsInv'
  <1>1. stack # <<>> /\ Top.at \in {"connected", "exited"} /\ stack' = <<>>
        /\ UNCHANGED <<result, finger, deref>>
    BY DEF Connected, Exited, At, others, touchVars
  <1>2. Top.at \in Outermost /\ Top.at \notin Gesturing
    BY <1>1 DEF Outermost, Gesturing, GestureBody, PlayBody, UnitBody
  <1>3. Len(stack) = 1 /\ deref = "none" /\ finger \in {"up", "down"} /\ result \in Words
    BY <1>1, <1>2, GestureTop
  <1>4. finger' = "up"
    <2>1. ~(Len(stack) > 1)
      BY <1>3
    <2> QED BY <1>1, <1>2, <1>3, <2>1, Below
  <1> QED BY <1>1, <1>3, <1>4, Emptied DEF NullUse

\* A start, a stop and the end change nothing of this.
LEMMA NothingKeeps ==
  ASSUME CallsInv, UNCHANGED <<stack, result, finger, touch, toucher, deref, proxy, unit, kind>>
  PROVE  CallsInv'
  <1>1. Typed' /\ Legal'
    BY DEF CallsInv, Typed, Legal
  <1>2. BottomInv'
    <2>1. Gestures' = Gestures
      BY DEF Gestures
    <2>2. Bottom' = Bottom
      BY DEF Bottom
    <2> QED BY <2>1, <2>2 DEF CallsInv, BottomInv
  <1>3. TouchInv'
    BY DEF CallsInv, TouchInv, NullUse, At, Top
  <1>4. FingerInv'
    <2>1. Gestures' = Gestures
      BY DEF Gestures
    <2>2. Bottom' = Bottom
      BY DEF Bottom
    <2> QED BY <2>1, <2>2 DEF CallsInv, FingerInv, DownInv, At, Top
  <1> QED BY <1>1, <1>2, <1>3, <1>4 DEF CallsInv

LEMMA CallsInvInit == Init => CallsInv
  <1> SUFFICES ASSUME Init PROVE CallsInv
    OBVIOUS
  <1>1. stack = <<>> /\ result = "void" /\ finger = "up" /\ deref = "none"
    BY DEF Init
  <1>2. <<>> \in Seq(Frames) /\ Len(<<>>) = 0
    OBVIOUS
  <1>3. Typed /\ Legal
    BY <1>1, <1>2 DEF Typed, Legal, Words, Answers
  <1> QED BY <1>1, <1>3 DEF CallsInv, BottomInv, TouchInv, FingerInv, At, NullUse

LEMMA CallsInvStep == CallsInv /\ [Next]_vars => CallsInv'
  <1> SUFFICES ASSUME CallsInv, [Next]_vars PROVE CallsInv'
    OBVIOUS
  <1>1. CASE IO
    BY <1>1, IOKeeps
  <1>2. CASE Adb
    BY <1>2, AdbKeeps
  <1>3. CASE TouchTool
    BY <1>3, TouchToolKeeps
  <1>4. CASE Play
    BY <1>4, PlayKeeps
  <1>5. CASE Unit
    BY <1>5, UnitStepKeeps
  <1>6. CASE CtrlStep
    BY <1>6, CtrlKeeps, EndKeeps DEF CtrlStep
  <1>7. CASE Client
    <2>1. CASE Start
      BY <2>1, NothingKeeps DEF Start, callVars, others, touchVars, unitVars
    <2>2. CASE Park
      BY <2>2, NothingKeeps DEF Park, others, touchVars, unitVars
    <2> QED BY <1>7, <2>1, <2>2, TouchKeeps, RequestKeeps, ConnectKeeps DEF Client
  <1>8. CASE Stop
    BY <1>8, NothingKeeps DEF Stop, others, touchVars, unitVars, ctrlVars
  <1>9. CASE UNCHANGED vars
    BY <1>9, NothingKeeps DEF vars, callVars, touchVars, unitVars, ctrlVars
  <1> QED BY <1>1, <1>2, <1>3, <1>4, <1>5, <1>6, <1>7, <1>8, <1>9 DEF Next, Step, Ended

\* The calls in progress stand on one another as they may, at every moment.
THEOREM CallsAlwaysLegal == Spec => []CallsInv
  BY CallsInvInit, CallsInvStep, PTL DEF Spec

\* No call ends with a finger left on the screen (AdbController and its sub-classes,
\* PlayToolsController, the controllers of MaaFramework): whichever touch failed,
\* restarted the program on the device or was followed by a reconnect.
THEOREM AlwaysLifted == Spec => []Lifted
  <1>1. CallsInv => Lifted
    BY AtRest DEF Lifted
  <1> QED BY <1>1, CallsAlwaysLegal, PTL

\* A null pointer is used only as m_scale_proxy by a touch, or as m_minitoucher by a
\* swipe with pause, whatever the device does and whenever a stop comes.
THEOREM NullUseBounded == Spec => []NullUse
  <1>1. CallsInv => NullUse
    BY DEF CallsInv, TouchInv
  <1> QED BY <1>1, CallsAlwaysLegal, PTL

-----------------------------------------------------------------------------
(* Reconnects.                                                                     *)

Reconnecting == {"reconnect.slept", "reconnect.connected", "reconnect.recalled", "reconnect.failed"}

\* Above a reconnect there is one command or a release, and the I/O of that.
LEMMA AboveReconnect ==
  ASSUME Typed, Legal, NEW j \in 1 .. Len(stack), stack[j].at \in Reconnecting,
         NEW i \in 1 .. Len(stack), i < j
  PROVE  stack[i].at \notin Reconnecting
  <1> DEFINE Called == {"call", "call.done"} \cup ReleaseBody
  <1>1. stack # <<>> /\ Len(stack) \in Nat /\ j \in Nat /\ i \in Nat /\ i # 0
    BY DEF Typed
  <1>2. \A k \in 1 .. Len(stack) - 1 : Allowed(touch, stack[k + 1], stack[k])
    BY DEF Legal
  <1>3. \A k \in 2 .. Len(stack) : stack[k].at \in Waits /\ Allowed(touch, stack[k], stack[k - 1])
    <2> SUFFICES ASSUME NEW k \in 2 .. Len(stack)
                 PROVE  stack[k].at \in Waits /\ Allowed(touch, stack[k], stack[k - 1])
      OBVIOUS
    <2>1. k - 1 \in 1 .. Len(stack) - 1 /\ k - 1 + 1 = k
      BY <1>1
    <2>2. Allowed(touch, stack[k - 1 + 1], stack[k - 1])
      BY <1>2, <2>1
    <2> QED BY <2>1, <2>2 DEF Allowed, Serves
  <1>4. j \in 2 .. Len(stack)
    BY <1>1
  <1>5. stack[j - 1].at \in Called
    <2>1. stack[j].at \in {"reconnect.connected", "reconnect.recalled", "reconnect.failed"}
      BY <1>3, <1>4 DEF Reconnecting, Waits, HupWaits
    <2> QED BY <1>3, <1>4, <2>1 DEF Allowed, Serves
  <1>6. j > 2 => stack[j - 2].at \in IOBody
    <2> SUFFICES ASSUME j > 2 PROVE stack[j - 2].at \in IOBody
      OBVIOUS
    <2>1. j - 1 \in 2 .. Len(stack) /\ j - 1 - 1 = j - 2
      BY <1>1
    <2>2. stack[j - 1].at \in {"call.done", "release.done"}
      BY <1>3, <1>5, <2>1 DEF Waits, HupWaits, ReleaseBody
    <2> QED BY <1>3, <2>1, <2>2 DEF Allowed, Serves
  <1>7. j <= 3
    <2> SUFFICES ASSUME j > 3 PROVE FALSE
      BY <1>1
    <2>1. j - 2 \in 2 .. Len(stack) /\ j > 2
      BY <1>1
    <2>2. stack[j - 2].at \in Waits /\ stack[j - 2].at \in IOBody
      BY <1>3, <1>6, <2>1
    <2> QED BY <2>2 DEF Waits, HupWaits, IOBody
  <1>8. i = j - 1 \/ (i = j - 2 /\ j > 2)
    BY <1>1, <1>7
  <1> QED BY <1>5, <1>6, <1>8 DEF Reconnecting, ReleaseBody, IOBody

\* A reconnect never begins another one, neither by the commands it repeats nor by
\* what it calls them through (AdbController::call_command and reconnect).
THEOREM ReconnectsNeverNest == Spec => []NoNestedReconnect
  <1>1. CallsInv => NoNestedReconnect
    <2> SUFFICES ASSUME CallsInv PROVE Cardinality(Active(Reconnecting)) <= 1
      BY DEF NoNestedReconnect, Reconnecting
    <2> DEFINE A == Active(Reconnecting)
    <2>1. \A i, j \in A : i = j
      <3> SUFFICES ASSUME NEW i \in A, NEW j \in A, i # j PROVE FALSE
        OBVIOUS
      <3>1. DOMAIN stack = 1 .. Len(stack)
        BY DEF CallsInv, Typed
      <3>2. /\ i \in 1 .. Len(stack) /\ stack[i].at \in Reconnecting
            /\ j \in 1 .. Len(stack) /\ stack[j].at \in Reconnecting
        BY <3>1 DEF Active
      <3>3. i < j \/ j < i
        BY <3>2 DEF CallsInv, Typed
      <3> QED BY <3>2, <3>3, AboveReconnect DEF CallsInv
    <2> HIDE DEF A
    <2>2. CASE A = {}
      BY <2>2, FS_EmptySet DEF A
    <2>3. CASE A # {}
      <3>1. PICK x \in A : TRUE
        BY <2>3
      <3>2. A = {x}
        BY <2>1, <3>1
      <3>3. Cardinality({x}) = 1
        BY FS_Singleton
      <3> QED BY <3>2, <3>3 DEF A
    <2> QED BY <2>2, <2>3
  <1> QED BY <1>1, CallsAlwaysLegal, PTL

-----------------------------------------------------------------------------
(* The socket of nc. *)

\* What a screenshot looks like that may decode.
Pictures == {"plain", "chance", "crlf"}

LinkWaits == {"connect.listed", "connect.connected", "connect.answer", "connect.server"}
\* A reconnect that keeps what its command answered.
Over == {"reconnect.ok", "reconnect.hup"}

\* What is known of a call in progress, by where it stands: while a controller
\* connects it is not said to work, and nc is for a platform that has a socket.
Held(works, l, f) ==
  /\ f.at \in LinkBody \ {"adb.connect"} => ~works
  /\ f.at \in IOBody \cup (CallBody \ Over) \cup {"capture.decode"} /\ f.cmd = "nc" => ~l
  /\ f.at \in IOBody /\ f.cmd = "nc" => f.flag
  /\ f.at \in CommandBody \cup {"lite.request"} => f.cmd # "nc"
  /\ f.at = "connect.server" => ~l
  /\ f.at = "probe.done" => f.n <= Len(Ways)

\* What a call a has to do with the one that waits for it, b.
Upon(s, b, a) ==
  /\ b.at \in LinkWaits => a.at \in {"call", "call.done"}
  /\ b.at = "probe.done" /\ b.n = 1 => a.at \in {"capture", "capture.decode"} /\ a.cmd = "nc"
  /\ b.at = "capture.decode" /\ b.cmd = "nc" =>
       /\ a.at \in CallBody
       /\ a.at \in Over => (a.cmd \in Pictures => s = "listening")
       /\ a.at \notin Over => a.cmd = "nc"
  /\ b.at \in {"call.done", "reconnect.recalled"} /\ b.cmd = "nc" => a.cmd = "nc"

\* A picture that nc brought has come by the socket, unless a stop cut it off.
Shown(works, s, stopped, r, f) ==
  /\ f.at = "release" => ~works
  /\ f.at = "posix.drain" /\ f.cmd = "nc" => s = "listening"
  /\ f.at = "call.done" /\ f.cmd = "nc" /\ r \in Pictures => s = "listening" \/ stopped
  /\ f.at \in {"reconnect.recalled", "capture.decode"} /\ f.cmd = "nc" /\ r \in Pictures =>
       s = "listening"
  /\ f.at = "probe.done" /\ f.n = 1 /\ r = "yes" => s = "listening"

NcInv ==
  /\ started => ~lite
  /\ \A i \in 1 .. Len(stack) : Held(inited, lite, stack[i])
  /\ \A i \in 1 .. Len(stack) - 1 : Upon(sock, stack[i + 1], stack[i])
  /\ stack # <<>> => Shown(inited, sock, need_exit, result, Top)
  /\ NcServed

-----------------------------------------------------------------------------
(* What a step does to the calls in progress, whatever it is.                      *)

\* It leaves the calls below the innermost one as they should be.
RestKept ==
  /\ started' => ~lite'
  /\ \A i \in 2 .. Len(stack) : Held(inited', lite', stack[i])
  /\ \A i \in 2 .. Len(stack) - 1 : Upon(sock', stack[i + 1], stack[i])
  /\ NcServed'

LEMMA NothingLost ==
  ASSUME Typed, NcInv, UNCHANGED <<lite, sock, started, method>>, inited' => inited
  PROVE  RestKept
  <1>1. Len(stack) \in Nat
    BY DEF Typed
  <1>2. \A i \in 2 .. Len(stack) : i \in 1 .. Len(stack)
    BY <1>1
  <1>3. \A i \in 2 .. Len(stack) - 1 : i \in 1 .. Len(stack) - 1
    BY <1>1
  <1>4. \A f : Held(inited, lite, f) => Held(inited', lite', f)
    BY DEF Held
  <1>5. \A i \in 2 .. Len(stack) : Held(inited', lite', stack[i])
    BY <1>2, <1>4 DEF NcInv
  <1>6. \A i \in 2 .. Len(stack) - 1 : Upon(sock', stack[i + 1], stack[i])
    BY <1>3 DEF NcInv
  <1>7. started' => ~lite'
    BY DEF NcInv
  <1>8. NcServed'
    BY DEF NcInv, NcServed
  <1> QED BY <1>5, <1>6, <1>7, <1>8 DEF RestKept

LEMMA NcPop ==
  ASSUME Typed, RestKept, stack # <<>>, stack' = Tail(stack),
         Len(stack) > 1 => Shown(inited', sock', need_exit', result', stack[2])
  PROVE  NcInv'
  <1>1. /\ stack' \in Seq(Frames) /\ Len(stack') = Len(stack) - 1 /\ Len(stack) \in Nat
        /\ Len(stack) > 0 /\ \A i \in 1 .. Len(stack) - 1 : stack'[i] = stack[i + 1]
    BY Popped DEF Typed
  <1>2. \A i \in 1 .. Len(stack') : Held(inited', lite', stack'[i])
    <2> TAKE i \in 1 .. Len(stack')
    <2>1. i + 1 \in 2 .. Len(stack) /\ stack'[i] = stack[i + 1]
      BY <1>1
    <2> QED BY <2>1 DEF RestKept
  <1>3. \A i \in 1 .. Len(stack') - 1 : Upon(sock', stack'[i + 1], stack'[i])
    <2> TAKE i \in 1 .. Len(stack') - 1
    <2>1. /\ i + 1 \in 2 .. Len(stack) - 1 /\ i + 1 \in 1 .. Len(stack) - 1
          /\ i \in 1 .. Len(stack) - 1
      BY <1>1
    <2>2. stack'[i] = stack[i + 1] /\ stack'[i + 1] = stack[(i + 1) + 1]
      BY <1>1, <2>1
    <2> QED BY <2>1, <2>2 DEF RestKept
  <1>4. stack' # <<>> => Shown(inited', sock', need_exit', result', Top')
    <2> SUFFICES ASSUME stack' # <<>>
                 PROVE  Shown(inited', sock', need_exit', result', Top')
      OBVIOUS
    <2>1. Len(stack') > 0 /\ Top' = stack'[1]
      BY <1>1 DEF Top
    <2>2. Len(stack) > 1 /\ 1 \in 1 .. Len(stack) - 1
      BY <1>1, <2>1
    <2>3. Top' = stack[2]
      BY <1>1, <2>1, <2>2
    <2> QED BY <2>2, <2>3
  <1> QED BY <1>2, <1>3, <1>4 DEF NcInv, RestKept

\* What is put on the stack is a frame when the stack is one of frames again.
LEMMA FrontFrame ==
  ASSUME NEW s \in Seq(Frames), NEW f, <<f>> \o s \in Seq(Frames)
  PROVE  f \in Frames
  <1> DEFINE S == Frames \cup {f}
             t == <<f>> \o s
  <1>1. s \in Seq(S) /\ f \in S
    OBVIOUS
  <1> HIDE DEF S
  <1>2. t[1] = f /\ 1 \in 1 .. Len(t)
    BY <1>1
  <1>3. \A i \in 1 .. Len(t) : t[i] \in Frames
    OBVIOUS
  <1> QED BY <1>2, <1>3

LEMMA FrontFrames ==
  ASSUME NEW s \in Seq(Frames), NEW f, NEW g, <<g, f>> \o s \in Seq(Frames)
  PROVE  f \in Frames /\ g \in Frames
  <1> DEFINE S == Frames \cup {f, g}
             t == <<g, f>> \o s
  <1>1. s \in Seq(S) /\ f \in S /\ g \in S
    OBVIOUS
  <1> HIDE DEF S
  <1>2. t[1] = g /\ t[2] = f /\ 1 \in 1 .. Len(t) /\ 2 \in 1 .. Len(t)
    BY <1>1
  <1>3. \A i \in 1 .. Len(t) : t[i] \in Frames
    OBVIOUS
  <1> QED BY <1>2, <1>3

LEMMA NcMove ==
  ASSUME Typed, Typed', RestKept, stack # <<>>, NEW f, stack' = <<f>> \o Tail(stack),
         Held(inited', lite', f), Len(stack) > 1 => Upon(sock', stack[2], f),
         Shown(inited', sock', need_exit', result', f)
  PROVE  NcInv'
  <1>0. Tail(stack) \in Seq(Frames) /\ stack' \in Seq(Frames)
    BY Popped DEF Typed
  <1>1. /\ stack' \in Seq(Frames) /\ Len(stack') = Len(stack) /\ stack'[1] = f
        /\ \A i \in 2 .. Len(stack) : stack'[i] = stack[i]
    BY <1>0, FrontFrame, Replaced DEF Typed
  <1>2. Len(stack) \in Nat /\ Len(stack) > 0
    BY Popped DEF Typed
  <1>3. \A i \in 1 .. Len(stack') : Held(inited', lite', stack'[i])
    <2> TAKE i \in 1 .. Len(stack')
    <2>1. i = 1 \/ i \in 2 .. Len(stack)
      BY <1>1, <1>2
    <2>2. CASE i = 1
      BY <1>1, <2>2
    <2>3. CASE i \in 2 .. Len(stack)
      BY <1>1, <2>3 DEF RestKept
    <2> QED BY <2>1, <2>2, <2>3
  <1>4. \A i \in 1 .. Len(stack') - 1 : Upon(sock', stack'[i + 1], stack'[i])
    <2> TAKE i \in 1 .. Len(stack') - 1
    <2>1. (i = 1 /\ Len(stack) > 1) \/ i \in 2 .. Len(stack) - 1
      BY <1>1, <1>2
    <2>2. i + 1 \in 2 .. Len(stack)
      BY <1>1, <1>2
    <2>3. stack'[i + 1] = stack[i + 1]
      BY <1>1, <2>2
    <2>4. CASE i = 1 /\ Len(stack) > 1
      BY <1>1, <2>3, <2>4
    <2>5. CASE i \in 2 .. Len(stack) - 1
      <3>1. i \in 2 .. Len(stack)
        BY <1>2, <2>5
      <3> QED BY <1>1, <2>3, <2>5, <3>1 DEF RestKept
    <2> QED BY <2>1, <2>4, <2>5
  <1>5. Top' = f
    BY <1>1, <1>2 DEF Top
  <1> QED BY <1>3, <1>4, <1>5 DEF NcInv, RestKept

LEMMA NcPush ==
  ASSUME Typed, Typed', RestKept, stack # <<>>, NEW f, NEW g,
         stack' = <<g, f>> \o Tail(stack),
         Held(inited', lite', f), Held(inited', lite', g),
         Len(stack) > 1 => Upon(sock', stack[2], f), Upon(sock', f, g),
         Shown(inited', sock', need_exit', result', g)
  PROVE  NcInv'
  <1>0. Tail(stack) \in Seq(Frames) /\ stack' \in Seq(Frames)
    BY Popped DEF Typed
  <1>1. /\ stack' \in Seq(Frames) /\ Len(stack') = Len(stack) + 1
        /\ stack'[1] = g /\ stack'[2] = f
        /\ \A i \in 3 .. Len(stack') : stack'[i] = stack[i - 1]
    BY <1>0, FrontFrames, Entered DEF Typed
  <1>2. Len(stack) \in Nat /\ Len(stack) > 0
    BY Popped DEF Typed
  <1>3. \A i \in 1 .. Len(stack') : Held(inited', lite', stack'[i])
    <2> TAKE i \in 1 .. Len(stack')
    <2>1. i = 1 \/ i = 2 \/ i \in 3 .. Len(stack')
      BY <1>1, <1>2
    <2>2. CASE i = 1 \/ i = 2
      BY <1>1, <2>2
    <2>3. CASE i \in 3 .. Len(stack')
      <3>1. i - 1 \in 2 .. Len(stack)
        BY <1>1, <1>2, <2>3
      <3> QED BY <1>1, <2>3, <3>1 DEF RestKept
    <2> QED BY <2>1, <2>2, <2>3
  <1>4. \A i \in 1 .. Len(stack') - 1 : Upon(sock', stack'[i + 1], stack'[i])
    <2> TAKE i \in 1 .. Len(stack') - 1
    <2>1. i = 1 \/ (i = 2 /\ Len(stack) > 1) \/ i \in 3 .. Len(stack') - 1
      BY <1>1, <1>2
    <2>2. CASE i = 1
      BY <1>1, <2>2
    <2>3. CASE i = 2 /\ Len(stack) > 1
      <3>1. 3 \in 3 .. Len(stack') /\ 3 - 1 = 2 /\ 2 + 1 = 3
        BY <1>1, <1>2, <2>3
      <3>2. stack'[3] = stack[2]
        BY <1>1, <3>1
      <3> QED BY <1>1, <2>3, <3>1, <3>2
    <2>4. CASE i \in 3 .. Len(stack') - 1
      <3>1. /\ i \in 3 .. Len(stack') /\ i + 1 \in 3 .. Len(stack')
            /\ i - 1 \in 2 .. Len(stack) - 1 /\ (i - 1) + 1 = i /\ (i + 1) - 1 = i
        BY <1>1, <1>2, <2>4
      <3>2. stack'[i] = stack[i - 1] /\ stack'[i + 1] = stack[i]
        BY <1>1, <3>1
      <3>3. Upon(sock', stack[(i - 1) + 1], stack[i - 1])
        BY <3>1 DEF RestKept
      <3> QED BY <3>1, <3>2, <3>3
    <2> QED BY <2>1, <2>2, <2>3, <2>4
  <1>5. Top' = g
    BY <1>1, <1>2 DEF Top
  <1> QED BY <1>3, <1>4, <1>5 DEF NcInv, RestKept

LEMMA TopTwo ==
  ASSUME Typed, Legal, NcInv, stack # <<>>
  PROVE  /\ Top = stack[1] /\ Top \in Frames /\ Held(inited, lite, Top)
         /\ Shown(inited, sock, need_exit, result, Top)
         /\ Len(stack) > 1 =>
              /\ stack[2] \in Frames /\ stack[2].at \in Waits
              /\ Serves(stack[2].at, Top) /\ Upon(sock, stack[2], Top)
  <1>1. Len(stack) \in Nat /\ Len(stack) > 0 /\ \A i \in 1 .. Len(stack) : stack[i] \in Frames
    BY Popped DEF Typed
  <1>2. Top = stack[1] /\ 1 \in 1 .. Len(stack) /\ Top \in Frames
    BY <1>1 DEF Top
  <1>3. Held(inited, lite, Top) /\ Shown(inited, sock, need_exit, result, Top)
    BY <1>2 DEF NcInv
  <1>4. Len(stack) > 1 =>
          /\ stack[2] \in Frames /\ stack[2].at \in Waits
          /\ Serves(stack[2].at, Top) /\ Upon(sock, stack[2], Top)
    <2> HAVE Len(stack) > 1
    <2>1. 1 \in 1 .. Len(stack) - 1 /\ 1 + 1 = 2 /\ 2 \in 1 .. Len(stack)
      BY <1>1
    <2>2. Allowed(touch, stack[2], Top) /\ Upon(sock, stack[2], Top)
      BY <1>2, <2>1 DEF Legal, NcInv
    <2> QED BY <1>1, <2>1, <2>2 DEF Allowed, Serves
  <1> QED BY <1>1, <1>2, <1>3, <1>4

-----------------------------------------------------------------------------
(* The steps outside AdbController.                                                *)

AdbBody == IOBody \cup CallBody \cup ReleaseBody \cup ShotBody \cup LinkBody
OffBody ==
  HupBody \cup InputBody \cup GestureBody \cup InjectBody \cup TouchBody \cup OpenBody
    \cup CommitBody \cup PlayBody \cup PlayCalls \cup UnitBody \cup UnitCalls \cup CtrlBody
    \cup ClientBody

LEMMA OffLabels ==
  /\ \A l \in OffBody : l \in Labels /\ l \notin AdbBody /\ l \notin CommandBody
  /\ \A l \in CommandBody : l \in Labels /\ l \notin AdbBody
  <1>1. OffBody \cup CommandBody \subseteq Labels
    BY DEF OffBody, Labels
  <1> USE DEF IOBody, CallBody, ReleaseBody, ShotBody, LinkBody, CommandBody
  <1>2. AdbBody =
          {"io", "io.native", "lite.request", "posix.socket", "posix.drain", "win32.wait",
           "call", "call.done", "reconnect", "reconnect.slept", "reconnect.connected",
           "reconnect.recalled", "reconnect.ok", "reconnect.hup", "reconnect.fail",
           "reconnect.failed", "release", "release.done", "screencap", "probe", "probe.done",
           "capture", "capture.decode", "adb.connect", "connect.listed", "connect.connected",
           "connect.query", "connect.answer", "connect.server", "connect.extras", "connect.end"}
    BY DEF AdbBody
  <1>3. \A l \in HupBody \cup InputBody \cup GestureBody \cup InjectBody \cup TouchBody :
          l \notin AdbBody /\ l \notin CommandBody
    BY <1>2 DEF HupBody, InputBody, GestureBody, InjectBody, TouchBody
  <1>4. \A l \in OpenBody \cup CommitBody \cup PlayBody \cup PlayCalls \cup UnitBody :
          l \notin AdbBody /\ l \notin CommandBody
    BY <1>2 DEF OpenBody, CommitBody, PlayBody, PlayCalls, UnitBody
  <1>5. \A l \in UnitCalls \cup CtrlBody \cup ClientBody : l \notin AdbBody /\ l \notin CommandBody
    BY <1>2 DEF UnitCalls, CtrlBody, ClientBody
  <1>6. \A l \in CommandBody : l \notin AdbBody
    BY <1>2
  <1> HIDE DEF IOBody, CallBody, ReleaseBody, ShotBody, LinkBody, CommandBody
  <1>7. \A l \in OffBody : l \notin AdbBody /\ l \notin CommandBody
    BY <1>3, <1>4, <1>5 DEF OffBody
  <1> QED BY <1>1, <1>6, <1>7

\* A frame outside AdbController, and one that may be begun from there.
Off(f) == f.at \in OffBody \/ (f.at \in CommandBody /\ f.cmd # "nc")
Begun(works, f) ==
  \/ Off(f)
  \/ f.at = "call" /\ f.cmd # "nc"
  \/ f.at \in {"screencap", "adb.connect"}
  \/ f.at = "release" /\ ~works

Away ==
  /\ stack # <<>> /\ Off(Top)
  /\ \/ stack' = <<>>
     \/ stack' = Tail(stack)
     \/ \E f : stack' = <<f>> \o Tail(stack) /\ Off(f)
     \/ \E f, g :
          stack' = <<g, f>> \o Tail(stack) /\ Off(f) /\ Begun(inited', g)

LEMMA OffFacts ==
  ASSUME NEW f, Off(f)
  PROVE  /\ f.at \notin AdbBody
         /\ \A w, l : Held(w, l, f)
         /\ \A s, a : Upon(s, f, a)
         /\ \A w, s, e, r : Shown(w, s, e, r, f)
  <1>1. f.at \notin AdbBody /\ (f.at \in CommandBody => f.cmd # "nc")
    BY OffLabels DEF Off
  <1>2. /\ f.at \notin LinkBody /\ f.at \notin IOBody /\ f.at \notin CallBody
        /\ f.at \notin ReleaseBody /\ f.at \notin ShotBody
    BY <1>1 DEF AdbBody
  <1>3. \A w, l : Held(w, l, f)
    BY <1>1, <1>2 DEF Held, ShotBody, IOBody, LinkBody
  <1>4. \A s, a : Upon(s, f, a)
    BY <1>2 DEF Upon, LinkWaits, LinkBody, ShotBody, CallBody
  <1>5. \A w, s, e, r : Shown(w, s, e, r, f)
    BY <1>2 DEF Shown, ReleaseBody, IOBody, CallBody, ShotBody
  <1> QED BY <1>1, <1>3, <1>4, <1>5

LEMMA BegunFacts ==
  ASSUME NEW w, NEW f, Begun(w, f)
  PROVE  (\A l : Held(w, l, f)) /\ (\A s, e, r : Shown(w, s, e, r, f))
  <1>1. CASE Off(f)
    BY <1>1, OffFacts
  <1>2. CASE (f.at = "call" /\ f.cmd # "nc") \/ f.at \in {"screencap", "adb.connect"}
             \/ (f.at = "release" /\ ~w)
    <2>1. \A l : Held(w, l, f)
      BY <1>2 DEF Held, LinkBody, IOBody, CallBody, CommandBody
    <2>2. \A s, e, r : Shown(w, s, e, r, f)
      BY <1>2 DEF Shown
    <2> QED BY <2>1, <2>2
  <1> QED BY <1>1, <1>2 DEF Begun

\* What waits for one that is not AdbController's is told nothing of a picture.
LEMMA OffBelow ==
  ASSUME Typed, Legal, NcInv, stack # <<>>, Off(Top), Len(stack) > 1
  PROVE  /\ \A w, s, e, r : Shown(w, s, e, r, stack[2])
         /\ \A s, f : Off(f) => Upon(s, stack[2], f)
  <1> DEFINE b == stack[2]
  <1>1. b.at \in Waits /\ Serves(b.at, Top) /\ Upon(sock, b, Top)
    BY TopTwo
  <1> HIDE DEF b
  <1>2. Top.at \notin IOBody \cup CallBody \cup ReleaseBody \cup ShotBody
    BY OffFacts DEF AdbBody
  <1>3. b.at \notin {"release", "posix.drain"}
    BY <1>1 DEF Waits, HupWaits
  <1>4. b.at \notin {"call.done", "reconnect.recalled"}
    BY <1>1, <1>2 DEF Serves, CallBody
  <1>5. b.at \notin LinkWaits
    BY <1>1, <1>2 DEF Upon, CallBody
  <1>6. ~(b.at = "probe.done" /\ b.n = 1)
    BY <1>1, <1>2 DEF Upon, ShotBody
  <1>7. ~(b.at = "capture.decode" /\ b.cmd = "nc")
    BY <1>1, <1>2 DEF Upon
  <1>8. \A w, s, e, r : Shown(w, s, e, r, b)
    BY <1>3, <1>4, <1>6, <1>7 DEF Shown
  <1>9. \A s, f : Off(f) => Upon(s, b, f)
    BY <1>4, <1>5, <1>6, <1>7 DEF Upon
  <1> QED BY <1>8, <1>9 DEF b

LEMMA NcAway ==
  ASSUME Typed, Typed', Legal, NcInv, RestKept, Away
  PROVE  NcInv'
  <1>1. stack # <<>> /\ Off(Top)
    BY DEF Away
  <1>2. CASE stack' = <<>>
    BY <1>2 DEF NcInv, RestKept
  <1>3. CASE stack' = Tail(stack)
    BY <1>1, <1>3, OffBelow, NcPop
  <1>4. ASSUME NEW f, stack' = <<f>> \o Tail(stack), Off(f) PROVE NcInv'
    <2>1. Held(inited', lite', f) /\ Shown(inited', sock', need_exit', result', f)
      BY <1>4, OffFacts
    <2>2. Len(stack) > 1 => Upon(sock', stack[2], f)
      BY <1>1, <1>4, OffBelow
    <2> QED BY <1>1, <1>4, <2>1, <2>2, NcMove
  <1>5. ASSUME NEW f, NEW g, stack' = <<g, f>> \o Tail(stack),
               Off(f), Begun(inited', g)
        PROVE  NcInv'
    <2>1. Held(inited', lite', f) /\ Upon(sock', f, g)
      BY <1>5, OffFacts
    <2>2. Held(inited', lite', g) /\ Shown(inited', sock', need_exit', result', g)
      BY <1>5, BegunFacts
    <2>3. Len(stack) > 1 => Upon(sock', stack[2], f)
      BY <1>1, <1>5, OffBelow
    <2> QED BY <1>1, <1>5, <2>1, <2>2, <2>3, NcPush
  <1>6. \/ stack' = <<>> \/ stack' = Tail(stack)
        \/ \E f : stack' = <<f>> \o Tail(stack) /\ Off(f)
        \/ \E f, g :
             stack' = <<g, f>> \o Tail(stack) /\ Off(f) /\ Begun(inited', g)
    BY DEF Away
  <1>7. CASE \E f : stack' = <<f>> \o Tail(stack) /\ Off(f)
    BY <1>4, <1>7
  <1>8. CASE \E f, g :
               stack' = <<g, f>> \o Tail(stack) /\ Off(f) /\ Begun(inited', g)
    BY <1>5, <1>8
  <1> QED BY <1>2, <1>3, <1>6, <1>7, <1>8

LEMMA JumpAway ==
  ASSUME Typed, stack # <<>>, Off(Top), NEW l \in OffBody, Jump(l)
  PROVE  Away
  <1> DEFINE f == [Top EXCEPT !.at = l]
  <1>1. f \in Frames /\ f.at = l
    BY TopFrame, OffLabels, FrameMoved
  <1>2. stack' = <<f>> \o Tail(stack)
    BY DEF Jump, Goto, Replace
  <1> HIDE DEF f
  <1> QED BY <1>1, <1>2 DEF Away, Off

LEMMA AgainAway ==
  ASSUME Typed, stack # <<>>, Off(Top), NEW l \in OffBody, Again(l)
  PROVE  Away
  <1> DEFINE f == [Top EXCEPT !.at = l, !.n = @ + 1]
  <1>1. f \in Frames /\ f.at = l
    BY TopFrame, OffLabels, FrameRepeated
  <1>2. stack' = <<f>> \o Tail(stack)
    BY DEF Again, Repeat, Replace
  <1> HIDE DEF f
  <1> QED BY <1>1, <1>2 DEF Away, Off

LEMMA ReturnAway ==
  ASSUME stack # <<>>, Off(Top), NEW v, Return(v)
  PROVE  Away
  BY DEF Return, Away

LEMMA ReplaceAway ==
  ASSUME stack # <<>>, Off(Top), NEW f, Off(f), Replace(f)
  PROVE  Away
  BY DEF Replace, Away

LEMMA CallAway ==
  ASSUME Typed, stack # <<>>, Off(Top), NEW l \in OffBody, NEW g,
         Begun(inited', g), Call(g, l)
  PROVE  Away
  <1> DEFINE f == [Top EXCEPT !.at = l]
  <1>1. f \in Frames /\ f.at = l
    BY TopFrame, OffLabels, FrameMoved
  <1>2. stack' = <<g, f>> \o Tail(stack)
    BY DEF Call, Enter
  <1> HIDE DEF f
  <1> QED BY <1>1, <1>2 DEF Away, Off

LEMMA NcUnit == ASSUME Typed, Legal, NcInv, Typed', Unit PROVE NcInv'
  <1>1. RestKept
    BY NothingLost DEF Unit, ioVars, adbVars, shotVars, linkVars
  <1> SUFFICES Away
    BY <1>1, NcAway
  <1>2. UnitBody \cup UnitCalls \subseteq OffBody
    BY DEF OffBody
  <1>3. stack # <<>> /\ Top.at \in UnitBody \cup UnitCalls => Off(Top)
    BY <1>2 DEF Off
  <1> USE DEF At, UnitBody, UnitCalls
  <1>4. CASE AdbUnitConnect \/ Attach32 \/ NativeConnect
    BY <1>4, <1>2, <1>3, JumpAway DEF AdbUnitConnect, Attach32, NativeConnect
  <1>5. CASE AdbLibrary \/ Win32Library \/ NativeLibrary \/ NativeConfigure
    BY <1>5, <1>2, <1>3, JumpAway, ReturnAway
       DEF AdbLibrary, Win32Library, NativeLibrary, NativeConfigure
  <1>6. CASE UnitCreate \/ UnitLink
    BY <1>6, <1>2, <1>3, JumpAway, ReturnAway DEF UnitCreate, UnitLink
  <1>7. CASE AdbUnitLook \/ Win32Look \/ NativeReady
    BY <1>7, <1>3, ReturnAway DEF AdbUnitLook, Win32Look, NativeReady
  <1>8. CASE AdbUnitShot \/ Win32Shot \/ NativeShot
    BY <1>8, <1>3, ReturnAway DEF AdbUnitShot, Win32Shot, NativeShot
  <1>9. CASE UnitWhole \/ UnitLift
    BY <1>9, <1>3, ReturnAway DEF UnitWhole, UnitLift
  <1>10. CASE UnitTouch
    <2>1. stack # <<>> /\ Top.at = "unit.gesture"
      BY <1>10 DEF UnitTouch
    <2>2. \/ Again("unit.gesture") \/ Jump("unit.lift") \/ Return("yes") \/ Return("no")
      BY <1>10 DEF UnitTouch
    <2> QED BY <1>2, <1>3, <2>1, <2>2, JumpAway, AgainAway, ReturnAway
  <1>11. CASE AdbUnitInject \/ Win32Inject \/ NativeInject
    BY <1>11, <1>3, ReturnAway DEF AdbUnitInject, Win32Inject, NativeInject
  <1>12. CASE AdbUnitCommand \/ AdbUnitEsc \/ NativeCommand
    BY <1>12, <1>3, ReturnAway DEF AdbUnitCommand, AdbUnitEsc, NativeCommand
  <1>13. CASE NativeEsc \/ Win32Esc \/ KeyUp
    BY <1>13, <1>2, <1>3, JumpAway, ReturnAway DEF NativeEsc, Win32Esc, KeyUp
  <1>14. CASE Win32Input \/ Win32Start \/ StopWindow
    BY <1>14, <1>2, <1>3, JumpAway, ReturnAway DEF Win32Input, Win32Start, StopWindow
  <1>15. CASE StopProcess \/ StopByForce
    BY <1>15, <1>2, <1>3, JumpAway, ReturnAway DEF StopProcess, StopByForce
  <1> QED BY <1>4, <1>5, <1>6, <1>7, <1>8, <1>9, <1>10, <1>11, <1>12, <1>13, <1>14, <1>15
       DEF Unit, UnitStep

LEMMA NcPlay == ASSUME Typed, Legal, NcInv, Typed', Play PROVE NcInv'
  <1>1. RestKept
    BY NothingLost DEF Play, ioVars, adbVars, shotVars, linkVars
  <1> SUFFICES Away
    BY <1>1, NcAway
  <1>2. OpenBody \cup CommitBody \cup PlayBody \cup PlayCalls \subseteq OffBody
    BY DEF OffBody
  <1>3. Top.at \in OpenBody \cup CommitBody \cup PlayBody \cup PlayCalls => Off(Top)
    BY <1>2 DEF Off
  <1>4. Open \in Frames /\ Open.at = "play.open" /\ Off(Open)
    <2>1. "" \in Words
      BY DEF Words, Commands
    <2>2. "play.open" \in OffBody
      BY <1>2 DEF OpenBody
    <2>3. "play.open" \in Labels
      BY <2>2, OffLabels
    <2>4. Open \in Frames /\ Open.at = "play.open"
      BY <2>1, <2>3, FrameNew DEF Open
    <2> QED BY <2>2, <2>4 DEF Off
  <1> USE DEF At, OpenBody, CommitBody, PlayBody, PlayCalls
  <1>5. CASE PlayOpen \/ PlayAsk
    BY <1>5, <1>2, <1>3, JumpAway, AgainAway, ReturnAway DEF PlayOpen, PlayAsk
  <1>6. CASE PlayOpened \/ PlayRead \/ PlayWrite
    BY <1>6, <1>3, ReturnAway DEF PlayOpened, PlayRead, PlayWrite
  <1>7. CASE PlayConnect
    BY <1>7, <1>3, <1>4, ReplaceAway DEF PlayConnect
  <1>8. CASE PlayShot
    BY <1>8, <1>2, <1>3, <1>4, CallAway, ReturnAway DEF PlayShot, Begun
  <1>9. CASE PlayCommit
    BY <1>9, <1>2, <1>3, <1>4, CallAway DEF PlayCommit, Begun
  <1>10. CASE PlayGesture
    <2>1. stack # <<>> /\ Top.at = "play.gesture" /\ Top \in Frames
      BY <1>10, TopFrame DEF PlayGesture
    <2>2. CASE Return(result)
      BY <1>3, <2>1, <2>2, ReturnAway
    <2>3. CASE ~(Top.n > Len(PlayGestures[Top.cmd]))
               /\ Call(Commit(PlayGestures[Top.cmd][Top.n]), "play.touched")
      <3> DEFINE g == Commit(PlayGestures[Top.cmd][Top.n])
      <3>1. g.at = "play.commit"
        BY DEF Commit, Frame
      <3> HIDE DEF g
      <3>2. Begun(inited', g) /\ Off(Top) /\ "play.touched" \in OffBody
        BY <1>2, <1>3, <2>1, <3>1 DEF Begun, Off
      <3>3. Call(g, "play.touched")
        BY <2>3 DEF g
      <3> QED BY <2>1, <3>2, <3>3, CallAway
    <2> QED BY <1>10, <2>2, <2>3 DEF PlayGesture
  <1>11. CASE PlayTouched
    BY <1>11, <1>2, <1>3, AgainAway, ReturnAway DEF PlayTouched
  <1>12. CASE PlayCommand \/ PlayEsc
    BY <1>12, <1>3, ReturnAway DEF PlayCommand, PlayEsc
  <1> QED BY <1>5, <1>6, <1>7, <1>8, <1>9, <1>10, <1>11, <1>12 DEF Play, PlayStep

LEMMA NcTouchTool == ASSUME Typed, Legal, NcInv, Typed', TouchTool, ~At("reconnect.ok"),
                            ~At("reconnect.hup")
                     PROVE  NcInv'
  <1> USE DEF TouchTool
  <1>1. UNCHANGED <<ioVars, adbVars>>
    BY DEF TouchStep, TouchReconnectOk, TouchReconnectHup, HupStart, HupPoll, HupRead, HupProps,
           InputWrite, InputRewrite, GestureBegin, GestureStarted, GestureNext, GestureSent,
           InjectBegin, InjectStarted, TouchConnect, TouchConnected, TouchProbe, TouchProbed,
           TouchReady
  <1>2. RestKept
    BY <1>1, NothingLost DEF ioVars, adbVars, shotVars, linkVars
  <1> SUFFICES Away
    BY <1>2, NcAway
  <1>3. HupBody \cup InputBody \cup GestureBody \cup InjectBody \cup TouchBody \subseteq OffBody
    BY DEF OffBody
  <1>4. Top.at \in HupBody \cup InputBody \cup GestureBody \cup InjectBody \cup TouchBody =>
          Off(Top)
    BY <1>3 DEF Off
  <1> USE DEF At, HupBody, InputBody, GestureBody, InjectBody, TouchBody
  <1>5. Begun(inited', Hup)
    BY <1>3 DEF Begun, Off, Hup, Frame
  <1>6. CASE HupStart
    BY <1>3, <1>4, <1>6, ReturnAway, JumpAway DEF HupStart
  <1>7. CASE HupPoll \/ HupRead
    BY <1>3, <1>4, <1>7, ReturnAway, JumpAway DEF HupPoll, HupRead
  <1>8. CASE HupProps
    BY <1>4, <1>8, ReturnAway DEF HupProps
  <1>9. CASE InputWrite \/ InputRewrite
    BY <1>3, <1>4, <1>5, <1>9, ReturnAway, CallAway DEF InputWrite, InputRewrite
  <1>10. CASE GestureBegin \/ GestureStarted
    BY <1>3, <1>4, <1>5, <1>10, ReturnAway, JumpAway, CallAway DEF GestureBegin, GestureStarted
  <1>11. CASE GestureNext
    <2>1. stack # <<>> /\ Top.at = "gesture.next" /\ Off(Top)
      BY <1>4, <1>11 DEF GestureNext
    <2>2. \/ Return("yes") \/ stack' = <<>>
          \/ Call(AdbCommand(FALSE), "gesture.sent")
          \/ \E c : Call(Input(c, FALSE), "gesture.sent")
      BY <1>11 DEF GestureNext
    <2>3. Begun(inited', AdbCommand(FALSE))
      <3>1. AdbCommand(FALSE).at \in CommandBody /\ AdbCommand(FALSE).cmd # "nc"
        BY DEF AdbCommand, Frame, CommandBody
      <3> QED BY <3>1 DEF Begun, Off
    <2>4. \A c : Begun(inited', Input(c, FALSE))
      <3> TAKE c
      <3>1. Input(c, FALSE).at = "input"
        BY DEF Input, Frame
      <3> QED BY <1>3, <3>1 DEF Begun, Off
    <2>5. CASE Return("yes")
      BY <2>1, <2>5, ReturnAway
    <2>6. CASE stack' = <<>>
      BY <2>1, <2>6 DEF Away
    <2>7. CASE Call(AdbCommand(FALSE), "gesture.sent")
      BY <1>3, <2>1, <2>3, <2>7, CallAway
    <2>8. CASE \E c : Call(Input(c, FALSE), "gesture.sent")
      BY <1>3, <2>1, <2>4, <2>8, CallAway
    <2> QED BY <2>2, <2>5, <2>6, <2>7, <2>8
  <1>12. CASE GestureSent
    BY <1>3, <1>4, <1>12, ReturnAway, AgainAway DEF GestureSent
  <1>13. CASE InjectBegin \/ InjectStarted
    <2>1. Off(Input(Top.cmd, TRUE))
      <3>1. Input(Top.cmd, TRUE).at = "input"
        BY DEF Input, Frame
      <3> QED BY <1>3, <3>1 DEF Off
    <2>2. stack # <<>> /\ Off(Top)
      BY <1>4, <1>13 DEF InjectBegin, InjectStarted
    <2>3. \/ Replace(Input(Top.cmd, TRUE)) \/ Call(Hup, "inject.started") \/ Return("no")
      BY <1>13 DEF InjectBegin, InjectStarted
    <2> QED BY <1>3, <1>5, <2>1, <2>2, <2>3, ReturnAway, ReplaceAway, CallAway
  <1>14. CASE TouchConnect
    <2>1. Begun(inited', Frame("adb.connect", "", FALSE))
      BY DEF Begun, Frame
    <2> QED BY <1>3, <1>4, <1>14, <2>1, CallAway DEF TouchConnect
  <1>15. CASE TouchConnected \/ TouchProbed
    <2>1. stack # <<>> /\ Off(Top)
      BY <1>4, <1>15 DEF TouchConnected, TouchProbed
    <2>2. ASSUME NEW b, NEW f, f = [Top EXCEPT !.at = "touch.probe", !.n = @ + 1, !.flag = b], Replace(f)
          PROVE  Away
      <3>1. f.at = "touch.probe"
        BY <2>1, <2>2, TopFrame DEF Frames
      <3>2. Off(f)
        BY <1>3, <3>1 DEF Off
      <3> QED BY <2>1, <2>2, <3>2, ReplaceAway
    <2>3. \/ Return("no") \/ Jump("touch.probe") \/ Again("touch.probe")
          \/ Replace([Top EXCEPT !.at = "touch.probe", !.n = @ + 1, !.flag = result = "ok"])
      BY <1>15 DEF TouchConnected, TouchProbed
    <2> QED BY <1>3, <2>1, <2>2, <2>3, ReturnAway, JumpAway, AgainAway
  <1>16. CASE TouchProbe
    <2>1. stack # <<>> /\ Top.at = "touch.probe" /\ Off(Top) /\ Top.n \in Nat \ {0}
      BY <1>4, <1>16, TopFrame DEF TouchProbe, Frames
    <2>2. \/ Top.n <= Len(Installation) /\ Call(AdbCall(Installation[Top.n], TRUE), "touch.probed")
          \/ Call(Hup, "touch.ready")
      BY <1>16 DEF TouchProbe
    <2>3. Top.n <= Len(Installation) => Installation[Top.n] # "nc"
      BY <2>1 DEF Installation
    <2>4. ASSUME Top.n <= Len(Installation)
          PROVE  Begun(inited', AdbCall(Installation[Top.n], TRUE))
      BY <2>3, <2>4 DEF Begun, AdbCall, Frame
    <2> QED BY <1>3, <1>5, <2>1, <2>2, <2>4, CallAway
  <1>17. CASE TouchReady
    BY <1>4, <1>17, ReturnAway DEF TouchReady
  <1>18. ~TouchReconnectOk /\ ~TouchReconnectHup
    BY DEF TouchReconnectOk, TouchReconnectHup
  <1> QED BY <1>6, <1>7, <1>8, <1>9, <1>10, <1>11, <1>12, <1>13, <1>14, <1>15, <1>16, <1>17, <1>18
          DEF TouchStep

-----------------------------------------------------------------------------
(* Connecting, looking at the screen and the callers.                              *)

\* The destructor closes the socket of a backend that is said to work no more.
LEMMA DestroyedAway ==
  ASSUME Typed, Legal, NcInv, Typed', stack # <<>>, Off(Top), NEW l \in OffBody, Destroyed(l)
  PROVE  NcInv'
  <1>1. UNCHANGED <<lite, sock, started, method>>
    BY DEF Destroyed, ioVars, shotVars, linkVars
  <1>2. inited' => inited
    BY DEF Destroyed, ReleaseMinitouch
  <1>3. Away
    <2>1. Jump(l) \/ (~inited' /\ Call(Frame("release", "", FALSE), l))
      BY DEF Destroyed
    <2>2. ~inited' => Begun(inited', Frame("release", "", FALSE))
      BY DEF Begun, Frame
    <2> QED BY <2>1, <2>2, JumpAway, CallAway
  <1> QED BY <1>1, <1>2, <1>3, NothingLost, NcAway

\* A new backend: only Assistant::connect waits for it.
LEMMA CreatedAway ==
  ASSUME Typed, Legal, NcInv, Typed', CtrlCreate
  PROVE  NcInv'
  <1>1. stack # <<>> /\ Top.at = "ctrl.create" /\ Off(Top) /\ "ctrl.connected" \in OffBody
    BY DEF CtrlCreate, At, Off, OffBody, CtrlBody
  <1>2. CASE Return("no") /\ UNCHANGED others
    <2>1. RestKept
      BY <1>2, NothingLost DEF others, ioVars, adbVars, shotVars, linkVars
    <2> QED BY <1>1, <1>2, <2>1, ReturnAway, NcAway
  <1>3. CASE ~(Return("no") /\ UNCHANGED others)
    <2>1. Construct(Top.cmd)
      BY <1>3 DEF CtrlCreate
    <2>2. ~started' /\ ~inited' /\ method' = "UnknownYet"
      BY <2>1 DEF Construct, NewAdb
    <2>3. \A i \in 2 .. Len(stack) : stack[i].at = "connected" /\ i = Len(stack)
      <3> SUFFICES ASSUME NEW i \in 2 .. Len(stack)
                   PROVE  stack[i].at = "connected" /\ i = Len(stack)
        OBVIOUS
      <3>1. Len(stack) \in Nat /\ Len(stack) > 1 /\ 1 \in 1 .. Len(stack) - 1 /\ 1 + 1 = 2
        BY StackFacts, <1>1
      <3>2. Allowed(touch, stack[2], stack[1]) /\ stack[1] = Top
        BY <1>1, <3>1, StackFacts DEF Legal
      <3>3. stack[2].at = "connected"
        BY <1>1, <3>2 DEF Allowed, Serves, CtrlBody
      <3>4. stack[2].at \in Outermost
        BY <3>3 DEF Outermost
      <3>5. 2 \notin 1 .. Len(stack) - 1
        BY <1>1, <3>4, StackFacts
      <3>6. Len(stack) = 2
        <4>1. \A n \in Nat : n > 1 /\ 2 \notin 1 .. n - 1 => n = 2
          OBVIOUS
        <4> QED BY <3>1, <3>5, <4>1
      <3>7. i = 2
        BY <3>6
      <3> QED BY <3>3, <3>6, <3>7
    <2>4. \A i \in 2 .. Len(stack) : Held(inited', lite', stack[i])
      <3> TAKE i \in 2 .. Len(stack)
      <3>1. Off(stack[i])
        BY <2>3 DEF Off, OffBody, ClientBody
      <3> QED BY <3>1, OffFacts
    <2>5. \A i \in 2 .. Len(stack) - 1 : Upon(sock', stack[i + 1], stack[i])
      <3> SUFFICES ASSUME NEW i \in 2 .. Len(stack) - 1 PROVE FALSE
        OBVIOUS
      <3>1. Len(stack) \in Nat
        BY DEF Typed
      <3>2. i \in 2 .. Len(stack) /\ i # Len(stack)
        BY <3>1
      <3> QED BY <2>3, <3>2
    <2>6. RestKept
      BY <2>2, <2>4, <2>5 DEF RestKept, NcServed
    <2>7. PICK e \in {"touch.connect", "adb.connect", "play.connect", "unit.connect"} :
            Call(Frame(e, "", FALSE), "ctrl.connected")
      <3> DEFINE t == Top.cmd
      <3>1. Call(Frame(CASE t \in {"Minitouch", "Maatouch"} -> "touch.connect"
                         [] t = "Adb" -> "adb.connect"
                         [] t = "MacPlayTools" -> "play.connect"
                         [] OTHER -> "unit.connect", "", FALSE), "ctrl.connected")
        BY <1>3 DEF CtrlCreate
      <3>2. CASE t \in {"Minitouch", "Maatouch"}
        BY <3>1, <3>2
      <3>3. CASE t = "Adb"
        BY <3>1, <3>3
      <3>4. CASE t = "MacPlayTools"
        BY <3>1, <3>4
      <3>5. CASE t \notin {"Minitouch", "Maatouch", "Adb", "MacPlayTools"}
        BY <3>1, <3>5
      <3> QED BY <3>2, <3>3, <3>4, <3>5
    <2>8. Begun(inited', Frame(e, "", FALSE))
      <3>1. Frame(e, "", FALSE).at = e
        BY DEF Frame
      <3>2. {"touch.connect", "play.connect", "unit.connect"} \subseteq OffBody
        BY DEF OffBody, TouchBody, OpenBody, UnitCalls
      <3> QED BY <3>1, <3>2 DEF Begun, Off
    <2> QED BY <1>1, <2>6, <2>7, <2>8, CallAway, NcAway
  <1> QED BY <1>2, <1>3

LEMMA NcCtrl == ASSUME Typed, Legal, NcInv, Typed', CtrlStep PROVE NcInv'
  <1>1. CtrlBody \cup ClientBody \cup PlayCalls \cup UnitCalls \subseteq OffBody
    BY DEF OffBody
  <1>2. Top.at \in CtrlBody \cup ClientBody => Off(Top)
    BY <1>1 DEF Off
  <1>3. \A b \in BOOLEAN : Begun(inited', Shot(b))
    <2> TAKE b \in BOOLEAN
    <2>1. Shot(b).at \in {"screencap", "play.shot", "unit.shot"}
      BY DEF Shot, Frame
    <2>2. {"play.shot", "unit.shot"} \subseteq OffBody
      BY <1>1 DEF PlayCalls, UnitCalls
    <2> QED BY <2>1, <2>2 DEF Begun, Off
  <1> USE DEF At, CtrlBody, ClientBody
  <1>4. CASE CtrlConnect
    BY <1>1, <1>2, <1>4, DestroyedAway DEF CtrlConnect
  <1>5. CASE CtrlCreate
    BY <1>5, CreatedAway
  <1>6. CASE CtrlConnected /\ result # "yes"
    BY <1>1, <1>2, <1>6, DestroyedAway DEF CtrlConnected
  <1>7. CASE ExitDestroy
    BY <1>1, <1>2, <1>7, DestroyedAway DEF ExitDestroy
  <1>8. ASSUME UNCHANGED others, Away PROVE NcInv'
    <2>1. RestKept
      BY <1>8, NothingLost DEF others, ioVars, adbVars, shotVars, linkVars
    <2> QED BY <1>8, <2>1, NcAway
  <1>9. CASE CtrlConnected /\ result = "yes"
    BY <1>1, <1>2, <1>3, <1>8, <1>9, JumpAway, CallAway DEF CtrlConnected
  <1>10. CASE CtrlFailed
    BY <1>2, <1>8, <1>10, ReturnAway DEF CtrlFailed
  <1>11. CASE CtrlLooked \/ WindowLooked
    BY <1>1, <1>2, <1>8, <1>11, ReturnAway, JumpAway DEF CtrlLooked, WindowLooked
  <1>12. CASE CtrlScale \/ WindowScale
    BY <1>2, <1>8, <1>12, ReturnAway DEF CtrlScale, WindowScale
  <1>13. CASE ImageTry
    BY <1>1, <1>2, <1>3, <1>8, <1>13, ReturnAway, CallAway DEF ImageTry
  <1>14. CASE ImageTaken \/ ImageLast
    BY <1>1, <1>2, <1>8, <1>14, ReturnAway, AgainAway DEF ImageTaken, ImageLast
  <1>15. CASE Connected \/ Exited
    BY <1>2, <1>8, <1>15 DEF Connected, Exited, Away
  <1> QED BY <1>4, <1>5, <1>6, <1>7, <1>9, <1>10, <1>11, <1>12, <1>13, <1>14, <1>15 DEF CtrlStep

\* A caller begins when nothing else is in progress.
LEMMA BegunNc ==
  ASSUME NcInv, UNCHANGED <<lite, sock, started, method, inited>>,
         NEW f, Off(f), stack' = <<f>> \/ \E g : Off(g) /\ stack' = <<f, g>>
  PROVE  NcInv'
  <1>1. (started' => ~lite') /\ NcServed'
    BY DEF NcInv, NcServed
  <1>2. stack' # <<>> /\ Top' = f
    BY DEF Top
  <1>3. Shown(inited', sock', need_exit', result', Top')
    BY <1>2, OffFacts
  <1>4. CASE stack' = <<f>>
    <2>1. Len(stack') = 1 /\ stack'[1] = f
      BY <1>4
    <2>2. (\A i \in 1 .. 1 : i = 1) /\ (\A i : i \notin 1 .. 1 - 1)
      OBVIOUS
    <2> QED BY <1>1, <1>3, <2>1, <2>2, OffFacts DEF NcInv
  <1>5. CASE \E g : Off(g) /\ stack' = <<f, g>>
    <2>1. PICK g : Off(g) /\ stack' = <<f, g>>
      BY <1>5
    <2>2. Len(stack') = 2 /\ stack'[1] = f /\ stack'[2] = g
      BY <2>1
    <2>3. (\A i \in 1 .. 2 : i = 1 \/ i = 2) /\ (\A i \in 1 .. 2 - 1 : i = 1) /\ 1 + 1 = 2
      OBVIOUS
    <2>4. Upon(sock', g, f)
      BY <2>1, OffFacts
    <2>5. \A i \in 1 .. Len(stack') : Held(inited', lite', stack'[i])
      BY <2>1, <2>2, <2>3, OffFacts
    <2>6. \A i \in 1 .. Len(stack') - 1 : Upon(sock', stack'[i + 1], stack'[i])
      BY <2>2, <2>3, <2>4
    <2> QED BY <1>1, <1>3, <2>5, <2>6 DEF NcInv
  <1> QED BY <1>4, <1>5

\* A start, a stop, and nothing at all.
LEMMA StayedNc ==
  ASSUME NcInv, UNCHANGED <<stack, result, lite, sock, started, method, inited>>,
         need_exit' = need_exit \/ need_exit' \/ stack = <<>>
  PROVE  NcInv'
  <1>1. need_exit' = need_exit => NcInv'
    BY DEF NcInv, NcServed, Top
  <1>2. stack = <<>> => NcInv'
    BY DEF NcInv, NcServed
  <1>3. ASSUME need_exit', stack # <<>> PROVE NcInv'
    <2>1. Top' = Top /\ stack' # <<>>
      BY <1>3 DEF Top
    <2>2. Shown(inited', sock', need_exit', result', Top')
      BY <1>3, <2>1 DEF NcInv, Shown
    <2> QED BY <2>1, <2>2 DEF NcInv, NcServed
  <1> QED BY <1>1, <1>2, <1>3

LEMMA NcClient == ASSUME NcInv, Client PROVE NcInv'
  <1> DEFINE Kept == UNCHANGED <<lite, sock, started, method, inited>>
  <1>1. \A f : Begin(f) => stack' = <<f>> /\ Kept
    BY DEF Begin, adbVars, shotVars, linkVars
  <1>2. CommandBody \cap {"nc"} = {} /\ "command" \in CommandBody
    BY DEF CommandBody
  <1>3. \A b : Off(AdbCommand(b))
    BY <1>2 DEF AdbCommand, Frame, Off
  <1>4. /\ GestureBody \cup InjectBody \cup PlayBody \cup PlayCalls \cup UnitBody \subseteq OffBody
        /\ UnitCalls \cup CtrlBody \cup ClientBody \subseteq OffBody
    BY DEF OffBody
  <1>5. \A e \in {"gesture", "inject", "play.gesture", "play.command", "unit.gesture",
                  "unit.inject", "unit.command", "ctrl.connect", "connected", "image", "exit"} :
          e \in OffBody
    BY <1>4 DEF GestureBody, InjectBody, PlayBody, PlayCalls, UnitBody, UnitCalls, CtrlBody,
                ClientBody
  <1>6. \A e \in OffBody : \A c, b : Off(Frame(e, c, b))
    BY DEF Off, Frame
  <1>7. ASSUME NEW f, Off(f), Begin(f) PROVE NcInv'
    BY <1>1, <1>7, BegunNc
  <1>8. CASE Touch
    <2>1. PICK g \in {"click", "swipe", "extra", "pause", "late"} :
            IF proxy THEN Begin(Touching(g))
            ELSE UNCHANGED <<callVars, ioVars, adbVars>>
      BY <1>8 DEF Touch
    <2>2. CASE proxy
      <3>1. \/ \E b : Touching(g) = AdbCommand(b)
            \/ \E c : Touching(g) = Frame("gesture", c, FALSE)
            \/ \E c : Touching(g) = Frame("play.gesture", c, FALSE)
            \/ \E c : Touching(g) = Frame("unit.gesture", c, FALSE)
        BY DEF Touching, Gesture
      <3>2. Off(Touching(g))
        BY <1>3, <1>5, <1>6, <3>1
      <3> QED BY <1>7, <2>1, <2>2, <3>2
    <2>3. CASE ~proxy
      BY <2>1, <2>3, StayedNc DEF callVars, ioVars, adbVars, shotVars, linkVars
    <2> QED BY <2>2, <2>3
  <1>9. CASE Inject
    <2>1. PICK c \in {"down", "up", "wait"} : Begin(Event(c))
      BY <1>9 DEF Inject
    <2>2. \/ Event(c) = Frame("play.command", c, FALSE)
          \/ Event(c) = Frame("inject", c, TRUE)
          \/ Event(c) = Frame("unit.inject", c, FALSE)
      <3>1. CASE object = "Adb" \/ object = "MacPlayTools"
        BY <3>1 DEF Event
      <3>2. CASE object \in {"Minitouch", "Maatouch"}
        BY <3>2 DEF Event, InputEvent
      <3>3. CASE object \notin {"Adb", "MacPlayTools", "Minitouch", "Maatouch"}
        BY <3>3 DEF Event
      <3> QED BY <3>1, <3>2, <3>3
    <2> QED BY <1>5, <1>6, <1>7, <2>1, <2>2
  <1>10. CASE Order
    <2>1. PICK c \in {"press_esc", "start_game", "stop_game", "input"} : Begin(Commanding(c))
      BY <1>10 DEF Order
    <2>2. \/ Commanding(c) = AdbCommand(FALSE)
          \/ Commanding(c) = Frame("play.command", c, FALSE)
          \/ Commanding(c) = Frame("unit.command", c, FALSE)
      BY DEF Commanding, AdbFamily
    <2> QED BY <1>3, <1>5, <1>6, <1>7, <2>1, <2>2
  <1>11. CASE GetImage \/ Exit
    BY <1>5, <1>6, <1>7, <1>11 DEF GetImage, Exit
  <1>12. CASE Connect \/ AttachWindow
    <2>1. PICK t, attach : Connecting(t, attach)
      BY <1>12 DEF Connect, AttachWindow
    <2>2. /\ stack' = <<Frame("ctrl.connect", t, attach), Frame("connected", "", FALSE)>>
          /\ Kept
      BY <2>1 DEF Connecting, adbVars, shotVars, linkVars
    <2>3. Off(Frame("ctrl.connect", t, attach)) /\ Off(Frame("connected", "", FALSE))
      BY <1>5, <1>6
    <2> QED BY <2>2, <2>3, BegunNc
  <1>13. CASE Start
    BY <1>13, StayedNc DEF Start, callVars, others, ioVars, adbVars, shotVars, linkVars
  <1>14. CASE Park
    BY <1>14, StayedNc DEF Park, Quiet, others, ioVars, adbVars, shotVars, linkVars
  <1> QED BY <1>8, <1>9, <1>10, <1>11, <1>12, <1>13, <1>14 DEF Client
-----------------------------------------------------------------------------
(* The steps of AdbController and of the commands it sends.                        *)

\* A command that connects, and one that a reconnect waits for, are near the top.
LEMMA TailPlaces ==
  ASSUME Typed, Legal, NcInv, stack # <<>>
  PROVE  /\ Top.at \notin HupBody => \A i \in 2 .. Len(stack) : stack[i].at \notin Over
         /\ Top.at \notin {"call", "call.done"} \cup IOBody =>
              \A i \in 2 .. Len(stack) : stack[i].at \notin LinkBody
  <1>1. Len(stack) \in Nat /\ Len(stack) > 0 /\ Top = stack[1]
    BY StackFacts
  <1>2. \A i \in 2 .. Len(stack) :
          /\ i - 1 \in 1 .. Len(stack) - 1
          /\ stack[i].at \in Waits /\ Serves(stack[i].at, stack[i - 1])
          /\ Upon(sock, stack[i], stack[i - 1])
    <2> TAKE i \in 2 .. Len(stack)
    <2>1. i - 1 \in 1 .. Len(stack) - 1 /\ (i - 1) + 1 = i
      BY <1>1
    <2> QED BY <2>1 DEF Legal, Allowed, Serves, NcInv
  <1>3. \A i \in 2 .. Len(stack) : i = 2 \/ i - 1 \in 2 .. Len(stack)
    BY <1>1
  <1>4. \A i \in 2 .. Len(stack) : stack[i].at \notin IOBody
    <2>1. \A l \in Waits : l \notin IOBody
      BY DEF IOBody, Waits, HupWaits
    <2> QED BY <1>2, <2>1
  <1>5. ASSUME NEW i \in 2 .. Len(stack), stack[i].at \in Over PROVE Top.at \in HupBody
    <2>1. stack[i].at = "reconnect.hup"
      BY <1>2, <1>5 DEF Over, Waits, HupWaits
    <2>2. stack[i - 1].at \in HupBody
      BY <1>2, <2>1 DEF Serves, HupWaits
    <2>3. i - 1 \notin 2 .. Len(stack)
      BY <1>2, <2>2 DEF HupBody, Waits, HupWaits
    <2>4. i - 1 = 1
      BY <1>3, <2>3
    <2> QED BY <1>1, <2>2, <2>4
  <1>6. ASSUME NEW i \in 2 .. Len(stack), stack[i].at \in LinkBody
        PROVE  Top.at \in {"call", "call.done"} \cup IOBody
    <2>1. stack[i].at \in LinkWaits
      BY <1>2, <1>6 DEF LinkBody, LinkWaits, Waits, HupWaits
    <2>2. stack[i - 1].at \in {"call", "call.done"}
      BY <1>2, <2>1 DEF Upon
    <2>3. CASE i = 2
      BY <1>1, <2>2, <2>3
    <2>4. CASE i - 1 \in 2 .. Len(stack)
      <3>1. stack[i - 1].at = "call.done"
        BY <1>2, <2>2, <2>4 DEF Waits, HupWaits
      <3>2. stack[(i - 1) - 1].at \in IOBody
        BY <1>2, <2>4, <3>1 DEF Serves
      <3>3. (i - 1) - 1 \notin 2 .. Len(stack)
        BY <1>4, <3>2
      <3>4. (i - 1) - 1 = 1
        BY <1>3, <2>4, <3>3
      <3> QED BY <1>1, <3>2, <3>4
    <2> QED BY <1>3, <2>3, <2>4
  <1> QED BY <1>5, <1>6

\* The socket is closed or opened, or the controller said to work, by a step that no
\* call below depends on.
LEMMA LittleLost ==
  ASSUME Typed, Legal, NcInv, stack # <<>>, lite' = lite, started' => ~lite', NcServed',
         (inited' => inited) \/ Top.at \notin {"call", "call.done"} \cup IOBody,
         sock' = sock \/ Top.at \notin HupBody
  PROVE  RestKept
  <1>1. Len(stack) \in Nat
    BY DEF Typed
  <1>2. \A i \in 2 .. Len(stack) : i \in 1 .. Len(stack)
    BY <1>1
  <1>3. \A i \in 2 .. Len(stack) - 1 : i \in 1 .. Len(stack) - 1 /\ i \in 2 .. Len(stack)
    BY <1>1
  <1>4. ASSUME NEW i \in 2 .. Len(stack) PROVE Held(inited', lite', stack[i])
    <2>1. Held(inited, lite, stack[i])
      BY <1>2 DEF NcInv
    <2>2. (inited' => inited) \/ stack[i].at \notin LinkBody
      BY TailPlaces
    <2> QED BY <2>1, <2>2 DEF Held, LinkBody
  <1>5. ASSUME NEW i \in 2 .. Len(stack) - 1 PROVE Upon(sock', stack[i + 1], stack[i])
    <2>1. Upon(sock, stack[i + 1], stack[i])
      BY <1>3 DEF NcInv
    <2>2. sock' = sock \/ stack[i].at \notin Over
      BY <1>3, TailPlaces
    <2> QED BY <2>1, <2>2 DEF Upon
  <1> QED BY <1>4, <1>5 DEF RestKept

\* Calls that say nothing of a picture to what waits for them.
LEMMA FreeBelow ==
  ASSUME Typed, Legal, NcInv, stack # <<>>, Len(stack) > 1,
         Top.at \notin IOBody \cup CallBody \cup {"capture", "capture.decode"}
  PROVE  \A s, f : Upon(s, stack[2], f)
  <1> DEFINE b == stack[2]
  <1>1. Serves(b.at, Top) /\ Upon(sock, b, Top)
    BY TopTwo
  <1> HIDE DEF b
  <1>2. b.at \notin {"call.done", "reconnect.recalled"}
    BY <1>1 DEF Serves, CallBody
  <1>3. b.at \notin LinkWaits /\ ~(b.at = "probe.done" /\ b.n = 1)
        /\ ~(b.at = "capture.decode" /\ b.cmd = "nc")
    BY <1>1 DEF Upon, CallBody
  <1>4. \A s, f : Upon(s, b, f)
    BY <1>2, <1>3 DEF Upon
  <1> QED BY <1>4 DEF b

\* A call about the same command at l may stand where Top does.
Stays(l) ==
  /\ Top.at \notin Over /\ l \notin Over
  /\ Top.at \in {"call", "call.done"} => l \in {"call", "call.done"} \/ inited
  /\ Top.at \in {"capture", "capture.decode"} => l \in {"capture", "capture.decode"}
  /\ Top.at \in CallBody => l \in CallBody

LEMMA StaysUpon ==
  ASSUME Typed, Legal, NcInv, stack # <<>>, Len(stack) > 1, NEW f, f.cmd = Top.cmd, Stays(f.at)
  PROVE  \A s : Upon(s, stack[2], f)
  <1> DEFINE b == stack[2]
  <1>1. Upon(sock, b, Top)
    BY TopTwo
  <1>2. 2 \in 1 .. Len(stack)
    BY StackFacts
  <1>3. Held(inited, lite, b)
    BY <1>2 DEF NcInv
  <1> HIDE DEF b
  <1>4. b.at \in LinkWaits => f.at \in {"call", "call.done"}
    BY <1>1, <1>3 DEF Upon, Held, Stays, LinkWaits, LinkBody
  <1>5. b.at = "probe.done" /\ b.n = 1 =>
          f.at \in {"capture", "capture.decode"} /\ f.cmd = "nc"
    BY <1>1 DEF Upon, Stays
  <1>6. b.at = "capture.decode" /\ b.cmd = "nc" =>
          f.at \in CallBody /\ f.at \notin Over /\ f.cmd = "nc"
    BY <1>1 DEF Upon, Stays
  <1>7. b.at \in {"call.done", "reconnect.recalled"} /\ b.cmd = "nc" => f.cmd = "nc"
    BY <1>1 DEF Upon
  <1>8. \A s : Upon(s, b, f)
    BY <1>4, <1>5, <1>6, <1>7 DEF Upon
  <1> QED BY <1>8 DEF b

Telling == {"release", "posix.drain", "call.done", "reconnect.recalled", "capture.decode",
            "probe.done"}

LEMMA JumpNc ==
  ASSUME Typed, Typed', Legal, NcInv, RestKept, stack # <<>>,
         NEW l \in Labels \ {"release"}, Jump(l), Stays(l),
         l = "posix.drain" /\ Top.cmd = "nc" => sock' = "listening",
         \A f : f.at = l /\ f.cmd = Top.cmd /\ f.flag = Top.flag /\ f.n = Top.n =>
                  Held(inited', lite', f)
  PROVE  NcInv'
  <1> DEFINE f == [Top EXCEPT !.at = l]
  <1>1. f \in Frames /\ f.at = l /\ f.cmd = Top.cmd /\ f.flag = Top.flag /\ f.n = Top.n
    BY TopFrame, FrameMoved
  <1>2. stack' = <<f>> \o Tail(stack) /\ result' = "void"
    BY DEF Jump, Goto, Replace
  <1> HIDE DEF f
  <1>3. Held(inited', lite', f)
    BY <1>1
  <1>4. Len(stack) > 1 => Upon(sock', stack[2], f)
    BY <1>1, StaysUpon
  <1>5. Shown(inited', sock', need_exit', result', f)
    BY <1>1, <1>2 DEF Shown, Pictures
  <1> QED BY <1>2, <1>3, <1>4, <1>5, NcMove

LEMMA AgainNc ==
  ASSUME Typed, Typed', Legal, NcInv, RestKept, stack # <<>>,
         NEW l \in Labels \ Telling, Again(l), Stays(l),
         \A f : f.at = l /\ f.cmd = Top.cmd /\ f.flag = Top.flag => Held(inited', lite', f)
  PROVE  NcInv'
  <1> DEFINE f == [Top EXCEPT !.at = l, !.n = @ + 1]
  <1>1. f \in Frames /\ f.at = l /\ f.cmd = Top.cmd /\ f.flag = Top.flag
    BY TopFrame, FrameRepeated
  <1>2. stack' = <<f>> \o Tail(stack)
    BY DEF Again, Repeat, Replace
  <1> HIDE DEF f
  <1>3. Held(inited', lite', f)
    BY <1>1
  <1>4. Len(stack) > 1 => Upon(sock', stack[2], f)
    BY <1>1, StaysUpon
  <1>5. Shown(inited', sock', need_exit', result', f)
    BY <1>1 DEF Shown, Telling
  <1> QED BY <1>2, <1>3, <1>4, <1>5, NcMove

LEMMA CallNc ==
  ASSUME Typed, Typed', Legal, NcInv, RestKept, stack # <<>>,
         NEW l \in Labels, NEW g, Call(g, l), Stays(l),
         g.at # "posix.drain", g.at = "release" => ~inited', Held(inited', lite', g),
         \A f : f.at = l /\ f.cmd = Top.cmd /\ f.flag = Top.flag /\ f.n = Top.n =>
                  Held(inited', lite', f) /\ Upon(sock', f, g)
  PROVE  NcInv'
  <1> DEFINE f == [Top EXCEPT !.at = l]
  <1>1. f \in Frames /\ f.at = l /\ f.cmd = Top.cmd /\ f.flag = Top.flag /\ f.n = Top.n
    BY TopFrame, FrameMoved
  <1>2. stack' = <<g, f>> \o Tail(stack) /\ result' = "void"
    BY DEF Call, Enter
  <1> HIDE DEF f
  <1>3. Held(inited', lite', f) /\ Upon(sock', f, g)
    BY <1>1
  <1>4. Len(stack) > 1 => Upon(sock', stack[2], f)
    BY <1>1, StaysUpon
  <1>5. Shown(inited', sock', need_exit', result', g)
    BY <1>2 DEF Shown, Pictures
  <1> QED BY <1>2, <1>3, <1>4, <1>5, NcPush

\* What it takes to answer v: a picture that nc brought has come by the socket.
Earned(v) ==
  /\ v \in Pictures /\ Top.at \in IOBody \cup CallBody =>
       \/ Top.at \notin Over /\ Top.cmd # "nc"
       \/ sock' = "listening"
       \/ Top.at \in IOBody /\ need_exit'
       \/ Top.at \in Over /\ v = Top.cmd /\ sock' = sock
  /\ v = "yes" /\ Top.at \in {"capture", "capture.decode"} =>
       Top.cmd # "nc" \/ sock' = "listening"

LEMMA ReturnNc ==
  ASSUME Typed, Legal, NcInv, RestKept, stack # <<>>, NEW v, Return(v), Earned(v)
  PROVE  NcInv'
  <1>1. stack' = Tail(stack) /\ result' \in {v, "void"}
    BY DEF Return
  <1>2. ASSUME Len(stack) > 1
        PROVE  Shown(inited', sock', need_exit', result', stack[2])
    <2> DEFINE b == stack[2]
    <2>1. b.at \in Waits /\ Serves(b.at, Top) /\ Upon(sock, b, Top)
      BY <1>2, TopTwo
    <2> HIDE DEF b
    <2>2. b.at \notin {"release", "posix.drain"}
      BY <2>1 DEF Waits, HupWaits
    <2>3. IOBody \cap Over = {} /\ {"call", "call.done"} \cap (IOBody \cup Over) = {}
      BY DEF IOBody, Over
    <2>4. result' \in Pictures => result' = v
      BY <1>1 DEF Pictures
    <2>5. b.at = "call.done" /\ b.cmd = "nc" /\ result' \in Pictures =>
            sock' = "listening" \/ need_exit'
      <3>1. b.at = "call.done" => Top.at \in IOBody
        BY <2>1 DEF Serves
      <3> QED BY <2>1, <2>3, <2>4, <3>1 DEF Earned, Upon
    <2>6. b.at = "reconnect.recalled" /\ b.cmd = "nc" /\ result' \in Pictures =>
            sock' = "listening"
      <3>1. b.at = "reconnect.recalled" => Top.at \in {"call", "call.done"}
        BY <2>1 DEF Serves
      <3> QED BY <2>1, <2>3, <2>4, <3>1 DEF Earned, Upon, CallBody
    <2>7. b.at = "capture.decode" /\ b.cmd = "nc" /\ result' \in Pictures => sock' = "listening"
      <3> SUFFICES ASSUME b.at = "capture.decode", b.cmd = "nc", result' \in Pictures
                   PROVE  sock' = "listening"
        OBVIOUS
      <3>1. Top.at \in CallBody /\ Top.at \notin IOBody
        BY <2>1 DEF Upon, CallBody, IOBody
      <3>2. CASE Top.at \in Over
        BY <2>1, <2>4, <3>1, <3>2 DEF Earned, Upon
      <3>3. CASE Top.at \notin Over
        BY <2>1, <2>4, <3>1, <3>3 DEF Earned, Upon
      <3> QED BY <3>2, <3>3
    <2>8. b.at = "probe.done" /\ b.n = 1 /\ result' = "yes" => sock' = "listening"
      BY <1>1, <2>1 DEF Earned, Upon
    <2>9. Shown(inited', sock', need_exit', result', b)
      BY <2>2, <2>5, <2>6, <2>7, <2>8 DEF Shown
    <2> QED BY <2>9 DEF b
  <1> QED BY <1>1, <1>2, NcPop

\* The labels of AdbController are different ones.
LEMMA AdbLabels ==
  /\ IOBody \cup CallBody \cup ReleaseBody \subseteq Labels
  /\ CommandBody \cup ShotBody \cup LinkBody \subseteq Labels
  /\ Over \subseteq CallBody
  /\ \A l \in IOBody : l \notin CallBody /\ l \notin LinkBody /\ l \notin CommandBody
       /\ l \notin ShotBody \cup {"release"}
  /\ \A l \in CallBody : l \notin LinkBody /\ l \notin CommandBody
       /\ l \notin ShotBody \cup {"release"}
  /\ \A l \in ShotBody : l \notin LinkBody /\ l \notin CommandBody /\ l # "release"
  /\ \A l \in LinkBody \cup CommandBody :
       /\ l \notin IOBody /\ l \notin CallBody /\ l \notin ShotBody /\ l # "release"
       /\ l \notin Telling
  /\ \A l \in LinkBody : l \notin CommandBody
  /\ \A l \in ReleaseBody :
       /\ l \notin IOBody /\ l \notin CallBody /\ l \notin ShotBody /\ l \notin LinkBody
       /\ l \notin CommandBody
  <1>1. /\ IOBody \cup CallBody \cup ReleaseBody \subseteq Labels
        /\ CommandBody \cup ShotBody \cup LinkBody \subseteq Labels
    BY DEF Labels
  <1>2. Over \subseteq CallBody
    BY DEF Over, CallBody
  <1>3. \A l \in IOBody : l \notin CallBody /\ l \notin LinkBody /\ l \notin CommandBody
          /\ l \notin ShotBody \cup {"release"}
    BY DEF IOBody, CallBody, LinkBody, CommandBody, ShotBody
  <1>4. \A l \in CallBody : l \notin LinkBody /\ l \notin CommandBody
          /\ l \notin ShotBody \cup {"release"}
    BY DEF CallBody, LinkBody, CommandBody, ShotBody
  <1>5. \A l \in ShotBody : l \notin LinkBody /\ l \notin CommandBody /\ l # "release"
    BY DEF LinkBody, CommandBody, ShotBody
  <1>6. \A l \in LinkBody \cup CommandBody :
          /\ l \notin IOBody /\ l \notin CallBody /\ l \notin ShotBody /\ l # "release"
          /\ l \notin Telling
    BY DEF LinkBody, CommandBody, IOBody, CallBody, ShotBody, Telling
  <1>7. \A l \in LinkBody : l \notin CommandBody
    BY DEF LinkBody, CommandBody
  <1>8. \A l \in ReleaseBody :
          /\ l \notin IOBody /\ l \notin CallBody /\ l \notin ShotBody /\ l \notin LinkBody
          /\ l \notin CommandBody
    BY DEF ReleaseBody, IOBody, CallBody, ShotBody, LinkBody, CommandBody
  <1> QED BY <1>1, <1>2, <1>3, <1>4, <1>5, <1>6, <1>7, <1>8

LEMMA NcIO == ASSUME Typed, Typed', Legal, NcInv, IO PROVE NcInv'
  <1>1. UNCHANGED <<lite, sock>>
    BY DEF IO, IOStep, LiteRefuses, LiteBegins, LiteOkay, LiteMessage, LiteData, LitePushed,
           LiteThrows, PosixFork, PosixSocket, PosixDrain, Win32Create, Win32Ended, Win32TimedOut,
           Win32Cut, ioVars
  <1>2. RestKept
    BY <1>1, NothingLost DEF IO, adbVars, shotVars, linkVars
  <1>3. stack # <<>> /\ Top.at \in IOBody
    BY DEF IO, IOStep, LiteRefuses, LiteBegins, LiteOkay, LiteMessage, LiteData, LitePushed,
           LiteThrows, PosixFork, PosixSocket, PosixDrain, Win32Create, Win32Ended, Win32TimedOut,
           Win32Cut, NativeBegins, At, IOBody
  <1>4. /\ Top.cmd = "nc" => ~lite /\ Top.flag /\ Top.at # "lite.request"
        /\ Top.at = "posix.drain" /\ Top.cmd = "nc" => sock = "listening"
    BY <1>3, TopTwo DEF Held, Shown
  <1>5. \A l \in IOBody : Stays(l)
    BY <1>3, AdbLabels DEF Stays, ShotBody, CallBody
  <1>6. ASSUME NEW l \in IOBody, NEW f, f.at = l, f.cmd = Top.cmd, f.flag = Top.flag,
               l = "lite.request" => Top.cmd # "nc"
        PROVE  Held(inited', lite', f)
    <2>1. l \notin LinkBody /\ l \notin CommandBody /\ l # "probe.done"
      BY AdbLabels DEF ShotBody
    <2> QED BY <1>1, <1>4, <1>6, <2>1 DEF Held, LinkBody
  <1>7. ASSUME NEW l \in IOBody, Jump(l), l = "lite.request" => Top.cmd # "nc",
               l = "posix.drain" /\ Top.cmd = "nc" => sock = "listening"
        PROVE  NcInv'
    <2>1. l \in Labels \ {"release"}
      BY AdbLabels
    <2>2. \A f : f.at = l /\ f.cmd = Top.cmd /\ f.flag = Top.flag /\ f.n = Top.n =>
                  Held(inited', lite', f)
      BY <1>6, <1>7
    <2> QED BY <1>1, <1>2, <1>3, <1>5, <1>7, <2>1, <2>2, JumpNc
  <1>8. ASSUME NEW v, Return(v), v \in Pictures /\ Top.cmd = "nc" => sock = "listening" \/ need_exit
        PROVE  NcInv'
    <2>1. need_exit' = need_exit
      BY <1>8 DEF Return
    <2>2. Top.at \notin Over /\ Top.at \notin {"capture", "capture.decode"}
      BY <1>3, AdbLabels DEF ShotBody
    <2>3. Earned(v)
      BY <1>1, <1>3, <1>8, <2>1, <2>2 DEF Earned
    <2> QED BY <1>2, <1>3, <1>8, <2>3, ReturnNc
  <1> USE DEF At, IOBody
  <1>9. CASE LiteRefuses
    BY <1>7, <1>9 DEF LiteRefuses
  <1>10. CASE LiteBegins
    BY <1>4, <1>7, <1>10 DEF LiteBegins
  <1>11. CASE LiteOkay
    <2>1. Again("lite.request") /\ Top.at = "lite.request"
      BY <1>11 DEF LiteOkay
    <2>2. "lite.request" \in Labels \ Telling
      BY AdbLabels DEF Telling
    <2>3. \A f : f.at = "lite.request" /\ f.cmd = Top.cmd /\ f.flag = Top.flag =>
                  Held(inited', lite', f)
      BY <1>4, <1>6, <2>1
    <2> QED BY <1>2, <1>3, <1>5, <2>1, <2>2, <2>3, AgainNc
  <1>12. CASE LiteMessage \/ LiteData \/ LitePushed
    BY <1>4, <1>8, <1>12 DEF LiteMessage, LiteData, LitePushed
  <1>13. CASE LiteThrows
    BY <1>4, <1>7, <1>8, <1>13 DEF LiteThrows
  <1>14. "none" \notin Pictures /\ "bad" \notin Pictures /\ "empty" \notin Pictures
    BY DEF Pictures
  <1>15. CASE PosixFork
    <2>1. \/ Return("none")
          \/ Jump(IF Top.flag THEN "posix.socket" ELSE "posix.drain")
      BY <1>15 DEF PosixFork
    <2> QED BY <1>4, <1>7, <1>8, <1>14, <2>1
  <1>16. CASE PosixSocket
    BY <1>7, <1>8, <1>14, <1>16 DEF PosixSocket
  <1>17. CASE PosixDrain
    BY <1>4, <1>8, <1>14, <1>17 DEF PosixDrain
  <1>18. CASE Win32Create
    BY <1>7, <1>8, <1>14, <1>18 DEF Win32Create
  <1>19. CASE Win32Ended
    BY <1>4, <1>8, <1>14, <1>19 DEF Win32Ended
  <1>20. CASE Win32TimedOut
    BY <1>8, <1>14, <1>20 DEF Win32TimedOut
  <1>21. CASE Win32Cut
    <2>1. Top.cmd = "nc" => \A out \in Partial(Top.cmd) : out \notin Pictures
      BY DEF Partial, Shots, Pictures
    <2> QED BY <1>8, <1>14, <1>21, <2>1 DEF Win32Cut
  <1> QED BY <1>9, <1>10, <1>11, <1>12, <1>13, <1>15, <1>16, <1>17, <1>18, <1>19, <1>20, <1>21
          DEF IO, IOStep

\* A reconnect hands on what its command answered.
LEMMA NcReconnected ==
  ASSUME Typed, Typed', Legal, NcInv, TouchTool, At("reconnect.ok") \/ At("reconnect.hup")
  PROVE  NcInv'
  <1> USE DEF At
  <1>1. stack # <<>> /\ Top.at \in Over
    BY DEF Over
  <1>2. TouchReconnectOk \/ TouchReconnectHup
    BY DEF TouchTool, TouchStep, HupStart, HupPoll, HupRead, HupProps,
           InputWrite, InputRewrite, GestureBegin, GestureStarted, GestureNext, GestureSent,
           InjectBegin, InjectStarted, TouchConnect, TouchConnected, TouchProbe, TouchProbed,
           TouchReady
  <1>3. UNCHANGED <<lite, sock, inited, method, started>>
    BY <1>2 DEF TouchReconnectOk, TouchReconnectHup, ioVars, adbVars, shotVars, linkVars
  <1>4. RestKept
    BY <1>3, NothingLost
  <1>5. CASE Return(Top.cmd)
    <2>1. Earned(Top.cmd)
      BY <1>1, <1>3 DEF Earned, Over
    <2> QED BY <1>1, <1>4, <1>5, <2>1, ReturnNc
  <1>6. CASE Top.at = "reconnect.ok" /\ Call(Hup, "reconnect.hup")
    <2> DEFINE f == [Top EXCEPT !.at = "reconnect.hup"]
    <2>1. "reconnect.hup" \in Labels
      BY AdbLabels DEF Over
    <2>2. f \in Frames /\ f.at = "reconnect.hup" /\ f.cmd = Top.cmd
      BY <1>1, <2>1, TopFrame, FrameMoved
    <2>3. stack' = <<Hup, f>> \o Tail(stack)
      BY <1>6 DEF Call, Enter
    <2> HIDE DEF f
    <2>4. Off(Hup)
      BY DEF Off, Hup, Frame, OffBody, HupBody
    <2>5. /\ Held(inited', lite', Hup)
          /\ Shown(inited', sock', need_exit', result', Hup)
      BY <2>4, OffFacts
    <2>6. Held(inited', lite', f)
      BY <2>2 DEF Held, Over, LinkBody, IOBody, CommandBody
    <2>7. Upon(sock', f, Hup)
      BY <2>2 DEF Upon, LinkWaits
    <2>8. Len(stack) > 1 => Upon(sock', stack[2], f)
      <3> SUFFICES ASSUME Len(stack) > 1 PROVE Upon(sock, stack[2], f)
        BY <1>3
      <3> DEFINE b == stack[2]
      <3>1. Upon(sock, b, Top)
        BY <1>1, TopTwo
      <3> HIDE DEF b
      <3>2. Upon(sock, b, f)
        BY <1>6, <2>2, <3>1 DEF Upon, Over, CallBody
      <3> QED BY <3>2 DEF b
    <2> QED BY <1>1, <1>4, <2>3, <2>5, <2>6, <2>7, <2>8, NcPush
  <1> QED BY <1>2, <1>5, <1>6 DEF TouchReconnectOk, TouchReconnectHup

\* The socket is closed only on a controller that is not said to work.
LEMMA NcRelease == ASSUME Typed, Typed', Legal, NcInv, Release PROVE NcInv'
  <1>1. stack # <<>> /\ Top.at = "release" /\ Top.at \in ReleaseBody
    BY DEF Release, At, ReleaseBody
  <1>2. ~inited /\ UNCHANGED <<lite, inited, method, started>>
    BY <1>1, TopTwo DEF Release, Shown, adbVars, shotVars, linkVars
  <1>3. Top.at \notin HupBody
    BY <1>1 DEF HupBody
  <1>4. RestKept
    <2>1. started' => ~lite'
      BY <1>2 DEF NcInv
    <2>2. NcServed'
      BY <1>2 DEF NcServed
    <2> QED BY <1>1, <1>2, <1>3, <2>1, <2>2, LittleLost
  <1>5. Return("void") \/ Call(Command("release", FALSE), "release.done")
    BY DEF Release
  <1>6. CASE Return("void")
    <2>1. Earned("void")
      BY DEF Earned, Pictures
    <2> QED BY <1>1, <1>4, <1>6, <2>1, ReturnNc
  <1>7. CASE Call(Command("release", FALSE), "release.done")
    <2> DEFINE g == Command("release", FALSE)
    <2>1. g.at = "io" /\ g.cmd = "release"
      BY DEF Command, Frame
    <2> HIDE DEF g
    <2>2. Held(inited', lite', g)
      BY <2>1 DEF Held, LinkBody, CommandBody
    <2>3. "release.done" \in ReleaseBody
      BY DEF ReleaseBody
    <2>4. Stays("release.done")
      BY <1>1, <2>3, AdbLabels DEF Stays, ShotBody
    <2>5. \A f : f.at = "release.done" => Held(inited', lite', f) /\ Upon(sock', f, g)
      BY DEF Held, Upon, LinkWaits, LinkBody, IOBody, CallBody, CommandBody
    <2>6. Call(g, "release.done")
      BY <1>7 DEF g
    <2> QED BY <1>1, <1>4, <2>1, <2>2, <2>3, <2>4, <2>5, <2>6, AdbLabels, CallNc
  <1> QED BY <1>5, <1>6, <1>7

\* The other steps of call_command, reconnect and release change nothing but whether
\* the controller is said to work.
LEMMA NcCall ==
  ASSUME Typed, Typed', Legal, NcInv,
         \/ CallBegin \/ CallDone
         \/ ReconnectWait \/ ReconnectSlept \/ ReconnectConnected \/ ReconnectRecalled
         \/ ReconnectFail \/ ReconnectFailed \/ ReleaseDone \/ CommandSend \/ CommandDone
  PROVE  NcInv'
  <1>1. UNCHANGED <<lite, sock, method, started>> /\ (inited' => inited)
    <2>1. CASE ReconnectFail
      BY <2>1 DEF ReconnectFail, ioVars, shotVars, linkVars
    <2>2. CASE ~ReconnectFail
      <3>1. UNCHANGED <<ioVars, adbVars>>
        BY <2>2 DEF CallBegin, CallDone, ReconnectWait, ReconnectSlept, ReconnectConnected,
           ReconnectRecalled, ReconnectFailed, ReleaseDone, CommandSend, CommandDone
      <3> QED BY <3>1 DEF ioVars, adbVars, shotVars, linkVars
    <2> QED BY <2>1, <2>2
  <1>2. RestKept
    BY <1>1, NothingLost
  <1>3. stack # <<>> /\ Top.at \in (CallBody \ Over) \cup {"release.done"} \cup CommandBody
    BY DEF CallBegin, CallDone, ReconnectWait, ReconnectSlept, ReconnectConnected,
           ReconnectRecalled, ReconnectFail, ReconnectFailed, ReleaseDone, CommandSend, CommandDone,
           At, CallBody, Over, CommandBody
  <1>4. Top.at \notin Over /\ Top.at \notin {"capture", "capture.decode"} /\ Top.at \notin IOBody
    BY <1>3, AdbLabels DEF ShotBody, ReleaseBody
  <1>5. /\ Top.at \in CallBody /\ Top.cmd = "nc" => ~lite
        /\ Top.at \in CommandBody => Top.cmd # "nc"
        /\ /\ Top.at \in {"call.done", "reconnect.recalled"}
           /\ Top.cmd = "nc" /\ result \in Pictures
           => sock = "listening" \/ (Top.at = "call.done" /\ need_exit)
    BY <1>3, <1>4, TopTwo DEF Held, Shown
  <1>6. ASSUME NEW l \in CallBody \ Over, NEW f, f.at = l, f.cmd = Top.cmd, Top.at \in CallBody
        PROVE  Held(inited', lite', f)
    <2>1. l \notin LinkBody /\ l \notin CommandBody /\ l \notin IOBody
          /\ l \notin {"lite.request", "connect.server", "probe.done"}
      BY <1>6, AdbLabels DEF ShotBody, IOBody, LinkBody
    <2> QED BY <1>1, <1>5, <1>6, <2>1 DEF Held
  <1>7. ASSUME NEW l \in CallBody \ Over, Top.at \in CallBody,
               Top.at \in {"call", "call.done"} => l \in {"call", "call.done"} \/ inited
        PROVE  Stays(l)
    BY <1>4, <1>7 DEF Stays
  <1>8. ASSUME NEW l \in CallBody \ Over, Top.at \in CallBody, Jump(l),
               Top.at \in {"call", "call.done"} => inited
        PROVE  NcInv'
    <2>1. l \in Labels \ {"release"} /\ l # "posix.drain"
      BY AdbLabels DEF IOBody
    <2>2. \A f : f.at = l /\ f.cmd = Top.cmd /\ f.flag = Top.flag /\ f.n = Top.n =>
                  Held(inited', lite', f)
      BY <1>6, <1>8
    <2> QED BY <1>2, <1>3, <1>7, <1>8, <2>1, <2>2, JumpNc
  <1>9. ASSUME Again("reconnect"), Top.at \in CallBody, Top.at \notin {"call", "call.done"}
        PROVE  NcInv'
    <2>1. "reconnect" \in CallBody \ Over /\ "reconnect" \in Labels \ Telling
      BY AdbLabels DEF CallBody, Over, Telling
    <2>2. \A f : f.at = "reconnect" /\ f.cmd = Top.cmd /\ f.flag = Top.flag =>
                  Held(inited', lite', f)
      BY <1>6, <1>9, <2>1
    <2> QED BY <1>2, <1>3, <1>7, <1>9, <2>1, <2>2, AgainNc
  <1>10. ASSUME NEW v, Return(v), v \notin Pictures PROVE NcInv'
    <2>1. Earned(v)
      BY <1>4, <1>10 DEF Earned
    <2> QED BY <1>2, <1>3, <1>10, <2>1, ReturnNc
  <1>11. ASSUME NEW l \in CallBody \ Over, NEW c, Call(AdbCall(c, FALSE), l), Top.at \in CallBody,
                Top.at \notin {"call", "call.done"}, l \notin {"call", "call.done"},
                c = "nc" => Top.cmd = "nc", l = "reconnect.recalled" => c = Top.cmd
         PROVE  NcInv'
    <2> DEFINE g == AdbCall(c, FALSE)
    <2>1. g.at = "call" /\ g.cmd = c
      BY DEF AdbCall, Frame
    <2>2. Call(g, l)
      BY <1>11
    <2> HIDE DEF g
    <2>3. Held(inited', lite', g)
      BY <1>1, <1>5, <1>11, <2>1 DEF Held, LinkBody, CommandBody, IOBody
    <2>4. l \in Labels /\ l \notin LinkWaits /\ l \notin {"probe.done", "capture.decode"}
      BY AdbLabels DEF LinkWaits, LinkBody, ShotBody
    <2>5. \A f : f.at = l /\ f.cmd = Top.cmd /\ f.flag = Top.flag /\ f.n = Top.n =>
                  Held(inited', lite', f) /\ Upon(sock', f, g)
      <3> SUFFICES ASSUME NEW f, f.at = l, f.cmd = Top.cmd
                   PROVE  Held(inited', lite', f) /\ Upon(sock', f, g)
        OBVIOUS
      <3> QED BY <1>6, <1>11, <2>1, <2>4 DEF Upon
    <2> QED BY <1>2, <1>3, <1>7, <1>11, <2>1, <2>2, <2>3, <2>4, <2>5, CallNc
  <1> USE DEF At
  <1>12. CASE CallBegin
    <2>1. Top.at = "call" /\ Call(Command(Top.cmd, BySocket(Top.cmd)), "call.done")
      BY <1>12 DEF CallBegin
    <2> DEFINE g == Command(Top.cmd, BySocket(Top.cmd))
    <2>2. g.at = "io" /\ g.cmd = Top.cmd /\ (g.cmd = "nc" => g.flag)
      BY DEF Command, Frame, BySocket
    <2>3. Call(g, "call.done")
      BY <2>1
    <2> HIDE DEF g
    <2>4. {"call", "call.done"} \subseteq CallBody \ Over
      BY DEF CallBody, Over
    <2>5. Held(inited', lite', g)
      BY <1>1, <1>5, <2>1, <2>2, <2>4 DEF Held, LinkBody, CommandBody
    <2>6. \A f : f.at = "call.done" /\ f.cmd = Top.cmd /\ f.flag = Top.flag /\ f.n = Top.n =>
                  Held(inited', lite', f) /\ Upon(sock', f, g)
      <3> SUFFICES ASSUME NEW f, f.at = "call.done", f.cmd = Top.cmd
                   PROVE  Held(inited', lite', f) /\ Upon(sock', f, g)
        OBVIOUS
      <3>1. Upon(sock', f, g)
        BY <2>2 DEF Upon, LinkWaits
      <3> QED BY <1>6, <2>1, <2>4, <3>1
    <2>7. Stays("call.done")
      BY <1>7, <2>1, <2>4
    <2> QED BY <1>2, <1>3, <2>2, <2>3, <2>4, <2>5, <2>6, <2>7, AdbLabels, CallNc
  <1>13. CASE CallDone
    <2>1. Top.at = "call.done" /\ Top.at \in CallBody /\ "reconnect" \in CallBody \ Over
      BY <1>13 DEF CallDone, CallBody, Over
    <2>2. "none" \notin Pictures
      BY DEF Pictures
    <2>3. \/ Return("none") \/ (~need_exit /\ Return(result)) \/ (inited /\ Jump("reconnect"))
      BY <1>13 DEF CallDone
    <2>4. CASE ~need_exit /\ Return(result)
      <3>1. Earned(result)
        BY <1>1, <1>4, <1>5, <2>1, <2>4 DEF Earned
      <3> QED BY <1>2, <1>3, <2>4, <3>1, ReturnNc
    <2> QED BY <1>8, <1>10, <2>1, <2>2, <2>3, <2>4
  <1>14. {"reconnect", "reconnect.slept", "reconnect.connected", "reconnect.recalled",
          "reconnect.fail", "reconnect.failed"} \subseteq CallBody \ Over
    BY DEF CallBody, Over
  <1>15. CASE ReconnectWait
    BY <1>8, <1>14, <1>15 DEF ReconnectWait
  <1>16. CASE ReconnectSlept
    BY <1>8, <1>11, <1>14, <1>16 DEF ReconnectSlept
  <1>17. CASE ReconnectConnected
    BY <1>8, <1>9, <1>11, <1>14, <1>17 DEF ReconnectConnected
  <1>18. CASE ReconnectRecalled
    <2>1. Top.at = "reconnect.recalled" /\ Top.at \in CallBody
      BY <1>14, <1>18 DEF ReconnectRecalled
    <2>2. CASE Again("reconnect")
      BY <1>9, <2>1, <2>2
    <2>3. CASE Replace([Top EXCEPT !.at = "reconnect.ok", !.cmd = result]) /\ UNCHANGED result
      <3> DEFINE f == [Top EXCEPT !.at = "reconnect.ok", !.cmd = result]
      <3>1. f.at = "reconnect.ok" /\ f.cmd = result
        BY <1>3, TopFrame DEF Frames
      <3>2. stack' = <<f>> \o Tail(stack)
        BY <2>3 DEF Replace
      <3> HIDE DEF f
      <3>3. Held(inited', lite', f)
        BY <3>1 DEF Held, LinkBody, IOBody, CommandBody, Over
      <3>4. Shown(inited', sock', need_exit', result', f)
        BY <3>1 DEF Shown
      <3>5. Len(stack) > 1 => Upon(sock', stack[2], f)
        <4> SUFFICES ASSUME Len(stack) > 1 PROVE Upon(sock, stack[2], f)
          BY <1>1
        <4> DEFINE b == stack[2]
        <4>1. Serves(b.at, Top) /\ Upon(sock, b, Top)
          BY <1>3, TopTwo
        <4> HIDE DEF b
        <4>2. b.at \notin {"call.done", "reconnect.recalled"}
          BY <2>1, <4>1, AdbLabels DEF Serves
        <4>3. b.at \notin LinkWaits /\ ~(b.at = "probe.done" /\ b.n = 1)
          BY <2>1, <4>1 DEF Upon
        <4>4. b.at = "capture.decode" /\ b.cmd = "nc" =>
                f.at \in CallBody /\ f.at \in Over /\ (f.cmd \in Pictures => sock = "listening")
          BY <1>4, <1>5, <2>1, <3>1, <4>1 DEF Upon, CallBody, Over
        <4>5. Upon(sock, b, f)
          BY <4>2, <4>3, <4>4 DEF Upon
        <4> QED BY <4>5 DEF b
      <3> QED BY <1>2, <1>3, <3>2, <3>3, <3>4, <3>5, NcMove
    <2> QED BY <1>18, <2>2, <2>3 DEF ReconnectRecalled
  <1>19. CASE ReconnectFail
    <2> DEFINE g == Frame("release", "", FALSE)
    <2>1. /\ Top.at = "reconnect.fail" /\ Top.at \in CallBody
          /\ Call(g, "reconnect.failed") /\ ~inited'
      BY <1>14, <1>19 DEF ReconnectFail
    <2>2. g.at = "release"
      BY DEF Frame
    <2> HIDE DEF g
    <2>3. Held(inited', lite', g)
      BY <2>2 DEF Held, LinkBody, IOBody, CallBody, CommandBody
    <2>4. \A f : f.at = "reconnect.failed" /\ f.cmd = Top.cmd /\ f.flag = Top.flag /\ f.n = Top.n =>
                  Held(inited', lite', f) /\ Upon(sock', f, g)
      <3> SUFFICES ASSUME NEW f, f.at = "reconnect.failed", f.cmd = Top.cmd
                   PROVE  Held(inited', lite', f) /\ Upon(sock', f, g)
        OBVIOUS
      <3>1. Upon(sock', f, g)
        BY DEF Upon, LinkWaits
      <3> QED BY <1>6, <1>14, <2>1, <3>1
    <2>5. Stays("reconnect.failed")
      BY <1>7, <1>14, <2>1
    <2> QED BY <1>2, <1>3, <1>14, <2>1, <2>2, <2>3, <2>4, <2>5, AdbLabels, CallNc
  <1>20. {"none", "void", "yes", "no"} \cap Pictures = {}
    BY DEF Pictures
  <1>21. CASE ReconnectFailed \/ ReleaseDone
    BY <1>10, <1>20, <1>21 DEF ReconnectFailed, ReleaseDone
  <1>22. CASE CommandSend
    <2> DEFINE g == AdbCall(Top.cmd, TRUE)
    <2>1. /\ Top.at = "command" /\ Call(g, "command.done")
          /\ {"command", "command.done"} \subseteq CommandBody
      BY <1>22 DEF CommandSend, CommandBody
    <2>2. g.at = "call" /\ g.cmd = Top.cmd /\ Top.cmd # "nc"
      BY <1>5, <2>1 DEF AdbCall, Frame
    <2> HIDE DEF g
    <2>3. Held(inited', lite', g)
      BY <2>2 DEF Held, LinkBody, CommandBody
    <2>4. \A f : f.at = "command.done" /\ f.cmd = Top.cmd =>
                  Held(inited', lite', f) /\ Upon(sock', f, g)
      BY <2>2 DEF Held, Upon, LinkWaits, LinkBody, IOBody, CallBody
    <2>5. Stays("command.done")
      BY <1>4, <2>1, AdbLabels DEF Stays
    <2> QED BY <1>2, <1>3, <2>1, <2>2, <2>3, <2>4, <2>5, AdbLabels, CallNc
  <1>23. CASE CommandDone
    <2>1. Top.at = "command.done" /\ {"command", "command.done"} \subseteq CommandBody
      BY <1>23 DEF CommandDone, CommandBody
    <2>2. \/ Return("yes") \/ Return("no")
          \/ \E n : Replace([Top EXCEPT !.at = "command", !.flag = FALSE, !.n = n])
      BY <1>23 DEF CommandDone
    <2>3. ASSUME NEW n, Replace([Top EXCEPT !.at = "command", !.flag = FALSE, !.n = n])
          PROVE  NcInv'
      <3> DEFINE f == [Top EXCEPT !.at = "command", !.flag = FALSE, !.n = n]
      <3>1. f.at = "command" /\ f.cmd = Top.cmd
        BY <1>3, TopFrame DEF Frames
      <3>2. stack' = <<f>> \o Tail(stack)
        BY <2>3 DEF Replace
      <3> HIDE DEF f
      <3>3. Held(inited', lite', f)
        BY <1>5, <2>1, <3>1 DEF Held, LinkBody, IOBody, CallBody
      <3>4. Shown(inited', sock', need_exit', result', f)
        BY <3>1 DEF Shown
      <3>5. Len(stack) > 1 => Upon(sock', stack[2], f)
        BY <1>3, <1>4, <2>1, AdbLabels, FreeBelow
      <3> QED BY <1>2, <1>3, <3>2, <3>3, <3>4, <3>5, NcMove
    <2> QED BY <1>10, <1>20, <2>2, <2>3
  <1> QED BY <1>12, <1>13, <1>15, <1>16, <1>17, <1>18, <1>19, <1>21, <1>22, <1>23

\* Taking a screenshot, and finding out how.
LEMMA NcShot ==
  ASSUME Typed, Typed', Legal, NcInv,
         \/ CaptureBegin \/ CaptureDecode
         \/ ScreencapUnknown \/ ScreencapKnown \/ ScreencapExtras
         \/ Probe \/ ProbeDone \/ ProbeExtras \/ ProbeEnd
  PROVE  NcInv'
  <1>1. UNCHANGED <<lite, sock, started>>
    BY DEF CaptureBegin, CaptureDecode, ScreencapUnknown, ScreencapKnown, ScreencapExtras,
           Probe, ProbeDone, ProbeExtras, ProbeEnd, ioVars, adbVars, linkVars
  <1>2. stack # <<>> /\ Top.at \in ShotBody
    BY DEF CaptureBegin, CaptureDecode, ScreencapUnknown, ScreencapKnown, ScreencapExtras,
           Probe, ProbeDone, ProbeExtras, ProbeEnd, At, ShotBody
  <1>3. /\ Top.at \notin IOBody /\ Top.at \notin CallBody /\ Top.at \notin Over
        /\ Top.at \notin {"call", "call.done"}
    BY <1>2, AdbLabels DEF CallBody
  <1>4. Held(inited, lite, Top) /\ Shown(inited, sock, need_exit, result, Top) /\ Top \in Frames
    BY <1>2, TopTwo
  <1>5. {"yes", "no"} \cap Pictures = {}
    BY DEF Pictures
  <1>6. ASSUME RestKept, NEW v \in {"yes", "no"}, Return(v),
               v = "yes" /\ Top.at = "capture.decode" /\ Top.cmd = "nc" => sock = "listening",
               v = "yes" => Top.at # "capture"
        PROVE  NcInv'
    <2>1. Earned(v)
      BY <1>1, <1>5, <1>6 DEF Earned
    <2> QED BY <1>2, <1>6, <2>1, ReturnNc
  <1>7. "probe" \in Labels \ Telling /\ {"probe.done", "capture.decode"} \subseteq Labels
    BY AdbLabels DEF Telling, ShotBody
  <1>8. \A f : f.at \in {"probe", "capture"} => Held(inited', lite', f)
    BY DEF Held, LinkBody, IOBody, CallBody, CommandBody
  <1>9. ASSUME RestKept, Again("probe"), Top.at \in {"probe", "probe.done"} PROVE NcInv'
    <2>1. Stays("probe")
      BY <1>3, <1>9 DEF Stays, Over
    <2> QED BY <1>2, <1>7, <1>8, <1>9, <2>1, AgainNc
  <1>10. UNCHANGED <<inited, method>> => RestKept
    BY <1>1, NothingLost
  <1> USE DEF At
  <1>11. CASE CaptureBegin
    <2>1. Top.at = "capture" /\ RestKept
      BY <1>10, <1>11 DEF CaptureBegin, adbVars, shotVars
    <2>2. Return("no") \/ ((Top.cmd = "nc" => started)
                             /\ Call(AdbCall(Top.cmd, Top.flag), "capture.decode"))
      BY <1>11 DEF CaptureBegin, BySocket
    <2>3. CASE (Top.cmd = "nc" => started) /\ Call(AdbCall(Top.cmd, Top.flag), "capture.decode")
      <3> DEFINE g == AdbCall(Top.cmd, Top.flag)
      <3>1. g.at = "call" /\ g.cmd = Top.cmd
        BY DEF AdbCall, Frame
      <3>2. Call(g, "capture.decode")
        BY <2>3
      <3> HIDE DEF g
      <3>3. Top.cmd = "nc" => ~lite'
        BY <1>1, <2>3 DEF NcInv
      <3>4. Held(inited', lite', g)
        BY <3>1, <3>3 DEF Held, LinkBody, CommandBody, IOBody
      <3>5. \A f : f.at = "capture.decode" /\ f.cmd = Top.cmd =>
                    Held(inited', lite', f) /\ Upon(sock', f, g)
        BY <3>1, <3>3 DEF Held, Upon, LinkBody, LinkWaits, CommandBody, IOBody, CallBody, Over
      <3>6. Stays("capture.decode")
        BY <1>3, <2>1 DEF Stays, Over
      <3> QED BY <1>2, <1>7, <2>1, <3>1, <3>2, <3>4, <3>5, <3>6, CallNc
    <2> QED BY <1>6, <2>1, <2>2, <2>3
  <1>12. CASE CaptureDecode
    <2>1. Top.at = "capture.decode" /\ RestKept
      BY <1>10, <1>12 DEF CaptureDecode
    <2>2. Return("no") \/ (result \in Pictures /\ Return("yes"))
      BY <1>12 DEF CaptureDecode, Decodes, ConvertLf, HasCrLf, Pictures
    <2>3. Top.cmd = "nc" /\ result \in Pictures => sock = "listening"
      BY <1>4, <2>1 DEF Shown
    <2> QED BY <1>6, <2>1, <2>2, <2>3
  <1>13. CASE ScreencapUnknown
    <2>1. Top.at = "screencap" /\ Jump("probe") /\ RestKept
      BY <1>10, <1>13 DEF ScreencapUnknown
    <2>2. Stays("probe")
      BY <1>3, <2>1 DEF Stays, Over
    <2> QED BY <1>2, <1>7, <1>8, <2>1, <2>2, JumpNc
  <1>14. CASE ScreencapKnown
    <2> DEFINE f == Capture(method, Top.flag)
    <2>1. Top.at = "screencap" /\ Replace(f) /\ RestKept
      BY <1>10, <1>14 DEF ScreencapKnown, adbVars, shotVars
    <2>2. f.at = "capture"
      BY DEF Capture, Frame
    <2>3. stack' = <<f>> \o Tail(stack)
      BY <2>1 DEF Replace
    <2> HIDE DEF f
    <2>4. Held(inited', lite', f) /\ Shown(inited', sock', need_exit', result', f)
      BY <1>8, <2>2 DEF Shown
    <2>5. Len(stack) > 1 => Upon(sock', stack[2], f)
      BY <1>2, <1>3, <2>1, FreeBelow
    <2> QED BY <1>2, <2>1, <2>3, <2>4, <2>5, NcMove
  <1>15. CASE ScreencapExtras
    <2>1. Top.at = "screencap" /\ RestKept /\ \E v \in {"yes", "no"} : Return(v)
      BY <1>10, <1>15 DEF ScreencapExtras, shotVars
    <2> QED BY <1>6, <2>1
  <1>16. Len(Ways) = 3 /\ Ways[1] = "RawByNc" /\ Ways[2] = "RawWithGzip" /\ Ways[3] = "Encode"
    BY DEF Ways
  <1>17. CASE Probe
    <2>1. Top.at = "probe" /\ RestKept
      BY <1>10, <1>17 DEF Probe, adbVars, shotVars
    <2>2. \/ Again("probe")
          \/ Top.n <= Len(Ways) /\ Call(Capture(Ways[Top.n], Top.flag), "probe.done")
      BY <1>17 DEF Probe
    <2>3. CASE Top.n <= Len(Ways) /\ Call(Capture(Ways[Top.n], Top.flag), "probe.done")
      <3> DEFINE g == Capture(Ways[Top.n], Top.flag)
      <3>1. g.at = "capture" /\ (Top.n = 1 => g.cmd = "nc")
        BY <1>16 DEF Capture, Frame, CaptureCommand
      <3>2. Call(g, "probe.done")
        BY <2>3
      <3> HIDE DEF g
      <3>3. \A f : f.at = "probe.done" /\ f.n = Top.n =>
                    Held(inited', lite', f) /\ Upon(sock', f, g)
        BY <2>3, <3>1 DEF Held, Upon, LinkBody, LinkWaits, CommandBody, IOBody, CallBody
      <3>4. Stays("probe.done")
        BY <1>3, <2>1 DEF Stays, Over
      <3> QED BY <1>2, <1>7, <1>8, <2>1, <3>1, <3>2, <3>3, <3>4, CallNc
    <2> QED BY <1>9, <2>1, <2>2, <2>3
  <1>18. Top.at \in {"probe", "probe.done"} /\ NcServed' => RestKept
    <2>1. started' => ~lite'
      BY <1>1 DEF NcInv
    <2>2. Top.at \in {"probe", "probe.done"} => Top.at \notin {"call", "call.done"} \cup IOBody
      BY DEF IOBody
    <2> QED BY <1>1, <1>2, <2>1, <2>2, LittleLost
  <1>19. CASE ProbeDone
    <2>1. Top.at = "probe.done" /\ Again("probe")
      BY <1>19 DEF ProbeDone
    <2>2. NcServed'
      <3>1. CASE UNCHANGED <<method, inited>>
        BY <1>1, <3>1 DEF NcServed, NcInv
      <3>2. CASE result = "yes" /\ method' = Ways[Top.n]
        <4>1. Top.n \in 1 .. 3
          <5>1. Top.n <= 3
            BY <1>4, <1>16, <2>1 DEF Held
          <5>2. Top.n \in Nat \ {0}
            BY <1>4 DEF Frames
          <5> QED BY <5>1, <5>2
        <4>2. method' = "RawByNc" => Top.n = 1
          <5>1. Top.n = 1 \/ Top.n = 2 \/ Top.n = 3
            BY <4>1
          <5>2. Ways[2] # "RawByNc" /\ Ways[3] # "RawByNc"
            BY <1>16
          <5> QED BY <3>2, <5>1, <5>2
        <4>3. Top.n = 1 => sock = "listening"
          BY <1>4, <2>1, <3>2 DEF Shown
        <4> QED BY <1>1, <4>2, <4>3 DEF NcServed
      <3> QED BY <1>19, <3>1, <3>2 DEF ProbeDone, Keep
    <2> QED BY <1>9, <1>18, <2>1, <2>2
  <1>20. CASE ProbeExtras
    <2>1. Top.at = "probe" /\ Again("probe")
      BY <1>20 DEF ProbeExtras
    <2>2. UNCHANGED <<method, inited>> \/ method' = "Extras"
      BY <1>20 DEF ProbeExtras, Keep
    <2>3. NcServed'
      BY <1>1, <2>2 DEF NcServed, NcInv
    <2> QED BY <1>9, <1>18, <2>1, <2>3
  <1>21. CASE ProbeEnd
    <2>1. Top.at = "probe" /\ RestKept /\ \E v \in {"yes", "no"} : Return(v)
      BY <1>10, <1>21 DEF ProbeEnd
    <2> QED BY <1>6, <2>1
  <1> QED BY <1>11, <1>12, <1>13, <1>14, <1>15, <1>17, <1>19, <1>20, <1>21

\* Connecting: the controller is not said to work until a screenshot has been taken.
LEMMA NcLink ==
  ASSUME Typed, Typed', Legal, NcInv,
         \/ ConnectStart \/ ConnectListed \/ ConnectConnected \/ ConnectQuery
         \/ ConnectAnswer \/ ConnectReady \/ ConnectServer \/ ConnectExtras \/ ConnectEnd
  PROVE  NcInv'
  <1>1. stack # <<>> /\ Top.at \in LinkBody
    BY DEF ConnectStart, ConnectListed, ConnectConnected, ConnectQuery, ConnectAnswer, ConnectReady,
           ConnectServer, ConnectExtras, ConnectEnd, At, LinkBody
  <1>2. /\ Top.at \notin IOBody /\ Top.at \notin CallBody /\ Top.at \notin Over
        /\ Top.at \notin {"call", "call.done", "capture", "capture.decode"}
        /\ Top.at \notin HupBody
    BY <1>1, AdbLabels DEF CallBody, ShotBody, LinkBody, HupBody
  <1>3. ~inited'
    <2>1. CASE ConnectStart
      BY <2>1 DEF ConnectStart
    <2>2. CASE ~ConnectStart
      <3>1. inited' = inited
        BY <2>2 DEF ConnectListed, ConnectConnected, ConnectQuery, ConnectAnswer, ConnectReady,
           ConnectServer, ConnectExtras, ConnectEnd, adbVars
      <3>2. Top.at # "adb.connect"
        BY <2>2 DEF ConnectListed, ConnectConnected, ConnectQuery, ConnectAnswer, ConnectReady,
           ConnectServer, ConnectExtras, ConnectEnd, At
      <3>3. Held(inited, lite, Top)
        BY <1>1, TopTwo
      <3> QED BY <1>1, <3>1, <3>2, <3>3 DEF Held
    <2> QED BY <2>1, <2>2
  <1>4. lite' = lite
    BY DEF ConnectStart, ConnectListed, ConnectConnected, ConnectQuery, ConnectAnswer, ConnectReady,
           ConnectServer, ConnectExtras, ConnectEnd, ioVars
  <1>5. started' => ~lite'
    <2>1. CASE ConnectServer
      <3>1. Held(inited, lite, Top) /\ Top.at = "connect.server"
        BY <1>1, <2>1, TopTwo DEF ConnectServer, At
      <3> QED BY <1>4, <3>1 DEF Held
    <2>2. CASE ~ConnectServer
      <3>1. started' = started
        BY <2>2 DEF ConnectStart, ConnectListed, ConnectConnected, ConnectQuery, ConnectAnswer,
           ConnectReady, ConnectExtras, ConnectEnd, adbVars, linkVars
      <3> QED BY <1>4, <3>1 DEF NcInv
    <2> QED BY <2>1, <2>2
  <1>6. RestKept
    <2>1. NcServed'
      BY <1>3 DEF NcServed
    <2> QED BY <1>1, <1>2, <1>3, <1>4, <1>5, <2>1, LittleLost
  <1>7. \A l \in LinkBody : l \in Labels /\ l \notin Telling /\ l # "release" /\ Stays(l)
    BY <1>2, AdbLabels DEF Stays
  <1>8. ASSUME NEW l \in LinkBody, NEW f, f.at = l, l = "connect.server" => ~lite
        PROVE  Held(inited', lite', f)
    <2>1. l \notin IOBody /\ l \notin CallBody /\ l \notin CommandBody
          /\ l \notin {"capture.decode", "lite.request", "probe.done"}
      BY AdbLabels DEF ShotBody, IOBody
    <2> QED BY <1>3, <1>4, <1>8, <2>1 DEF Held
  <1>9. ASSUME NEW v \in {"yes", "no"}, Return(v) PROVE NcInv'
    <2>1. Earned(v)
      BY <1>2 DEF Earned
    <2> QED BY <1>1, <1>6, <1>9, <2>1, ReturnNc
  <1>10. ASSUME NEW l \in LinkBody \ {"connect.server"}, Jump(l) PROVE NcInv'
    <2>1. l # "posix.drain"
      BY <1>7 DEF Telling
    <2> QED BY <1>1, <1>6, <1>7, <1>8, <1>10, <2>1, JumpNc
  <1>11. ASSUME Again("connect.query") PROVE NcInv'
    <2>1. "connect.query" \in LinkBody
      BY DEF LinkBody
    <2> QED BY <1>1, <1>6, <1>7, <1>8, <1>11, <2>1, AgainNc
  <1>12. ASSUME NEW l \in LinkWaits, NEW c, NEW b, c # "nc", Call(AdbCall(c, b), l),
                l = "connect.server" => ~lite
         PROVE  NcInv'
    <2> DEFINE g == AdbCall(c, b)
    <2>1. g.at = "call" /\ g.cmd = c
      BY DEF AdbCall, Frame
    <2>2. Call(g, l)
      BY <1>12
    <2> HIDE DEF g
    <2>3. /\ l \in LinkBody
          /\ l \notin {"probe.done", "capture.decode", "call.done", "reconnect.recalled"}
      BY DEF LinkWaits, LinkBody
    <2>4. Held(inited', lite', g)
      BY <1>12, <2>1 DEF Held, LinkBody, CommandBody
    <2>5. \A f : f.at = l => Held(inited', lite', f) /\ Upon(sock', f, g)
      BY <1>8, <1>12, <2>1, <2>3 DEF Upon
    <2> QED BY <1>1, <1>6, <1>7, <2>1, <2>2, <2>3, <2>4, <2>5, CallNc
  <1>13. /\ {"connect.listed", "connect.connected", "connect.answer", "connect.server"}
               \subseteq LinkWaits
         /\ {"connect.query", "connect.extras", "connect.end"}
               \subseteq LinkBody \ {"connect.server"}
    BY DEF LinkBody, LinkWaits
  <1> USE DEF At
  <1>14. CASE ConnectStart
    BY <1>9, <1>12, <1>13, <1>14 DEF ConnectStart
  <1>15. CASE ConnectListed
    BY <1>9, <1>10, <1>12, <1>13, <1>15 DEF ConnectListed
  <1>16. CASE ConnectConnected
    BY <1>9, <1>10, <1>13, <1>16 DEF ConnectConnected
  <1>17. CASE ConnectQuery
    <2>1. /\ Top.n \in Nat \ {0} /\ Top.n <= Len(Queries)
          /\ \/ Return("no") \/ Again("connect.query")
             \/ Call(AdbCall(Queries[Top.n], Queries[Top.n] # "uuid"), "connect.answer")
      BY <1>1, <1>17, TopFrame DEF ConnectQuery, Frames
    <2>2. Queries[Top.n] # "nc"
      BY <2>1 DEF Queries
    <2> QED BY <1>9, <1>11, <1>12, <1>13, <2>1, <2>2
  <1>18. CASE ConnectAnswer
    BY <1>9, <1>11, <1>18 DEF ConnectAnswer
  <1>19. CASE ConnectReady
    <2>1. \/ Return("no") \/ Jump("connect.extras")
          \/ ~lite /\ Call(AdbCall("nc_address", TRUE), "connect.server")
      BY <1>19 DEF ConnectReady
    <2> QED BY <1>9, <1>10, <1>12, <1>13, <2>1
  <1>20. CASE ConnectServer
    BY <1>10, <1>13, <1>20 DEF ConnectServer
  <1>21. CASE ConnectExtras
    BY <1>9, <1>10, <1>13, <1>21 DEF ConnectExtras
  <1>22. CASE ConnectEnd
    BY <1>9, <1>22 DEF ConnectEnd
  <1> QED BY <1>14, <1>15, <1>16, <1>17, <1>18, <1>19, <1>20, <1>21, <1>22

-----------------------------------------------------------------------------

LEMMA NcInvInit == Init => NcInv
  <1> SUFFICES ASSUME Init PROVE NcInv
    OBVIOUS
  <1>1. stack = <<>> /\ ~started /\ ~inited
    BY DEF Init
  <1>2. Len(<<>>) = 0 /\ (\A i : i \notin 1 .. 0) /\ (\A i : i \notin 1 .. 0 - 1)
    OBVIOUS
  <1> QED BY <1>1, <1>2 DEF NcInv, NcServed

LEMMA NcInvStep == CallsInv /\ CallsInv' /\ NcInv /\ [Next]_vars => NcInv'
  <1> SUFFICES ASSUME CallsInv, CallsInv', NcInv, [Next]_vars PROVE NcInv'
    OBVIOUS
  <1>1. Typed /\ Legal /\ Typed'
    BY DEF CallsInv
  <1>2. CASE IO
    BY <1>1, <1>2, NcIO
  <1>3. CASE Adb
    BY <1>1, <1>3, NcCall, NcRelease, NcShot, NcLink DEF Adb, AdbStep
  <1>4. CASE TouchTool
    BY <1>1, <1>4, NcTouchTool, NcReconnected
  <1>5. CASE Play
    BY <1>1, <1>5, NcPlay
  <1>6. CASE Unit
    BY <1>1, <1>6, NcUnit
  <1>7. CASE CtrlStep
    BY <1>1, <1>7, NcCtrl
  <1>8. CASE Client
    BY <1>8, NcClient
  <1>9. CASE Stop
    BY <1>9, StayedNc DEF Stop, others, ioVars, adbVars, shotVars, linkVars
  <1>10. CASE UNCHANGED vars
    BY <1>10, StayedNc DEF vars, callVars, ioVars, adbVars, shotVars, linkVars
  <1> QED BY <1>2, <1>3, <1>4, <1>5, <1>6, <1>7, <1>8, <1>9, <1>10 DEF Next, Step, Ended

\* Screenshots are fetched with nc only while the socket that they come by listens:
\* a release() closes it, but only on a controller that a reconnect has given up or
\* that is destroyed, and nc is chosen again only by a picture that came by it
\* (AdbController.cpp, release, reconnect, and the way to take a screenshot).
THEOREM NcAlwaysServed == Spec => []NcServed
  <1>1. Init => NcInv
    BY NcInvInit
  <1>2. CallsInv /\ CallsInv' /\ NcInv /\ [Next]_vars => NcInv'
    BY NcInvStep
  <1>3. NcInv => NcServed
    BY DEF NcInv
  <1> QED BY <1>1, <1>2, <1>3, CallsAlwaysLegal, PTL DEF Spec
=============================================================================
