--------------------------- MODULE TouchController ---------------------------
(***************************************************************************)
(* MinitouchController and MaatouchController: an AdbController whose      *)
(* clicks and swipes go through a program on the device, reached by an     *)
(* interactive shell and started again when a write fails.                 *)
(***************************************************************************)
EXTENDS AdbController

VARIABLES
  touch,      \* "none" (a plain AdbController), "minitouch" or "maatouch"
  handler,    \* m_minitouch_handler is there
  toucher,    \* m_minitoucher is there
  deref       \* the null pointer that was used: m_minitoucher, by a gesture, or
              \* m_scale_proxy ("proxy"); "none"

touchVars == <<touch, handler, toucher, deref>>

TouchTypeOK ==
  /\ touch \in {"none", "minitouch", "maatouch"}
  /\ handler \in BOOLEAN /\ toucher \in BOOLEAN /\ (toucher => handler)
  /\ deref \in {"none", "proxy", "click", "swipe", "extra", "pause", "late"}

NewTouch(t) ==
  /\ touch' = t /\ handler' = FALSE /\ toucher' = FALSE
  /\ UNCHANGED deref

ReleaseMinitouch == handler' = FALSE /\ toucher' = FALSE
-----------------------------------------------------------------------------
\* call_and_hup_minitouch: start the program anew and read what it says of
\* itself.  The program that ends lifts its contacts.
Hup == Frame("hup", "", FALSE)

HupStart ==
  /\ At("hup")
  /\ toucher' = FALSE /\ finger' = "up"
  /\ \/ InteractiveShell(FALSE) /\ handler' = FALSE /\ Return("no")
     \/ InteractiveShell(TRUE) /\ handler' = TRUE /\ Jump("hup.read")
  /\ UNCHANGED <<ioVars, adbVars, touch, deref>>

\* A stop is looked for before each read, for three seconds.  After a part of the
\* output and without a stop it is all the same as before that read, so the loop
\* is gone round only when there is a stop to be seen.
HupPoll ==
  /\ At("hup.read")
  /\ IF need_exit THEN ReleaseMinitouch /\ Return("no")
     ELSE Jump("hup.reading") /\ UNCHANGED <<handler, toucher>>
  /\ UNCHANGED <<ioVars, adbVars, touch, deref, finger>>

HupRead ==
  /\ At("hup.reading")
  /\ \E out \in {"prompt", "part", "late"} :
        /\ HandlerRead(out)
        /\ out = "part" => need_exit
        /\ CASE out = "prompt" -> Jump("hup.props") /\ UNCHANGED <<handler, toucher>>
             [] out = "part" -> Jump("hup.read") /\ UNCHANGED <<handler, toucher>>
             [] out = "late" -> ReleaseMinitouch /\ Return("no")
  /\ UNCHANGED <<ioVars, adbVars, touch, deref, finger>>

\* The line with "^" that says how large the screen is may be missing.
HupProps ==
  /\ At("hup.props")
  /\ \/ ReleaseMinitouch /\ Return("no")
     \/ toucher' = TRUE /\ Return("yes") /\ UNCHANGED handler
  /\ UNCHANGED <<ioVars, adbVars, touch, deref, finger>>

\* reconnect: when the base class has reconnected the program is started again,
\* whatever comes of it.
TouchReconnectOk ==
  /\ At("reconnect.ok")
  /\ IF touch = "none" THEN Return(Top.cmd) ELSE Call(Hup, "reconnect.hup")
  /\ UNCHANGED <<ioVars, adbVars, touchVars, finger>>

TouchReconnectHup ==
  /\ At("reconnect.hup")
  /\ Return(Top.cmd)
  /\ UNCHANGED <<ioVars, adbVars, touchVars, finger>>
-----------------------------------------------------------------------------
\* input_to_minitouch, called by a member of the Minitoucher that a restart
\* replaces: write, or restart and write again.
Input(c, injected) == Frame("input", c, injected)

Written(c) == IF Top.flag THEN UNCHANGED finger ELSE Sent(c)

InputWrite ==
  /\ At("input")
  /\ \/ handler /\ HandlerWrite(TRUE) /\ Return("yes") /\ Written(Top.cmd)
     \/ /\ handler => HandlerWrite(FALSE)
        /\ Call(Hup, "input.rewrite") /\ UNCHANGED finger
  /\ UNCHANGED <<ioVars, adbVars, touch, handler, toucher, deref>>

InputRewrite ==
  /\ At("input.rewrite")
  /\ \/ result = "yes" /\ HandlerWrite(TRUE) /\ Return("yes") /\ Written(Top.cmd)
     \/ /\ result = "yes" => HandlerWrite(FALSE)
        /\ Return("no") /\ Unsent(Top.cmd)
  /\ UNCHANGED <<ioVars, adbVars, touch, handler, toucher, deref>>

\* The commands of one gesture.  A swipe with pause presses escape on its way:
\* with maatouch by two more commands, whose results are discarded; otherwise by
\* an adb command in a second thread, which the swipe waits for when it returns.
\* That thread is taken to run while the swipe stands still ("pause") or at its
\* end ("late").
Gestures ==
  [click |-> <<"down", "up">>,
   swipe |-> <<"down">> \o Path \o <<"up">>,
   extra |-> <<"down">> \o Path \o <<"wait">> \o Path \o <<"up">>,
   pause |-> <<"down">>
             \o PausedPath(IF touch = "maatouch" THEN <<"key_down", "key_up">>
                           ELSE <<"esc">>) \o <<"up">>,
   late  |-> <<"down">> \o PausedPath(<<>>) \o <<"up", "esc">>]
Discarded == {"key_down", "key_up", "esc"}

Gesture(g) == Frame("gesture", g, FALSE)

GestureBegin ==
  /\ At("gesture")
  /\ IF toucher THEN Jump("gesture.next") ELSE Call(Hup, "gesture.started")
  /\ UNCHANGED <<ioVars, adbVars, touchVars, finger>>

\* A mutant: the answer is not looked at.
GestureStarted_unchecked ==
  /\ At("gesture.started")
  /\ Jump("gesture.next")
  /\ UNCHANGED <<ioVars, adbVars, touchVars, finger>>
GestureStarted ==
  /\ At("gesture.started")
  /\ IF result = "yes" THEN Jump("gesture.next") ELSE Return("no")
  /\ UNCHANGED <<ioVars, adbVars, touchVars, finger>>

\* The next command is a member call on m_minitoucher.
GestureNext ==
  /\ At("gesture.next")
  /\ LET commands == Gestures[Top.cmd]
         c == commands[Top.n]
     IN IF Top.n > Len(commands) THEN Return("yes") /\ UNCHANGED deref
        ELSE IF c = "esc"
        THEN Call(AdbCommand(FALSE), "gesture.sent") /\ UNCHANGED deref
        ELSE IF toucher
        THEN Call(Input(c, FALSE), "gesture.sent") /\ UNCHANGED deref
        ELSE stack' = <<>> /\ result' = "crash" /\ UNCHANGED need_exit
             /\ deref' = Top.cmd
  /\ UNCHANGED <<ioVars, adbVars, touch, handler, toucher, finger>>

GestureSent ==
  /\ At("gesture.sent")
  /\ IF result = "yes" \/ Gestures[Top.cmd][Top.n] \in Discarded
     THEN Again("gesture.next") ELSE Return("no")
  /\ UNCHANGED <<ioVars, adbVars, touchVars, finger>>

\* inject_input_event: one command, not committed.
InputEvent(c) == Frame("inject", c, TRUE)

InjectBegin ==
  /\ At("inject")
  /\ IF toucher THEN Replace(Input(Top.cmd, TRUE)) /\ UNCHANGED <<result, need_exit>>
     ELSE Call(Hup, "inject.started")
  /\ UNCHANGED <<ioVars, adbVars, touchVars, finger>>

InjectStarted ==
  /\ At("inject.started")
  /\ IF result = "yes"
     THEN Replace(Input(Top.cmd, TRUE)) /\ UNCHANGED <<result, need_exit>>
     ELSE Return("no")
  /\ UNCHANGED <<ioVars, adbVars, touchVars, finger>>
-----------------------------------------------------------------------------
\* connect: the base class, then probe_minitouch.
TouchConnect ==
  /\ At("touch.connect")
  /\ Call(Frame("adb.connect", "", FALSE), "touch.connected")
  /\ ReleaseMinitouch
  /\ UNCHANGED <<ioVars, adbVars, touch, deref, finger>>

TouchConnected ==
  /\ At("touch.connected")
  /\ IF result = "yes" THEN Jump("touch.probe") ELSE Return("no")
  /\ UNCHANGED <<ioVars, adbVars, touchVars, finger>>

\* The program for the device's processor is looked up (minitouch), pushed and
\* made executable.  An unknown orientation is taken for none.
Installation ==
  IF touch = "minitouch" THEN <<"abilist", "orientation", "push", "chmod">>
  ELSE <<"push", "chmod">>

TouchProbe ==
  /\ At("touch.probe")
  /\ IF Top.n <= Len(Installation)
     THEN Call(AdbCall(Installation[Top.n], TRUE), "touch.probed")
     ELSE Call(Hup, "touch.ready")
  /\ UNCHANGED <<ioVars, adbVars, touchVars, finger>>

\* An answer of abilist that names no known program, or none, is noticed (Top.flag:
\* there is a touch_program) only after orientation has been asked too.
TouchProbed ==
  /\ At("touch.probed")
  /\ LET asked == Installation[Top.n]
     IN CASE asked = "abilist" ->
               /\ Replace([Top EXCEPT !.at = "touch.probe", !.n = @ + 1,
                                      !.flag = result = "ok"])
               /\ UNCHANGED <<result, need_exit>>
          [] asked = "orientation" ->
               IF Top.flag THEN Again("touch.probe") ELSE Return("no")
          [] OTHER ->
               IF result = "ok" THEN Again("touch.probe") ELSE Return("no")
  /\ UNCHANGED <<ioVars, adbVars, touchVars, finger>>

TouchReady ==
  /\ At("touch.ready")
  /\ Return(result)
  /\ UNCHANGED <<ioVars, adbVars, touchVars, finger>>

TouchStep ==
  \/ TouchReconnectOk \/ TouchReconnectHup
  \/ HupStart \/ HupPoll \/ HupRead \/ HupProps \/ InputWrite \/ InputRewrite
  \/ GestureBegin \/ GestureStarted \/ GestureNext \/ GestureSent
  \/ InjectBegin \/ InjectStarted
  \/ TouchConnect \/ TouchConnected \/ TouchProbe \/ TouchProbed \/ TouchReady
==============================================================================
