------------------------------ MODULE Controller ------------------------------
(***************************************************************************)
(* Controller, which an Assistant asks to connect, to look at the screen   *)
(* and to touch it, with the controllers it chooses from: a backend object *)
(* created anew for each connect, and a ControlScaleProxy in front of it   *)
(* once a first screenshot has been taken.                                 *)
(*                                                                         *)
(* The callers run one after the other, as in a program that connects and  *)
(* starts only when no chain runs (Assistant.tla shows what becomes of the *)
(* others); a stop may come at any moment.  It is seen only while a chain  *)
(* runs: need_exit() asks for m_running too, which is false while the      *)
(* working thread is parked, so that a connect, or a call from outside,    *)
(* takes no notice of a stop whatever it polls.                            *)
(***************************************************************************)
EXTENDS TouchController, PlayTools, MaaFramework

CONSTANTS
  ScreencapTimes,   \* 20
  Systems,          \* the builds considered
  LiteSystems       \* those on which adb-lite may be switched on
ASSUME ControllerAssumption ==
  /\ ScreencapTimes \in Nat \ {0}
  /\ Systems \subseteq {"Posix", "Win32", "Android"}
  /\ LiteSystems \subseteq Systems

VARIABLES
  system,    \* the build
  object,    \* m_controller: the type of the object, "none", "gone" at the end
  proxy,     \* m_scale_proxy is there
  running    \* Assistant::m_running: the working thread is not parked

ctrlVars == <<system, object, proxy, running>>
vars == <<callVars, finger, ioVars, adbVars, touchVars, playVars, unitVars, ctrlVars>>

AdbFamily == {"Adb", "Minitouch", "Maatouch"}

\* set_touch_mode: the type of controller that each mode chooses.
ControllerType ==
  [Adb |-> "Adb", Minitouch |-> "Minitouch", Maatouch |-> "Maatouch",
   MacPlayTools |-> "MacPlayTools", MaaFwAdb |-> "MaaFwAdb", Android |-> "Native"]

\* The modes that the option TouchMode knows.  An Android build is taken to be
\* used for the device it runs on.
TouchModes == IF system = "Android" THEN {"Android"}
              ELSE DOMAIN ControllerType \ {"Android"}

Types == {ControllerType[mode] : mode \in TouchModes}

TypeOK ==
  /\ IOTypeOK /\ AdbTypeOK /\ TouchTypeOK /\ PlayTypeOK /\ UnitTypeOK
  /\ \A i \in DOMAIN stack : stack[i].at \in STRING /\ stack[i].flag \in BOOLEAN
  /\ need_exit \in BOOLEAN /\ finger \in {"up", "down"}
  /\ system \in Systems
  /\ object \in Types \cup {"Win32", "none", "gone"}
  /\ proxy \in BOOLEAN /\ running \in BOOLEAN

others == <<ioVars, adbVars, touchVars, playVars, unitVars>>
-----------------------------------------------------------------------------
\* create_controller, and the destructor of the object before.
Construct(t) ==
  /\ \E l \in BOOLEAN :              \* m_platform_type, as it was set
        (l => system \in LiteSystems) /\ NewAdb(l)
  /\ NewTouch(CASE t = "Minitouch" -> "minitouch" [] t = "Maatouch" -> "maatouch"
                [] OTHER -> "none")
  /\ NewPlay
  /\ NewUnit(IF t \in {"MaaFwAdb", "Native", "Win32"} THEN t ELSE "none")

\* What the device sees of it: minitouch ends, and with it its touches.
Destroyed(label) ==
  /\ object' = "none"
  /\ CASE object \in AdbFamily ->
            /\ ReleaseMinitouch /\ inited' = FALSE
            /\ finger' = IF handler THEN "up" ELSE finger
            /\ Call(Frame("release", "", FALSE), label)
            /\ UNCHANGED <<playVars, unitVars>>
       [] object = "MacPlayTools" ->
            /\ Close /\ Jump(label)
            /\ UNCHANGED <<capture, finger, handler, toucher, inited, unitVars>>
       [] OTHER ->
            /\ DestroyUnit /\ Jump(label)
            /\ UNCHANGED <<kind, ready, area, finger, handler, toucher, inited,
                           playVars>>
  /\ UNCHANGED <<ioVars, shotVars, linkVars, attached, touch, deref>>

\* connect (attach_window, with the flag): clear_info.
CtrlConnect ==
  /\ At("ctrl.connect")
  /\ proxy' = FALSE
  /\ Destroyed("ctrl.create")
  /\ UNCHANGED <<system, running>>

\* The type is the one last set, Top.cmd; attach_window sets it to Win32, which
\* is none that create_controller knows.
CtrlCreate ==
  /\ At("ctrl.create")
  /\ LET t == Top.cmd
     IN IF t = "Win32" /\ ~Top.flag
        THEN Return("no") /\ UNCHANGED <<others, object>>
        ELSE /\ Construct(t)
             /\ object' = t
             /\ Call(Frame(CASE t \in {"Minitouch", "Maatouch"} -> "touch.connect"
                             [] t = "Adb" -> "adb.connect"
                             [] t = "MacPlayTools" -> "play.connect"
                             [] OTHER -> "unit.connect", "", FALSE),
                     "ctrl.connected")
  /\ UNCHANGED <<finger, system, proxy, running>>

Shot(again) ==
  Frame(CASE object \in AdbFamily -> "screencap"
          [] object = "MacPlayTools" -> "play.shot"
          [] OTHER -> "unit.shot", "", again)

\* A backend that is not connected is destroyed; otherwise a screenshot is tried,
\* but not on Android.
CtrlConnected ==
  /\ At("ctrl.connected")
  /\ IF result # "yes" THEN Destroyed("ctrl.failed")
     ELSE /\ IF system = "Android" THEN Jump("ctrl.scale")
             ELSE Call(Shot(FALSE), "ctrl.looked")
          /\ UNCHANGED <<others, finger, object>>
  /\ UNCHANGED <<system, proxy, running>>

CtrlFailed ==
  /\ At("ctrl.failed")
  /\ Return("no")
  /\ UNCHANGED <<others, finger, ctrlVars>>

CtrlLooked ==
  /\ At("ctrl.looked") /\ ~Top.flag
  /\ IF result = "yes" THEN Jump("ctrl.scale") ELSE Return("no")
  /\ UNCHANGED <<others, finger, ctrlVars>>

\* The same in attach_window.
WindowLooked ==
  /\ At("ctrl.looked") /\ Top.flag
  /\ IF result = "yes" THEN Jump("ctrl.scale") ELSE Return("no")
  /\ UNCHANGED <<others, finger, ctrlVars>>

\* ControlScaleProxy throws for a screen whose size is unknown, too small or not
\* 16:9.
Fits(fits) ==
  /\ fits /\ object \in {"Win32", "MaaFwAdb", "Native"} => area
  /\ fits /\ object = "MacPlayTools" => size

\* Then connect, or attach_window, answers false, and the backend remains.
CtrlScale ==
  /\ At("ctrl.scale") /\ ~Top.flag
  /\ \E fits \in BOOLEAN : Fits(fits) /\ proxy' = fits
  /\ Return(IF proxy' THEN "yes" ELSE "no")
  /\ UNCHANGED <<others, finger, system, object, running>>

WindowScale ==
  /\ At("ctrl.scale") /\ Top.flag
  /\ \E fits \in BOOLEAN : Fits(fits) /\ proxy' = fits
  /\ Return(IF proxy' THEN "yes" ELSE "no")
  /\ UNCHANGED <<others, finger, system, object, running>>
-----------------------------------------------------------------------------
\* get_image: some tries while the backend is inited(), a last one that may
\* reconnect, and a blank picture.  A stop ends it with the picture as it is.
Inited(c) == CASE object \in AdbFamily -> inited
               [] object = "MacPlayTools" -> PlayInited
               [] object = "Win32" -> Win32Inited
               [] object = "MaaFwAdb" -> AdbUnitInited(c)
               [] object = "Native" -> NativeInited(c)
               [] OTHER -> FALSE

ImageTry ==
  /\ At("image")
  /\ IF need_exit THEN Return("void")
     ELSE \E c \in BOOLEAN :
          IF Top.n <= ScreencapTimes /\ Inited(c)
          THEN Call(Shot(FALSE), "image.taken")
          ELSE IF object # "none" THEN Call(Shot(TRUE), "image.last")
          ELSE Return("void")
  /\ UNCHANGED <<others, finger, ctrlVars>>

ImageTaken ==
  /\ At("image.taken")
  /\ IF result = "yes" THEN Return("void") ELSE Again("image")
  /\ UNCHANGED <<others, finger, ctrlVars>>

ImageLast ==
  /\ At("image.last")
  /\ Return("void")
  /\ UNCHANGED <<others, finger, ctrlVars>>
-----------------------------------------------------------------------------
\* What the backend does for a touch, an event, a command.
Touching(g) ==
  LET plain == IF g \in {"pause", "late"} THEN "swipe" ELSE g
  IN CASE object = "Adb" -> AdbCommand(g = "extra")
       [] object \in {"Minitouch", "Maatouch"} -> Gesture(g)
       [] object = "MacPlayTools" -> Frame("play.gesture", plain, FALSE)
       [] OTHER -> Frame("unit.gesture", plain, FALSE)

Event(c) ==
  CASE object = "Adb" -> Frame("play.command", c, FALSE)   \* not supported either
    [] object \in {"Minitouch", "Maatouch"} -> InputEvent(c)
    [] object = "MacPlayTools" -> Frame("play.command", c, FALSE)
    [] OTHER -> Frame("unit.inject", c, FALSE)

Commanding(c) ==
  CASE object \in AdbFamily -> AdbCommand(FALSE)
    [] object = "MacPlayTools" -> Frame("play.command", c, FALSE)
    [] OTHER -> Frame("unit.command", c, FALSE)

Quiet == stack = <<>> /\ object # "gone" /\ deref = "none"
Begin(frame) ==
  /\ stack' = <<frame>> /\ late' = 0
  /\ UNCHANGED <<result, need_exit, native, lite, client, child, sock,
                 adbVars, touchVars, playVars, unitVars>>

\* click and swipe look for m_controller and use m_scale_proxy.  From outside a
\* chain come only clicks, screenshots and back_to_home (Assistant.cpp:222-230, 709),
\* a command that fares as press_esc does.
Touch ==
  /\ Quiet /\ object # "none"
  /\ \E g \in {"click", "swipe", "extra", "pause", "late"} :
        /\ g = "late" => object = "Minitouch"
        /\ g # "click" => running
        /\ IF proxy THEN Begin(Touching(g))
           ELSE /\ deref' = "proxy"
                /\ UNCHANGED <<callVars, ioVars, adbVars, touch, handler, toucher,
                               playVars, unitVars>>
  /\ UNCHANGED <<finger, ctrlVars>>

Inject ==
  /\ Quiet /\ object # "none" /\ running
  /\ \E c \in {"down", "up", "wait"} : Begin(Event(c))
  /\ UNCHANGED <<finger, ctrlVars>>

Order ==
  /\ Quiet /\ object # "none"
  /\ \E c \in {"press_esc", "start_game", "stop_game", "input"} :
        (running \/ c = "press_esc") /\ Begin(Commanding(c))
  /\ UNCHANGED <<finger, ctrlVars>>

GetImage ==
  /\ Quiet
  /\ Begin(Frame("image", "", FALSE))
  /\ UNCHANGED <<finger, ctrlVars>>

\* Assistant::connect, of an idle Assistant, with the type that was set last:
\* after an attach_window that was Win32.
Connecting(t, attach) ==
  /\ stack' = <<Frame("ctrl.connect", t, attach), Frame("connected", "", FALSE)>>
  /\ late' = 0
  /\ UNCHANGED <<result, need_exit, finger, native, lite, client, child, sock,
                 adbVars, touchVars, playVars, unitVars, ctrlVars>>

Connect ==
  /\ Quiet /\ ~running
  /\ \E t \in Types \cup (IF object = "Win32" THEN {"Win32"} ELSE {}) :
        Connecting(t, FALSE)

AttachWindow ==
  /\ Quiet /\ ~running /\ system = "Win32"
  /\ Connecting("Win32", TRUE)

Connected ==
  /\ At("connected")
  /\ stack' = <<>>
  /\ UNCHANGED <<result, need_exit, finger, others, ctrlVars>>

\* A chain begins, of a parked thread.
Start ==
  /\ Quiet /\ ~running
  /\ running' = TRUE
  /\ UNCHANGED <<callVars, finger, others, system, object, proxy>>

\* A stop sets m_thread_idle.  Without m_running nobody can tell, and a connect
\* sets it again at its end.
Stop ==
  /\ running /\ ~need_exit
  /\ need_exit' = TRUE
  /\ UNCHANGED <<stack, result, finger, others, ctrlVars>>

\* The last chain has ended, or a stopped one has returned: the working thread parks.
Park ==
  /\ Quiet /\ running
  /\ running' = FALSE /\ need_exit' = FALSE
  /\ UNCHANGED <<stack, result, finger, others, system, object, proxy>>

\* The Assistant ends, with its parked thread, and the backend with it.
Exit ==
  /\ Quiet /\ ~running
  /\ Begin(Frame("exit", "", FALSE))
  /\ UNCHANGED <<finger, ctrlVars>>

ExitDestroy ==
  /\ At("exit")
  /\ Destroyed("exited")
  /\ UNCHANGED <<system, proxy, running>>

Exited ==
  /\ At("exited")
  /\ stack' = <<>> /\ object' = "gone"
  /\ UNCHANGED <<result, need_exit, finger, others, system, proxy, running>>

Ended == stack = <<>> /\ ~Quiet /\ UNCHANGED vars
-----------------------------------------------------------------------------
Init ==
  /\ stack = <<>> /\ result = "void" /\ need_exit = FALSE /\ finger = "up"
  /\ system \in Systems
  /\ native = (IF system = "Win32" THEN "Win32" ELSE "Posix")
  /\ lite = FALSE /\ client = FALSE /\ child = FALSE /\ sock = "none"
  /\ late = 0
  /\ inited = FALSE /\ method = "UnknownYet" /\ eol = "UnknownYet"
  /\ started = FALSE /\ known = FALSE
  /\ attached = FALSE
  /\ touch = "none" /\ handler = FALSE /\ toucher = FALSE /\ deref = "none"
  /\ capture = "RGBA" /\ session = FALSE /\ size = FALSE
  /\ kind = "none" /\ unit = "none" /\ ready = FALSE /\ area = FALSE
  /\ object = "none" /\ proxy = FALSE /\ running = FALSE

CtrlStep ==
  \/ CtrlConnect \/ CtrlCreate \/ CtrlConnected \/ CtrlFailed \/ CtrlLooked
  \/ WindowLooked \/ CtrlScale \/ WindowScale \/ ImageTry \/ ImageTaken \/ ImageLast
  \/ Connected \/ ExitDestroy \/ Exited

Client == Touch \/ Inject \/ Order \/ GetImage \/ Connect
            \/ AttachWindow \/ Start \/ Park \/ Exit

IO == IOStep /\ UNCHANGED <<adbVars, touchVars, playVars, unitVars, finger, ctrlVars>>
Adb == AdbStep /\ UNCHANGED <<touchVars, playVars, unitVars, finger, ctrlVars>>
TouchTool == TouchStep /\ UNCHANGED <<playVars, unitVars, ctrlVars>>
Play == PlayStep /\ UNCHANGED <<ioVars, adbVars, touchVars, unitVars, ctrlVars>>
Unit == UnitStep /\ UNCHANGED <<ioVars, adbVars, touchVars, playVars, ctrlVars>>

Step == IO \/ Adb \/ TouchTool \/ Play \/ Unit \/ CtrlStep

Next == Step \/ Client \/ Stop \/ Ended

\* A step of the thread ends by itself, but for those that wait for another
\* program without a timeout: the adb server (AdbLiteIO ignores the timeouts it is
\* given), the game (PlayTools), a control unit.
Waiting ==
  \/ At("lite.request") \/ At("play.ask") \/ At("play.read")
  \/ At("unit.link") \/ At("unit.look") \/ At("unit.shot") \/ At("unit.gesture")
  \/ At("unit.inject") \/ At("unit.command") \/ At("unit.key")
Fairness == WF_vars(~Waiting /\ Step)

Spec == Init /\ [][Next]_vars /\ Fairness
-----------------------------------------------------------------------------
\* Screenshots are fetched with nc, on a controller that is said to work, only
\* while the socket that they arrive at listens: release(), which closes it, is
\* called by a reconnect that failed, and m_server_started outlives it
\* (AdbController.cpp:108 and 466, and the way chosen at 666).
NcServed == inited /\ method = "RawByNc" => sock = "listening"

\* A reconnect calls the commands of connect again, and the command that failed;
\* none of them may begin another reconnect, or the ten-second waits multiply
\* (the third argument of call_command in AdbController.cpp:54).
NoNestedReconnect ==
  Cardinality(Active({"reconnect.slept", "reconnect.connected",
                      "reconnect.recalled", "reconnect.failed"})) <= 1

\* Once a chain has been stopped, the call in progress begins at most MaxLate - 1
\* more commands before it returns, although only some of the steps look at
\* need_exit() (AdbController.cpp:54, 115, 514; Controller.cpp:425).  It says
\* nothing of a connect: there need_exit() is false (Assistant.h:130), the polls
\* of AdbController::connect (846 and on) see no stop, and all its commands go out.
StopHeeded == late < MaxLate

\* A pointer that may be null is used only in two ways: m_scale_proxy by a touch
\* after a connect that failed but left the controller (Controller.cpp:262), and
\* m_minitoucher by a swipe with pause, whose key presses (or the adb command of
\* its second thread, by way of a reconnect) may have replaced it and are not
\* asked for their answer (MinitouchController.cpp:207 and 211, against
\* MinitouchController.h:100).
NullUse ==
  /\ deref \in {"none", "pause", "proxy"}
  /\ deref = "proxy" => ~proxy
  /\ deref = "pause" => ~toucher

\* No call ends with a finger left on the screen, whichever of its touches
\* failed, restarted minitouch or was followed by a reconnect, unless the lift
\* itself could not be sent (the gestures of the controllers; dtor and
\* call_and_hup_minitouch, which end the program that holds the finger).
Lifted == stack = <<>> => finger # "down"

\* Every call returns, unless it waits for ever for another program: the loops
\* over screenshots, reconnects, ways and questions all end, with or without a
\* stop.
Returns == <>[]Waiting \/ []<>(stack = <<>>)
==============================================================================
