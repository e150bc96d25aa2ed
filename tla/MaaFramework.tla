----------------------------- MODULE MaaFramework -----------------------------
(***************************************************************************)
(* The controllers that hand everything to a control unit of MaaFramework, *)
(* a library loaded at run time: MaaFwAdbController, Win32Controller and   *)
(* MaaFwAndroidNativeController.  What the unit does is external.          *)
(***************************************************************************)
EXTENDS CallStack

VARIABLES
  kind,    \* "MaaFwAdb", "Win32" or "Native"
  unit,    \* m_unit_handle: "none", "new" or "connected"
  ready,   \* m_inited
  area     \* m_screen_size is known (m_screen_resolution of Native)

unitVars == <<kind, unit, ready, area>>

UnitTypeOK ==
  /\ kind \in {"none", "MaaFwAdb", "Win32", "Native"}
  /\ unit \in {"none", "new", "connected"}
  /\ ready \in BOOLEAN /\ area \in BOOLEAN

\* The constructors, and the destructors.
NewUnit(k) == kind' = k /\ unit' = "none" /\ ready' = FALSE /\ area' = FALSE
DestroyUnit == unit' = "none"
-----------------------------------------------------------------------------
\* connect, or attach of Win32, on an object that has no unit yet: what is known
\* of the last connection is forgotten.
AdbUnitConnect ==
  /\ At("unit.connect") /\ kind = "MaaFwAdb"
  /\ Jump("unit.library")
  /\ ready' = FALSE /\ area' = FALSE
  /\ UNCHANGED <<kind, unit, finger>>

Attach32 ==
  /\ At("unit.connect") /\ kind = "Win32"
  /\ Jump("unit.library")
  /\ ready' = FALSE
  /\ UNCHANGED <<kind, unit, area, finger>>

NativeConnect ==
  /\ At("unit.connect") /\ kind = "Native"
  /\ Jump("unit.library")
  /\ ready' = FALSE
  /\ UNCHANGED <<kind, unit, area, finger>>

\* The library and its functions: without one of them connect fails.
AdbLibrary ==
  /\ At("unit.library") /\ kind = "MaaFwAdb"
  /\ Return("no") \/ Jump("unit.create")
  /\ UNCHANGED <<unitVars, finger>>

\* Win32 can do without the function that tells the version.
Win32Library ==
  /\ At("unit.library") /\ kind = "Win32"
  /\ Return("no") \/ Jump("unit.create")
  /\ UNCHANGED <<unitVars, finger>>

NativeLibrary ==
  /\ At("unit.library") /\ kind = "Native"
  /\ Return("no") \/ Jump("unit.configure")
  /\ UNCHANGED <<unitVars, finger>>

\* The configuration of Native must name the size of the screen.
NativeConfigure ==
  /\ At("unit.configure")
  /\ \/ Return("no") /\ UNCHANGED area
     \/ Jump("unit.create") /\ area' = TRUE
  /\ UNCHANGED <<kind, unit, ready, finger>>

UnitCreate ==
  /\ At("unit.create")
  /\ \/ Return("no") /\ UNCHANGED unit
     \/ Jump("unit.link") /\ unit' = "new"
  /\ UNCHANGED <<kind, ready, area, finger>>

\* The unit connects and names the device; Win32 does without a name.
UnitLink ==
  /\ At("unit.link")
  /\ \/ Jump("unit.look") /\ unit' = "connected"
     \/ Return("no") /\ DestroyUnit
  /\ UNCHANGED <<kind, ready, area, finger>>

\* A first screenshot for the size of the screen, which MaaFwAdb must have.
AdbUnitLook ==
  /\ At("unit.look") /\ kind = "MaaFwAdb"
  /\ \/ Return("yes") /\ ready' = TRUE /\ area' = TRUE /\ UNCHANGED unit
     \/ Return("no") /\ DestroyUnit /\ UNCHANGED <<ready, area>>
  /\ UNCHANGED <<kind, finger>>

Win32Look ==
  /\ At("unit.look") /\ kind = "Win32"
  /\ Return("yes") /\ ready' = TRUE /\ area' \in {area, TRUE}
  /\ UNCHANGED <<kind, unit, finger>>

NativeReady ==
  /\ At("unit.look") /\ kind = "Native"
  /\ Return("yes") /\ ready' = TRUE
  /\ UNCHANGED <<kind, unit, area, finger>>

\* inited: Win32 does not ask the unit whether it is still connected (c).
AdbUnitInited(c) == ready /\ unit # "none" /\ c
Win32Inited == ready /\ unit # "none"
NativeInited(c) == ready /\ unit # "none" /\ c
-----------------------------------------------------------------------------
\* What is asked of a unit may fail; without a unit it is not asked.
Asks(v) == v \in {"yes", "no"} /\ (v = "yes" => unit # "none")

\* screencap.  MaaFwAdb and Win32 take the size of the screen from the first one,
\* Native knows it from its configuration.
AdbUnitShot ==
  /\ At("unit.shot") /\ kind = "MaaFwAdb"
  /\ \E v \in {"yes", "no"} :
        Asks(v) /\ Return(v) /\ area' = (area \/ v = "yes")
  /\ UNCHANGED <<kind, unit, ready, finger>>

Win32Shot ==
  /\ At("unit.shot") /\ kind = "Win32"
  /\ \E v \in {"yes", "no"} :
        Asks(v) /\ Return(v) /\ area' = (area \/ v = "yes")
  /\ UNCHANGED <<kind, unit, ready, finger>>

NativeShot ==
  /\ At("unit.shot") /\ kind = "Native"
  /\ \E v \in {"yes", "no"} : Asks(v) /\ Return(v)
  /\ UNCHANGED <<unitVars, finger>>
-----------------------------------------------------------------------------
\* Touches.  MaaFwAdb leaves a gesture to the unit; the others send one touch
\* after the other.  In the first part of a swipe a failed move ends it, with the
\* finger lifted; the extra part and, for Native, the result of the lift are not
\* looked at.
UnitGestures ==
  [click |-> <<"down", "up">>, swipe |-> <<"down">> \o Path \o <<"up">>,
   extra |-> <<"down", "move", "more", "up">>]

UnitWhole ==
  /\ At("unit.gesture") /\ (unit = "none" \/ kind = "MaaFwAdb")
  /\ \E v \in {"yes", "no"} : Asks(v) /\ Return(v)
  /\ UNCHANGED <<unitVars, finger>>

\* A mutant: a failed move ends the swipe at once.
UnitTouch_noLift ==
  /\ At("unit.gesture") /\ unit # "none" /\ kind # "MaaFwAdb"
  /\ LET phase == UnitGestures[Top.cmd][Top.n]
     IN \/ /\ Sent(phase)
           /\ IF phase = "up" THEN Return("yes") ELSE Again("unit.gesture")
        \/ Unsent(phase) /\ Return("no")
  /\ UNCHANGED unitVars
UnitTouch ==
  /\ At("unit.gesture") /\ unit # "none" /\ kind # "MaaFwAdb"
  /\ LET phase == UnitGestures[Top.cmd][Top.n]
     IN \/ /\ Sent(phase)
           /\ IF phase = "up" THEN Return("yes") ELSE Again("unit.gesture")
        \/ /\ Unsent(phase)
           /\ CASE phase = "move" -> Jump("unit.lift")
                [] phase = "more" -> Again("unit.gesture")
                [] phase = "up" -> Return(IF kind = "Native" /\ Top.cmd # "click"
                                          THEN "yes" ELSE "no")
                [] OTHER -> Return("no")
  /\ UNCHANGED unitVars

UnitLift ==
  /\ At("unit.lift")
  /\ finger' = "up"
  /\ Return("no")
  /\ UNCHANGED unitVars

\* inject_input_event.  A wait, a commit or a reset asks nothing of the unit, but
\* only Win32 answers one that has no unit.
Silent == {"wait"}

AdbUnitInject ==
  /\ At("unit.inject") /\ kind = "MaaFwAdb"
  /\ \E v \in {"yes", "no"} :
        /\ Asks(v)
        /\ Top.cmd \in Silent /\ unit # "none" => v = "yes"
        /\ Return(v)
  /\ UNCHANGED <<unitVars, finger>>

Win32Inject ==
  /\ At("unit.inject") /\ kind = "Win32"
  /\ \E v \in {"yes", "no"} :
        /\ IF Top.cmd \in Silent THEN v = "yes" ELSE Asks(v)
        /\ Return(v)
  /\ UNCHANGED <<unitVars, finger>>

NativeInject ==
  /\ At("unit.inject") /\ kind = "Native"
  /\ \E v \in {"yes", "no"} :
        /\ Asks(v)
        /\ Top.cmd \in Silent /\ unit # "none" => v = "yes"
        /\ Return(v)
  /\ UNCHANGED <<unitVars, finger>>
-----------------------------------------------------------------------------
\* Commands.  start_game and stop_game need a client that has a package name.
AdbUnitCommand ==
  /\ At("unit.command") /\ kind = "MaaFwAdb" /\ Top.cmd # "press_esc"
  /\ \E v \in {"yes", "no"} : Asks(v) /\ Return(v)
  /\ UNCHANGED <<unitVars, finger>>

AdbUnitEsc ==
  /\ At("unit.command") /\ kind = "MaaFwAdb" /\ Top.cmd = "press_esc"
  /\ \E v \in {"yes", "no"} : Asks(v) /\ Return(v)
  /\ UNCHANGED <<unitVars, finger>>

NativeCommand ==
  /\ At("unit.command") /\ kind = "Native" /\ Top.cmd # "press_esc"
  /\ \E v \in {"yes", "no"} : Asks(v) /\ Return(v)
  /\ UNCHANGED <<unitVars, finger>>

\* A key is pressed and, if that could be sent, lifted.
NativeEsc ==
  /\ At("unit.command") /\ kind = "Native" /\ Top.cmd = "press_esc"
  /\ \/ unit # "none" /\ Jump("unit.key")
     \/ Return("no")
  /\ UNCHANGED <<unitVars, finger>>

Win32Esc ==
  /\ At("unit.command") /\ kind = "Win32" /\ Top.cmd = "press_esc"
  /\ \/ unit # "none" /\ Jump("unit.key")
     \/ Return("no")
  /\ UNCHANGED <<unitVars, finger>>

KeyUp ==
  /\ At("unit.key")
  /\ Return("yes") \/ Return("no")
  /\ UNCHANGED <<unitVars, finger>>

\* Win32 starts nothing.
Win32Input ==
  /\ At("unit.command") /\ kind = "Win32" /\ Top.cmd = "input"
  /\ \E v \in {"yes", "no"} : Asks(v) /\ Return(v)
  /\ UNCHANGED <<unitVars, finger>>

Win32Start ==
  /\ At("unit.command") /\ kind = "Win32" /\ Top.cmd = "start_game"
  /\ Return("no")
  /\ UNCHANGED <<unitVars, finger>>

\* stop_game of Win32, whatever became of the unit: no window, or nothing behind
\* it that can be opened.
StopWindow ==
  /\ At("unit.command") /\ kind = "Win32" /\ Top.cmd = "stop_game"
  /\ \/ Return("yes")
     \/ Return("no")
     \/ Jump("window.close")
  /\ UNCHANGED <<unitVars, finger>>

\* It is asked to close, then terminated, for at most five seconds each.
StopProcess ==
  /\ At("window.close")
  /\ \/ Return("yes")
     \/ Jump("window.terminate")
  /\ UNCHANGED <<unitVars, finger>>

StopByForce ==
  /\ At("window.terminate")
  /\ Return("yes") \/ Return("no")
  /\ UNCHANGED <<unitVars, finger>>

UnitStep ==
  \/ AdbUnitConnect \/ Attach32 \/ NativeConnect
  \/ AdbLibrary \/ Win32Library \/ NativeLibrary \/ NativeConfigure
  \/ UnitCreate \/ UnitLink \/ AdbUnitLook \/ Win32Look \/ NativeReady
  \/ AdbUnitShot \/ Win32Shot \/ NativeShot
  \/ UnitWhole \/ UnitTouch \/ UnitLift
  \/ AdbUnitInject \/ Win32Inject \/ NativeInject
  \/ AdbUnitCommand \/ AdbUnitEsc \/ NativeCommand \/ NativeEsc
  \/ Win32Esc \/ KeyUp \/ Win32Input \/ Win32Start
  \/ StopWindow \/ StopProcess \/ StopByForce
==============================================================================
