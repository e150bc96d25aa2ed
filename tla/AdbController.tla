---------------------------- MODULE AdbController ----------------------------
(***************************************************************************)
(* A controller that drives the device with adb commands: connecting,      *)
(* finding the fastest way to take a screenshot, and reconnecting when a   *)
(* command that used to work fails.                                        *)
(***************************************************************************)
EXTENDS PlatformIO

CONSTANTS
  ReconnectTimes,   \* 5
  HasDisplayId,     \* the configuration has a display_id command
  HasEventId,       \* and an event_id command
  SerialAddress     \* the address has no ":", it is a serial number
ASSUME AdbAssumption ==
  /\ ReconnectTimes \in Nat \ {0}
  /\ {HasDisplayId, HasEventId, SerialAddress} \subseteq BOOLEAN

Method == {"RawByNc", "RawWithGzip", "Encode", "Extras"}

VARIABLES
  inited,    \* m_inited
  method,    \* m_adb.screencap_method
  eol,       \* m_adb.screencap_end_of_line
  started,   \* m_server_started
  known,     \* the command lines in m_adb have been made, `release` among them
  attached   \* the interface of the emulator has been initialised (inited_)

shotVars == <<method, eol>>
linkVars == <<started, known>>
adbVars == <<inited, shotVars, linkVars, attached>>

AdbTypeOK ==
  /\ inited \in BOOLEAN /\ started \in BOOLEAN /\ known \in BOOLEAN
  /\ method \in Method \cup {"UnknownYet"}
  /\ eol \in {"UnknownYet", "CRLF", "LF"}
  /\ attached \in BOOLEAN

\* The constructor.
NewAdb(l) ==
  /\ NewPlatform(l)
  /\ inited' = FALSE /\ method' = "UnknownYet" /\ eol' = "UnknownYet"
  /\ started' = FALSE /\ known' = FALSE
  /\ attached' = FALSE
-----------------------------------------------------------------------------
\* call_command: cmd, whether a failure may reconnect, and whether the answer
\* comes by the socket.
AdbCall(cmd, again) == Frame("call", cmd, again)
BySocket(cmd) == cmd = "nc"

CallBegin ==
  /\ At("call")
  /\ Call(Command(Top.cmd, BySocket(Top.cmd)), "call.done")
  /\ UNCHANGED <<ioVars, adbVars>>

\* Nothing came back: give up without reconnecting.  Stopped: give up, whatever
\* came back.  A failure of a command on a working connection: reconnect, in
\* the place of this call.
\* A mutant: a stop is not looked for.
CallDone_unpolled ==
  /\ At("call.done")
  /\ IF result = "none" THEN Return("none")
     ELSE IF result # "bad" THEN Return(result)
     ELSE IF inited /\ Top.flag THEN Jump("reconnect") ELSE Return("none")
  /\ UNCHANGED <<ioVars, adbVars>>
CallDone ==
  /\ At("call.done")
  /\ IF result = "none" \/ need_exit THEN Return("none")
     ELSE IF result # "bad" THEN Return(result)
     ELSE IF inited /\ Top.flag THEN Jump("reconnect") ELSE Return("none")
  /\ UNCHANGED <<ioVars, adbVars>>

\* reconnect: the loop, with its polls before and after the ten seconds.
ReconnectWait ==
  /\ At("reconnect")
  /\ IF Top.n > ReconnectTimes \/ need_exit
     THEN Jump("reconnect.fail") ELSE Jump("reconnect.slept")
  /\ UNCHANGED <<ioVars, adbVars>>

ReconnectSlept ==
  /\ At("reconnect.slept")
  /\ IF need_exit THEN Jump("reconnect.fail")
     ELSE Call(AdbCall("connect", FALSE), "reconnect.connected")
  /\ UNCHANGED <<ioVars, adbVars>>

\* Mutants: the command may reconnect in its turn; a failed attempt is not counted.
ReconnectConnected_nested ==
  /\ At("reconnect.connected")
  /\ IF need_exit THEN Jump("reconnect.fail")
     ELSE IF result \in {"none", "error"} THEN Again("reconnect")
     ELSE Call(AdbCall(Top.cmd, TRUE), "reconnect.recalled")
  /\ UNCHANGED <<ioVars, adbVars>>
ReconnectConnected_uncounted ==
  /\ At("reconnect.connected")
  /\ IF need_exit THEN Jump("reconnect.fail")
     ELSE IF result \in {"none", "error"} THEN Jump("reconnect")
     ELSE Call(AdbCall(Top.cmd, FALSE), "reconnect.recalled")
  /\ UNCHANGED <<ioVars, adbVars>>
ReconnectConnected ==
  /\ At("reconnect.connected")
  /\ IF need_exit THEN Jump("reconnect.fail")
     ELSE IF result \in {"none", "error"} THEN Again("reconnect")
     ELSE Call(AdbCall(Top.cmd, FALSE), "reconnect.recalled")
  /\ UNCHANGED <<ioVars, adbVars>>

ReconnectRecalled ==
  /\ At("reconnect.recalled")
  /\ IF result = "none" THEN Again("reconnect")
     ELSE /\ Replace([Top EXCEPT !.at = "reconnect.ok", !.cmd = result])
          /\ UNCHANGED <<result, need_exit>>
  /\ UNCHANGED <<ioVars, adbVars>>

\* The loop is over, or was left because of a stop.  A mutant: the controller is
\* still said to work.
ReconnectFail_inited ==
  /\ At("reconnect.fail")
  /\ Call(Frame("release", "", FALSE), "reconnect.failed")
  /\ UNCHANGED <<ioVars, adbVars>>
ReconnectFail ==
  /\ At("reconnect.fail")
  /\ inited' = FALSE
  /\ Call(Frame("release", "", FALSE), "reconnect.failed")
  /\ UNCHANGED <<ioVars, shotVars, linkVars, attached>>

ReconnectFailed ==
  /\ At("reconnect.failed")
  /\ Return("none")
  /\ UNCHANGED <<ioVars, adbVars>>

\* release.
Release ==
  /\ At("release")
  /\ CloseSocket
  /\ \E kill \in BOOLEAN :      \* m_kill_adb_on_exit, set at any time before
        IF kill /\ known /\ ReleaseApplies
        THEN Call(Command("release", FALSE), "release.done") ELSE Return("void")
  /\ UNCHANGED <<native, lite, client, child, late, adbVars>>

ReleaseDone ==
  /\ At("release.done")
  /\ Return("void")
  /\ UNCHANGED <<ioVars, adbVars>>
-----------------------------------------------------------------------------
\* Commands whose success is the answer: click, input, press_esc, start_game,
\* stop_game, back_to_home, and swipe, which may send a second one.
AdbCommand(twice) == Frame("command", "act", twice)

CommandSend ==
  /\ At("command")
  /\ Call(AdbCall(Top.cmd, TRUE), "command.done")
  /\ UNCHANGED <<ioVars, adbVars>>

\* Top.n is 2 after a first part that succeeded, 3 after one that failed: the
\* extra swipe is sent in either case.
CommandDone ==
  /\ At("command.done")
  /\ LET ok == result # "none"
     IN IF Top.flag
        THEN /\ Replace([Top EXCEPT !.at = "command", !.flag = FALSE,
                                    !.n = IF ok THEN 2 ELSE 3])
             /\ UNCHANGED <<result, need_exit>>
        ELSE Return(IF ok /\ Top.n # 3 THEN "yes" ELSE "no")
  /\ UNCHANGED <<ioVars, adbVars>>
-----------------------------------------------------------------------------
\* screencap(cmd, decode, ...): one screenshot with one command.
CaptureCommand ==
  [RawByNc |-> "nc", RawWithGzip |-> "gzip", Encode |-> "encode"]
Capture(m, again) == Frame("capture", CaptureCommand[m], again)

CaptureBegin ==
  /\ At("capture")
  /\ IF BySocket(Top.cmd) /\ ~started THEN Return("no")
     ELSE Call(AdbCall(Top.cmd, Top.flag), "capture.decode")
  /\ UNCHANGED <<ioVars, adbVars>>

HasCrLf(data) == data \in {"chance", "crlf"}
\* convert_lf drops the carriage returns that are needed and those that are not.
ConvertLf(data) == CASE data = "crlf" -> "plain" [] data = "chance" -> "junk"
                     [] OTHER -> data
Decodes(data) == data \in {"plain", "chance"}

\* Lines end in "\r\n" if that was found out before (and it is forgotten when
\* there is none); otherwise the data is tried as it is, then converted.
CaptureDecode ==
  /\ At("capture.decode")
  /\ LET data == result
         converted == eol = "CRLF"
         first == IF converted THEN ConvertLf(data) ELSE data
         forgotten == IF converted /\ ~HasCrLf(data) THEN "LF" ELSE eol
     IN IF data \in {"none", "empty"} THEN Return("no") /\ UNCHANGED eol
        ELSE IF Decodes(first)
        THEN /\ Return("yes")
             /\ eol' = IF forgotten = "UnknownYet" THEN "LF" ELSE forgotten
        ELSE IF ~converted /\ HasCrLf(data) /\ Decodes(ConvertLf(data))
        THEN Return("yes") /\ eol' = "CRLF"
        ELSE Return("no") /\ eol' = forgotten
  /\ UNCHANGED <<ioVars, inited, method, linkVars, attached>>

\* The emulators' interfaces (MumuExtras, LDExtras), of a Windows build: a library
\* with its functions, a connection to the emulator, its screen.
MumuReload ==
  \E library, emulator, screen \in BOOLEAN : attached' = (library /\ emulator /\ screen)
LdReload ==
  \E library, instance \in BOOLEAN : attached' = (library /\ instance)

\* init_mumu_extras, init_ld_extras: nothing if there is no configuration.
InitMumuExtras == UNCHANGED attached \/ MumuReload
InitLdExtras == UNCHANGED attached \/ LdReload

\* MumuExtras reloads itself once when a screenshot fails.
MumuShot(ok) == \/ ok /\ UNCHANGED attached
                \/ MumuReload /\ (ok => attached')
LdShot(ok) == ok \in BOOLEAN /\ UNCHANGED attached
ExtrasShot(ok) == MumuShot(ok) \/ LdShot(ok)
\* A failed one is repeated after another reload, if reconnecting is allowed.
ExtrasRetry(ok) == ok \in BOOLEAN /\ (MumuReload \/ LdReload)
-----------------------------------------------------------------------------
\* screencap(image, allow_reconnect), the way to take it unknown yet: try all
\* and keep the fastest.  Top.n is the one to try.
Ways == <<"RawByNc", "RawWithGzip", "Encode">>

ScreencapUnknown ==
  /\ At("screencap") /\ method = "UnknownYet"
  /\ Jump("probe")
  /\ eol' = "UnknownYet"
  /\ UNCHANGED <<ioVars, inited, method, linkVars, attached>>

ScreencapKnown ==
  /\ At("screencap") /\ method \in DOMAIN CaptureCommand
  /\ Replace(Capture(method, Top.flag))
  /\ UNCHANGED <<result, need_exit, ioVars, adbVars>>

ScreencapExtras ==
  /\ At("screencap") /\ method = "Extras"
  /\ \E ok \in BOOLEAN :
        /\ ExtrasShot(ok) \/ (Top.flag /\ ExtrasRetry(ok))
        /\ Return(IF ok THEN "yes" ELSE "no")
  /\ UNCHANGED <<ioVars, inited, shotVars, linkVars>>

Probe ==
  /\ At("probe") /\ Top.n <= Len(Ways)
  /\ IF Ways[Top.n] = "RawByNc" /\ ~started THEN Again("probe")
     ELSE Call(Capture(Ways[Top.n], Top.flag), "probe.done")
  /\ UNCHANGED <<ioVars, adbVars>>

\* The first way that works is taken, a later one if it was faster.
Keep(m) ==
  \/ method' = m /\ inited' = TRUE
  \/ method # "UnknownYet" /\ UNCHANGED <<method, inited>>

ProbeDone ==
  /\ At("probe.done")
  /\ IF result = "yes" THEN Keep(Ways[Top.n]) ELSE UNCHANGED <<method, inited>>
  /\ eol' = "UnknownYet"
  /\ Again("probe")
  /\ UNCHANGED <<ioVars, linkVars, attached>>

ProbeExtras ==
  /\ At("probe") /\ Top.n = Len(Ways) + 1
  /\ Again("probe")
  /\ \E ok \in BOOLEAN :
        /\ IF attached THEN ExtrasShot(ok) ELSE ~ok /\ UNCHANGED attached
        /\ IF ok THEN Keep("Extras") ELSE UNCHANGED <<method, inited>>
  /\ UNCHANGED <<ioVars, eol, linkVars>>

ProbeEnd ==
  /\ At("probe") /\ Top.n > Len(Ways) + 1
  /\ Return(IF method = "UnknownYet" THEN "no" ELSE "yes")
  /\ eol' = "UnknownYet"
  /\ UNCHANGED <<ioVars, inited, method, linkVars, attached>>
-----------------------------------------------------------------------------
\* connect.  clear_info first; a stop is looked for before each group.
ConnectStart ==
  /\ At("adb.connect")
  /\ inited' = FALSE /\ known' = FALSE
  /\ method' = "UnknownYet" /\ eol' = "UnknownYet"
  /\ IF need_exit THEN Return("no")
     ELSE Call(AdbCall("devices", FALSE), "connect.listed")
  /\ UNCHANGED <<ioVars, started, attached>>

\* Listed already, or to be connected; the client of adb-lite may fail to be
\* created.
ConnectListed ==
  /\ At("connect.listed")
  /\ known' = TRUE
  /\ \E c \in BOOLEAN : SetAdbSerial(c)
  /\ IF result = "ok" THEN Jump("connect.query")
     ELSE IF SerialAddress THEN Return("no")
     ELSE Call(AdbCall("connect", FALSE), "connect.connected")
  /\ UNCHANGED <<native, lite, child, sock, late, inited,
                 shotVars, started, attached>>

ConnectConnected ==
  /\ At("connect.connected")
  /\ IF result = "ok" THEN Jump("connect.query") ELSE Return("no")
  /\ UNCHANGED <<ioVars, adbVars>>

\* What is asked of the device, in this order; only the event id may be missing.
Queries == <<"uuid", "version", "display_id", "event_id", "display">>
PolledBefore == {"uuid", "display_id", "event_id", "display"}
Asked(q) == (q = "display_id" => HasDisplayId) /\ (q = "event_id" => HasEventId)

ConnectQuery ==
  /\ At("connect.query") /\ Top.n <= Len(Queries)
  /\ LET q == Queries[Top.n]
     IN IF q \in PolledBefore /\ need_exit THEN Return("no")
        ELSE IF ~Asked(q) THEN Again("connect.query")
        ELSE Call(AdbCall(q, q # "uuid"), "connect.answer")
  /\ UNCHANGED <<ioVars, adbVars>>

ConnectAnswer ==
  /\ At("connect.answer")
  /\ IF result # "ok" /\ Queries[Top.n] # "event_id" THEN Return("no")
     ELSE Again("connect.query")
  /\ UNCHANGED <<ioVars, adbVars>>

\* Connected: the remaining commands, and the address to be reached at.
ConnectReady ==
  /\ At("connect.query") /\ Top.n > Len(Queries)
  /\ IF need_exit THEN Return("no")
     ELSE IF started \/ lite THEN Jump("connect.extras")
     ELSE Call(AdbCall("nc_address", TRUE), "connect.server")
  /\ UNCHANGED <<ioVars, adbVars>>

ConnectServer ==
  /\ At("connect.server")
  /\ \E ok \in BOOLEAN : InitSocket(ok) /\ started' = ok
  /\ Jump("connect.extras")
  /\ UNCHANGED <<native, lite, client, child, late, inited,
                 shotVars, known, attached>>

\* init_mumu_extras or init_ld_extras, for the emulators that have them.
ConnectExtras ==
  /\ At("connect.extras")
  /\ IF need_exit THEN Return("no") /\ UNCHANGED attached
     ELSE /\ Jump("connect.end")
          /\ IF native = "Win32" THEN InitMumuExtras \/ InitLdExtras
             ELSE UNCHANGED attached
  /\ UNCHANGED <<ioVars, inited, shotVars, linkVars>>

ConnectEnd ==
  /\ At("connect.end")
  /\ Return(IF need_exit THEN "no" ELSE "yes")
  /\ UNCHANGED <<ioVars, adbVars>>

AdbStep ==
  \/ CallBegin \/ CallDone
  \/ ReconnectWait \/ ReconnectSlept \/ ReconnectConnected \/ ReconnectRecalled
  \/ ReconnectFail \/ ReconnectFailed \/ Release \/ ReleaseDone
  \/ CommandSend \/ CommandDone \/ CaptureBegin \/ CaptureDecode
  \/ ScreencapUnknown \/ ScreencapKnown \/ ScreencapExtras
  \/ Probe \/ ProbeDone \/ ProbeExtras \/ ProbeEnd
  \/ ConnectStart \/ ConnectListed \/ ConnectConnected \/ ConnectQuery
  \/ ConnectAnswer \/ ConnectReady \/ ConnectServer \/ ConnectExtras \/ ConnectEnd
==============================================================================
