------------------------------ MODULE PlatformIO -----------------------------
(***************************************************************************)
(* How an adb command is executed: a child process whose output is read    *)
(* from a pipe, or from a connection to the server socket when the device  *)
(* sends a screenshot with nc (PosixIO, Win32IO), or a conversation with   *)
(* the adb server in this process (AdbLiteIO and adb-lite/), which falls   *)
(* back to a child process.                                                *)
(*                                                                         *)
(* A call returns "none" (nothing to look at), "bad" (a non-zero exit      *)
(* status), or what the command printed.  The device answers as it likes.  *)
(***************************************************************************)
EXTENDS CallStack, FiniteSets

VARIABLES
  native,   \* the build: "Posix" or "Win32"
  lite,     \* AdbLiteIO rather than NativeIO
  client,   \* m_adb_client is there, for the serial that commands name
  child,    \* m_child is set (PosixIO): a child has been forked
  sock,     \* m_server_sock: "none", "listening", or of no use ("broken")
  late      \* commands begun since need_exit was set

ioVars == <<native, lite, client, child, sock, late>>

CONSTANT MaxLate   \* late counts up to here
ASSUME LateAssumption == MaxLate \in Nat

NewPlatform(l) ==   \* PlatformFactory::create_platform
  /\ lite' = l /\ client' = FALSE /\ child' = FALSE /\ sock' = "none"
  /\ UNCHANGED <<native, late>>

CountLate == late' = IF need_exit /\ late < MaxLate THEN late + 1 ELSE late
-----------------------------------------------------------------------------
\* What the commands print.  "ok" is what the caller looks for, "odd" anything
\* else (of a connect: neither "connected" nor "error"; of devices: the address
\* is not listed).  A screenshot decodes as it is ("plain"), although it holds
\* a "\r\n" ("chance"), once each "\r\n" is made a "\n" ("crlf"), or never; the
\* last may be because the connection broke off (host_data takes an error for
\* the end), or because a process was killed in the middle.
Screenshot == {"plain", "chance", "crlf", "junk", "empty"}
Shots == {"nc", "gzip", "encode"}
Output(cmd) ==
  CASE cmd \in Shots -> Screenshot
    [] cmd = "connect" -> {"ok", "error", "odd"}
    [] cmd \in {"devices", "uuid", "version", "display_id", "event_id",
                "display", "nc_address", "abilist", "orientation"} ->
         {"ok", "odd"}
    [] OTHER -> {"ok"}
Partial(cmd) == CASE cmd \in Shots -> {"junk", "empty"}
                  [] cmd = "release" -> {"killed"}
                  [] OTHER -> Output(cmd)

Command(cmd, bySocket) == Frame("io", cmd, bySocket)
-----------------------------------------------------------------------------
\* AdbLiteIO, which supports no socket.  kill-server and devices are asked of the
\* adb server, the rest of the client of the serial; without one the command is
\* left to NativeIO.
ServerCommand == {"devices", "release"}
Pushes == {"push"}

\* The requests that one command sends, each answered before the next
\* (send_host_request); switch_to_device is the first of most.
HostRequest == <<"host">>
Conversation(cmd) ==
  CASE cmd \in ServerCommand \cup {"connect"} -> HostRequest
    [] cmd \in Pushes -> <<"transport", "sync", "data">>
    [] OTHER -> <<"transport", "service">>

LiteRefuses ==
  /\ At("io") /\ lite /\ Top.cmd \notin ServerCommand /\ ~client
  /\ Jump("io.native")
  /\ CountLate
  /\ UNCHANGED <<native, lite, client, child, sock>>

LiteBegins ==
  /\ At("io") /\ lite /\ (Top.cmd \in ServerCommand \/ client)
  /\ Jump("lite.request")
  /\ CountLate
  /\ UNCHANGED <<native, lite, client, child, sock>>

\* send_host_request: "OKAY", and the next request if there is one.
LiteOkay ==
  /\ At("lite.request") /\ Top.n < Len(Conversation(Top.cmd))
  /\ Again("lite.request")
  /\ UNCHANGED ioVars

\* After the last request: a message with its length in front, for the server's
\* own commands and connect.
LiteMessage ==
  /\ At("lite.request") /\ Top.n = Len(Conversation(Top.cmd))
  /\ Top.cmd \in ServerCommand \cup {"connect"}
  /\ \E out \in Output(Top.cmd) : Return(out)
  /\ UNCHANGED ioVars

\* The output of a shell command, up to the end of the connection, which an error
\* is taken for.
LiteData ==
  /\ At("lite.request") /\ Top.n = Len(Conversation(Top.cmd))
  /\ Top.cmd \notin ServerCommand \cup Pushes \cup {"connect"}
  /\ \E out \in Output(Top.cmd) : Return(out)
  /\ UNCHANGED ioVars

\* A push: false for a file that cannot be opened or a device that refuses it,
\* which call_command does not look at.
LitePushed ==
  /\ At("lite.request") /\ Top.cmd \in Pushes
  /\ Top.n \in {1, Len(Conversation(Top.cmd))}
  /\ Return("ok")
  /\ UNCHANGED ioVars

\* An exception: the connection cannot be made or breaks, the server answers
\* "FAIL", or a read_some returns less than a whole header or length.
LiteThrows ==
  /\ At("lite.request")
  /\ IF Top.cmd \in ServerCommand \cup {"connect"}
     THEN Jump("io.native") ELSE Return("bad")
  /\ UNCHANGED ioVars

\* set_adb_serial: the client may fail to be created.
SetAdbSerial(c) == client' = (lite /\ c)
-----------------------------------------------------------------------------
\* NativeIO.
\* The command is left to NativeIO, or it is NativeIO.
NativeBegins ==
  /\ At("io.native") \/ (At("io") /\ ~lite)
  /\ IF At("io") THEN CountLate ELSE UNCHANGED late

\* pipe() fails, or fork(), whose -1 is kept in m_child; or a child runs.
PosixFork ==
  /\ NativeBegins /\ native = "Posix"
  /\ \/ Return("none") /\ UNCHANGED child
     \/ Return("none") /\ child' = TRUE
     \/ Jump(IF Top.flag THEN "posix.socket" ELSE "posix.drain") /\ child' = TRUE
  /\ UNCHANGED <<native, lite, client, sock>>

\* The pipe or the process cannot be created; or the overlapped reads are begun.
Win32Create ==
  /\ NativeBegins /\ native = "Win32"
  /\ Return("none") \/ Jump("win32.wait")
  /\ UNCHANGED <<native, lite, client, child, sock>>

\* The poll on the server socket, in slices of at most five seconds.
PosixSocket ==
  /\ At("posix.socket")
  /\ \/ need_exit /\ Return("none")                       \* child killed
     \/ ~need_exit /\ sock = "listening" /\ Jump("posix.drain")
     \/ ~need_exit /\ Return("none")   \* timeout, error, not listening: killed
  /\ UNCHANGED ioVars

\* Reading until the end of the output and of the child; after the timeout the
\* child is killed and its status, not zero, returned.  need_exit is not looked
\* at.
PosixDrain ==
  /\ At("posix.drain")
  /\ \/ \E out \in Output(Top.cmd) : Return(out)
     \/ Return("bad")
  /\ UNCHANGED ioVars

\* The loop over the handles of the process, the pipe and the socket: everything
\* has ended.  An AcceptEx that failed at once is taken for the end of the data.
Win32Ended ==
  /\ At("win32.wait") /\ ~need_exit
  /\ \/ IF Top.flag /\ sock # "listening" THEN Return("empty")
        ELSE \E out \in Output(Top.cmd) : Return(out)
     \/ Return("bad")
  /\ UNCHANGED ioVars

\* The time is over: the process is killed, and what was read thrown away.
Win32TimedOut ==
  /\ At("win32.wait") /\ ~need_exit
  /\ Return("none")
  /\ UNCHANGED ioVars

\* need_exit is seen, or waiting fails: what was read so far is returned, and a
\* process that still runs is killed, with the exit code of a success.
Win32Cut ==
  /\ At("win32.wait")
  /\ \/ \E out \in Partial(Top.cmd) : Return(out)
     \/ need_exit /\ \E out \in Output(Top.cmd) : Return(out)
     \/ Return("bad")
  /\ UNCHANGED ioVars
-----------------------------------------------------------------------------
\* init_socket, on the socket of a platform that has none yet: what fails may
\* leave a handle, on which nothing listens.
PosixListen(ok) == native = "Posix" /\ sock' = IF ok THEN "listening" ELSE "broken"
Win32Listen(ok) == native = "Win32" /\ sock' = IF ok THEN "listening" ELSE "broken"
InitSocket(ok) == PosixListen(ok) \/ Win32Listen(ok)
CloseSocket == sock' = "none"

\* release_adb kills the server that a command of this platform may have started.
PosixReleases == child
Win32Releases == TRUE
LiteReleases == client
ReleaseApplies == IF lite THEN LiteReleases
                  ELSE IF native = "Posix" THEN PosixReleases ELSE Win32Releases
-----------------------------------------------------------------------------
\* interactive_shell: the pipes, the process or the connection may fail, and
\* adb-lite serves its own serial only.
PosixShell(ok) == ~lite /\ native = "Posix" /\ ok \in BOOLEAN
Win32Shell(ok) == ~lite /\ native = "Win32" /\ ok \in BOOLEAN
\* Two requests: the device, and the shell on it.
Conversed(ok) == \E device, shell \in BOOLEAN : ok = (device /\ shell)
LiteShell(ok) == lite /\ (IF client THEN Conversed(ok) ELSE ~ok)
InteractiveShell(ok) == PosixShell(ok) \/ Win32Shell(ok) \/ LiteShell(ok)

\* Writing to the program of the shell: it may have ended, or its pipe be full.
PosixWrite(ok) == ~lite /\ native = "Posix" /\ ok \in BOOLEAN
Win32Write(ok) == ~lite /\ native = "Win32" /\ ok \in BOOLEAN
LiteWrite(ok) == lite /\ ok \in BOOLEAN
HandlerWrite(ok) == PosixWrite(ok) \/ Win32Write(ok) \/ LiteWrite(ok)

\* Reading what it says.  The pipe of Posix answers at once, mostly with nothing;
\* Win32 waits for a first piece, and gives up when the time that the caller
\* allows is over; adb-lite too, or answers nothing when the connection fails.
Pieces == {"prompt", "part"}
PosixRead(out) == ~lite /\ native = "Posix" /\ out \in Pieces \cup {"late"}
Win32Read(out) == ~lite /\ native = "Win32" /\ out \in Pieces \cup {"late"}
LiteAnswers(out) == out \in Pieces \cup {"late"}
LiteRead(out) == lite /\ (LiteAnswers(out) \/ out = "part")
HandlerRead(out) == PosixRead(out) \/ Win32Read(out) \/ LiteRead(out)
-----------------------------------------------------------------------------
IOStep ==
  \/ LiteRefuses \/ LiteBegins \/ LiteOkay \/ LiteMessage \/ LiteData \/ LitePushed
  \/ LiteThrows \/ PosixFork \/ PosixSocket \/ PosixDrain
  \/ Win32Create \/ Win32Ended \/ Win32TimedOut \/ Win32Cut

IOTypeOK ==
  /\ native \in {"Posix", "Win32"}
  /\ lite \in BOOLEAN /\ client \in BOOLEAN /\ child \in BOOLEAN
  /\ sock \in {"none", "listening", "broken"}
  /\ late \in 0 .. MaxLate
==============================================================================
