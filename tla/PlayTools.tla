------------------------------- MODULE PlayTools ------------------------------
(***************************************************************************)
(* PlayToolsController: the game on macOS, driven by messages on a socket. *)
(* A session begins with a handshake and four questions; after that each   *)
(* message is written, and its answer read, without looking at what became *)
(* of the one before.                                                      *)
(***************************************************************************)
EXTENDS CallStack

VARIABLES
  capture,   \* m_screencap_method: "RGBA", "BGR" or "MacSCK"
  session,   \* m_socket is open; its peer may have gone since
  size       \* m_screen_size is known

playVars == <<capture, session, size>>

PlayTypeOK ==
  /\ capture \in {"RGBA", "BGR", "MacSCK"}
  /\ session \in BOOLEAN /\ size \in BOOLEAN

\* The constructor, and close (also the destructor).
NewPlay == capture' = "RGBA" /\ session' = FALSE /\ size' = FALSE
Close == session' = FALSE /\ size' = FALSE

PlayInited == session /\ size
-----------------------------------------------------------------------------
\* open, which every operation begins with: an open socket is taken for a
\* session.  An attempt to connect that fails may leave it open (boost::asio), a
\* question that fails does.
Open == Frame("play.open", "", FALSE)

Questions(c) == <<"handshake", "VERN", "SIZE">>
                \o (IF c = "MacSCK" THEN <<"RECT", "BNDL">> ELSE <<>>)

PlayOpen ==
  /\ At("play.open")
  /\ IF session THEN Return("yes") /\ UNCHANGED session
     ELSE \/ session' = TRUE /\ Jump("play.ask")
          \/ session' \in BOOLEAN /\ Return("no")   \* no such address; no answer
  /\ UNCHANGED <<capture, size, finger>>

PlayAsk ==
  /\ At("play.ask") /\ Top.n <= Len(Questions(capture))
  /\ \/ /\ Again("play.ask")
        /\ size' = (size \/ Questions(capture)[Top.n] = "SIZE")
     \/ Return("no") /\ UNCHANGED size   \* broken off, refused, or too old
  /\ UNCHANGED <<capture, session, finger>>

\* ScreenCaptureKit may be missing from the build: then BGR is used instead.
PlayOpened ==
  /\ At("play.ask") /\ Top.n > Len(Questions(capture))
  /\ \/ Return("yes") /\ capture' \in (IF capture = "MacSCK" THEN {"MacSCK", "BGR"}
                                       ELSE {capture})
     \/ capture = "MacSCK" /\ Return("no") /\ UNCHANGED capture
  /\ UNCHANGED <<session, size, finger>>

\* connect, on a controller that has no session: the configuration chooses how
\* screenshots are taken.
PlayConnect ==
  /\ At("play.connect")
  /\ capture' \in {"RGBA", "BGR", "MacSCK"}
  /\ Replace(Open)
  /\ UNCHANGED <<result, need_exit, session, size, finger>>
-----------------------------------------------------------------------------
\* screencap: the picture asked for and read, unless it is taken by
\* ScreenCaptureKit.
PlayShot ==
  /\ At("play.shot")
  /\ IF capture = "MacSCK"
     THEN \E v \in {"yes", "no"} : Return(v)
     ELSE Call(Open, "play.read")
  /\ UNCHANGED <<playVars, finger>>

PlayRead ==
  /\ At("play.read")
  /\ IF result = "yes" THEN \E v \in {"yes", "no"} : Return(v) ELSE Return("no")
  /\ UNCHANGED <<playVars, finger>>

\* toucher_commit.
Commit(phase) == Frame("play.commit", phase, FALSE)

PlayCommit ==
  /\ At("play.commit")
  /\ Call(Open, "play.write")
  /\ UNCHANGED <<playVars, finger>>

PlayWrite ==
  /\ At("play.write")
  /\ \/ result = "yes" /\ Return("yes") /\ Sent(Top.cmd)
     \/ Return("no") /\ Unsent(Top.cmd)
  /\ UNCHANGED playVars

\* click gives up when the first touch fails; swipe goes on whatever fails, and
\* answers with what became of the last.
PlayGestures ==
  [click |-> <<"down", "up">>, swipe |-> <<"down">> \o Path \o <<"up">>,
   extra |-> <<"down">> \o Path \o Path \o <<"up">>]

PlayGesture ==
  /\ At("play.gesture")
  /\ IF Top.n > Len(PlayGestures[Top.cmd]) THEN Return(result)
     ELSE Call(Commit(PlayGestures[Top.cmd][Top.n]), "play.touched")
  /\ UNCHANGED <<playVars, finger>>

PlayTouched ==
  /\ At("play.touched")
  /\ IF Top.cmd = "click" /\ result = "no" THEN Return("no")
     ELSE Again("play.gesture")
  /\ UNCHANGED <<playVars, finger>>

\* stop_game writes without opening; input and start_game are not supported and
\* said to succeed.
PlayCommand ==
  /\ At("play.command") /\ Top.cmd \in {"stop_game", "input", "start_game"}
  /\ IF Top.cmd = "stop_game"
     THEN \E v \in {"yes", "no"} : (v = "yes" => session) /\ Return(v)
     ELSE Return("yes")
  /\ UNCHANGED <<playVars, finger>>

\* press_esc is said to fail, and so does an injected event (the base class).
PlayEsc ==
  /\ At("play.command") /\ Top.cmd \in {"press_esc", "down", "up", "wait"}
  /\ Return("no")
  /\ UNCHANGED <<playVars, finger>>

PlayStep ==
  \/ PlayOpen \/ PlayAsk \/ PlayOpened \/ PlayConnect \/ PlayShot \/ PlayRead
  \/ PlayCommit \/ PlayWrite \/ PlayGesture \/ PlayTouched \/ PlayCommand \/ PlayEsc
==============================================================================
