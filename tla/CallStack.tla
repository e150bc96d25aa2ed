------------------------------ MODULE CallStack ------------------------------
(***************************************************************************)
(* The calls in progress on the thread that uses the controllers.  The     *)
(* functions of Controller/ call one another five deep, and the answer of  *)
(* one decides what its caller does next; a frame says in which function   *)
(* and where in it a call stands.  The other threads are seen only in      *)
(* need_exit, which a stop of a chain may set between any two steps.       *)
(***************************************************************************)
EXTENDS Naturals, Sequences

VARIABLES
  stack,      \* the frames, the innermost call first
  result,     \* what the call that returned last returned, until it is used
  need_exit,  \* what InstHelper::need_exit answers: m_thread_idle && m_running
  finger      \* "down" on the device's screen from the first touch of a gesture
              \* until its lift is sent, or could not be; otherwise "up"

callVars == <<stack, result, need_exit>>

\* A call of the function that begins at label `at`: cmd is the command it is
\* about, flag its Boolean argument, n its loop counter.
Frame(at, cmd, flag) == [at |-> at, cmd |-> cmd, flag |-> flag, n |-> 1]

Top == Head(stack)
At(label) == stack # <<>> /\ Top.at = label

Replace(frame) == stack' = <<frame>> \o Tail(stack)
Goto(label) == Replace([Top EXCEPT !.at = label])
Repeat(label) == Replace([Top EXCEPT !.at = label, !.n = @ + 1])
\* The running function calls another and goes on at label when that returns.
Enter(frame, label) ==
  stack' = <<frame, [Top EXCEPT !.at = label]>> \o Tail(stack)

Jump(label) == Goto(label) /\ result' = "void" /\ UNCHANGED need_exit
Again(label) == Repeat(label) /\ UNCHANGED <<result, need_exit>>
Call(frame, label) ==
  Enter(frame, label) /\ result' = "void" /\ UNCHANGED need_exit
Return(v) ==   \* nobody looks at what the outermost call returns
  /\ stack' = Tail(stack)
  /\ result' = IF Tail(stack) = <<>> THEN "void" ELSE v
  /\ UNCHANGED need_exit

\* A touch of a gesture is sent, or could not be.
Sent(phase) == finger' = CASE phase = "down" -> "down" [] phase = "up" -> "up"
                           [] OTHER -> finger
Unsent(phase) == finger' = IF phase = "up" THEN "up" ELSE finger

\* interpolate_swipe moves to each point of the path that is on the screen, then to
\* its end; the first move that fails ends it.  One move stands for them all.
Path == <<"move">>
\* interpolate_swipe_with_pause does something on its way, once.
PausedPath(pause) == <<"move">> \o pause \o <<"move">>

Active(labels) == {i \in DOMAIN stack : stack[i].at \in labels}
==============================================================================
