-------------------------------- MODULE Gui --------------------------------
(***************************************************************************)
(* The Windows GUI around one instance: the UI thread with what is posted  *)
(* to it, a pool thread that runs AsstProxy.Init and one that runs         *)
(* AsstProxy.Connect, and the instance's message thread, whose callback    *)
(* writes the log on the UI thread and waits for it.  The instance is the  *)
(* module Assistant; the pool's Connect takes the place of the call thread *)
(* that the destructor does not wait for.                                  *)
(*                                                                         *)
(* A second Connect would wait for m_mutex, so the pool runs them in turn; *)
(* what is posted to the UI thread is run in any order.  Messages that     *)
(* reach no handler, and those of sub tasks, which are logged as the start *)
(* of a chain is, are left out.                                            *)
(***************************************************************************)
EXTENDS Assistant

CONSTANTS
  UI,           \* the thread of the windows
  MaxEnabled,   \* bound on the tasks ticked in the list
  MaxClicks     \* bound on the clicks

ASSUME GuiAssumption == MaxEnabled \in Nat /\ MaxClicks \in Nat

\* One of the instance's clients; what other clients there are make no calls.
Windowed == UI \in Clients \ {CallThread}

VARIABLES
  handle,      \* AsstProxy._handle is set
  connected,   \* AsstProxy.Connected
  state,       \* Idle of the two RunningState objects
  ui,          \* what the UI thread is in
  ticked,      \* tasks that LinkStart has still to append
  mine,        \* the ids it has been given
  pool,        \* what is queued or running on the pool
  resume,      \* awaits whose Connect has answered, to go on on the UI thread
  posted,      \* SetIdle(true) posted to the UI thread
  inbox,       \* m_msg_queue
  mpc,         \* where the message thread is
  clicks,
  promised     \* history: the ids of every LinkStart that logged a start

guiVars == <<handle, connected, state, ui, ticked, mine, pool, resume, posted,
             inbox, mpc, clicks, promised>>
allVars == <<vars, guiVars>>

GuiInit ==
  /\ Init
  /\ handle = FALSE
  /\ connected = FALSE
  /\ state = [Container |-> TRUE, Instance |-> TRUE]
  /\ ui = "free"
  /\ ticked = 0
  /\ mine = {}
  /\ pool = <<"Init">>
  /\ resume = <<>>
  /\ posted = 0
  /\ inbox = <<>>
  /\ mpc = "top"
  /\ clicks = 0
  /\ promised = {}

\* The view models are given the RunningState that the container makes for
\* itself; AsstProxy sets RunningState.Instance.
Idle == state.Container

SetIdle(i) == state' = [state EXCEPT !.Instance = i]

-----------------------------------------------------------------------------
(* The instance.  It exists from AsstCreateEx on; each message it sends is   *)
(* queued for the message thread.                                            *)
Forward ==
  inbox' = IF msgs' = msgs THEN inbox ELSE Append(inbox, msgs'[cur][Len(msgs'[cur])])

Instance ==
  /\ handle
  /\ Worker \/ SpuriousWake
  /\ Forward
  /\ UNCHANGED <<handle, connected, state, ui, ticked, mine, pool, resume,
                 posted, mpc, clicks, promised>>

(* msg_proc with AsstProxy.CallbackFunction as its callback.                 *)
Logged == {"Start", "Completed", "Error", "AllCompleted"}

MsgTake ==
  /\ mpc = "top"
  /\ \/ /\ exit
        /\ mpc' = "done"
        /\ UNCHANGED inbox
     \/ /\ ~exit /\ inbox # <<>>
        /\ mpc' = IF Head(inbox) \in Logged THEN Head(inbox) ELSE "top"
        /\ inbox' = Tail(inbox)
  /\ UNCHANGED <<vars, handle, connected, state, ui, ticked, mine, pool, resume,
                 posted, clicks, promised>>

\* Dispatcher.Invoke of AddLog: the UI thread runs it and the callback goes on.
AddLog ==
  /\ ui = "free"
  /\ mpc \in Logged
  /\ mpc' = IF mpc = "AllCompleted" THEN "logged" ELSE "top"
  /\ UNCHANGED <<vars, handle, connected, state, ui, ticked, mine, pool, resume,
                 posted, inbox, clicks, promised>>

\* Mutant: Execute.OnUIThreadSync.
PostIdle_sync ==
  /\ mpc = "logged"
  /\ ui = "free"
  /\ SetIdle(TRUE)
  /\ mpc' = "top"
  /\ UNCHANGED <<vars, handle, connected, ui, ticked, mine, pool, resume, posted,
                 inbox, clicks, promised>>

\* Execute.OnUIThread does not wait.
PostIdle ==
  /\ mpc = "logged"
  /\ posted' = posted + 1
  /\ mpc' = "top"
  /\ UNCHANGED <<vars, handle, connected, state, ui, ticked, mine, pool, resume,
                 inbox, clicks, promised>>

RunPosted ==
  /\ ui = "free"
  /\ posted > 0
  /\ posted' = posted - 1
  /\ SetIdle(TRUE)
  /\ UNCHANGED <<vars, handle, connected, ui, ticked, mine, pool, resume, inbox,
                 mpc, clicks, promised>>

-----------------------------------------------------------------------------
(* The pool.                                                                 *)
\* AsstProxy.Init: without resources AsstCreateEx gives no handle.
ProxyInit ==
  /\ ui # "exited"
  /\ pool # <<>> /\ Head(pool) = "Init"
  /\ handle' \in BOOLEAN
  /\ pool' = Tail(pool)
  /\ UNCHANGED <<vars, connected, state, ui, ticked, mine, resume, posted, inbox,
                 mpc, clicks, promised>>

Asked == {i \in DOMAIN pool : pool[i] # "Init"}
NextAsked == CHOOSE i \in Asked : \A j \in Asked : i <= j
Without(i) == [j \in 1..(Len(pool) - 1) |-> IF j < i THEN pool[j] ELSE pool[j + 1]]

\* The answer of the Connect that was asked for first.
Answer(r) ==
  /\ pool' = Without(NextAsked)
  /\ resume' = Append(resume, [for |-> pool[NextAsked], ret |-> r])

\* Connect without a handle answers at once and leaves Connected alone.
ConnectNoHandle ==
  /\ ui # "exited"
  /\ Asked # {} /\ ~handle
  /\ Answer(FALSE)
  /\ UNCHANGED <<vars, handle, connected, state, ui, ticked, mine, posted, inbox,
                 mpc, clicks, promised>>

ProxyConnect ==
  /\ Asked # {} /\ handle
  /\ ConnectCall(CallThread) \/ ConnectBegin(CallThread)
  /\ UNCHANGED guiVars

ProxyConnected(r) ==
  /\ Asked # {} /\ handle
  /\ (ConnectRefuse(CallThread) /\ ~r) \/ ConnectEnd(CallThread)
  /\ Answer(r)
  /\ connected' = r
  /\ UNCHANGED <<handle, state, ui, ticked, mine, posted, inbox, mpc, clicks,
                 promised>>

-----------------------------------------------------------------------------
(* The UI thread.                                                            *)
Click ==
  /\ ui = "free"
  /\ clicks < MaxClicks
  /\ clicks' = clicks + 1

\* The rest of LinkStart, from the tasks on: none ticked ends it.
AddTasks ==
  /\ ticked' \in 0..MaxEnabled
  /\ mine' = {}
  /\ ui' = IF ticked' = 0 THEN "free" ELSE "append"

LinkStart ==
  /\ Click
  /\ \/ ~Idle /\ UNCHANGED <<ui, ticked, mine, pool>>
     \/ Idle /\ ~connected /\ pool' = Append(pool, "LinkStart") /\ UNCHANGED <<ui, ticked, mine>>
     \/ Idle /\ connected /\ AddTasks /\ UNCHANGED pool
  /\ UNCHANGED <<vars, handle, connected, state, resume, posted, inbox, mpc, promised>>

ConnectTest ==
  /\ Click
  /\ pool' = Append(pool, "ConnectTest")
  /\ UNCHANGED <<vars, handle, connected, state, ui, ticked, mine, resume, posted,
                 inbox, mpc, promised>>

\* What follows the await, in a turn of its own of the UI thread.
Resume ==
  /\ ui = "free"
  /\ resume # <<>>
  /\ resume' = Tail(resume)
  /\ IF Head(resume).for = "LinkStart" /\ Head(resume).ret
     THEN AddTasks
     ELSE UNCHANGED <<ui, ticked, mine>>
  /\ UNCHANGED <<vars, handle, connected, state, pool, posted, inbox, mpc, clicks,
                 promised>>

\* Whether append_task refuses a task is not looked at.
UIAppend ==
  /\ ui = "append"
  /\ \/ AppendTask(UI) /\ mine' = mine \cup {lastId'}
     \/ UNCHANGED <<vars, mine>>
  /\ ticked' = ticked - 1
  /\ ui' = IF ticked = 1 THEN "start" ELSE "append"
  /\ UNCHANGED <<handle, connected, state, pool, resume, posted, inbox, mpc, clicks,
                 promised>>

\* Mutant: what AsstStart returns is not looked at.
UIStart_ignored ==
  /\ ui = "start"
  /\ \/ StartCheck(UI) /\ ui' = "starting" /\ UNCHANGED promised
     \/ ~idle /\ ui' = "free" /\ promised' = promised \cup mine /\ UNCHANGED vars
  /\ UNCHANGED <<handle, connected, state, ticked, mine, pool, resume, posted,
                 inbox, mpc, clicks>>

\* AsstStart refuses to start while the instance is not idle.
UIStart ==
  /\ ui = "start"
  /\ \/ StartCheck(UI) /\ ui' = "starting"
     \/ ~idle /\ ui' = "free" /\ UNCHANGED vars
  /\ UNCHANGED <<handle, connected, state, ticked, mine, pool, resume, posted,
                 inbox, mpc, clicks, promised>>

\* AsstStart returned true.
UIStarted ==
  /\ ui = "starting"
  /\ StartGo(UI)
  /\ SetIdle(FALSE)
  /\ promised' = promised \cup mine
  /\ ui' = "free"
  /\ UNCHANGED <<handle, connected, ticked, mine, pool, resume, posted, inbox,
                 mpc, clicks>>

\* AsstProxy.Stop would be called if the view model were not idle, which no
\* state reaches: it is given as one step.
LinkStop ==
  /\ Click
  /\ IF Idle \/ ~handle
     THEN UNCHANGED <<vars, state>>
     ELSE /\ lock = Nobody
          /\ idle' = TRUE /\ tasks' = <<>> /\ cache' = FALSE /\ cleared' = TRUE
          /\ SetIdle(TRUE)
          /\ UNCHANGED <<exit, running, workerVars, lastId, lock, cpc, dpc>>
  /\ UNCHANGED <<handle, connected, ui, ticked, mine, pool, resume, posted, inbox,
                 mpc, promised>>

\* The window closes: AsstProxy.Dispose, on the UI thread.
Close ==
  /\ ui = "free"
  /\ IF handle
     THEN DestroyExit /\ ui' = "closing"
     ELSE ui' = "exited" /\ UNCHANGED vars
  /\ UNCHANGED <<handle, connected, state, ticked, mine, pool, resume, posted,
                 inbox, mpc, clicks, promised>>

Destroying ==
  /\ ui = "closing"
  /\ DestroyIdle \/ DestroyNotify \/ DestroyJoin
  /\ UNCHANGED guiVars

\* m_msg_thread.join(), the last of the three
Destroyed ==
  /\ ui = "closing"
  /\ dpc = "joined"
  /\ mpc = "done"
  /\ handle' = FALSE
  /\ ui' = "exited"
  /\ UNCHANGED <<vars, connected, state, ticked, mine, pool, resume, posted, inbox,
                 mpc, clicks, promised>>

-----------------------------------------------------------------------------
UIGoesOn == AddLog \/ RunPosted \/ Resume \/ UIAppend \/ UIStart \/ UIStarted
            \/ Destroying \/ Destroyed
PoolGoesOn == ProxyInit \/ ConnectNoHandle \/ ProxyConnect
              \/ (\E r \in BOOLEAN : ProxyConnected(r))
MsgGoesOn == MsgTake \/ PostIdle

GuiNext == Instance \/ MsgGoesOn \/ PoolGoesOn \/ UIGoesOn
           \/ LinkStart \/ LinkStop \/ ConnectTest \/ Close

\* The fairness of Assistant for what each thread is in, and the dispatcher and
\* the pool run what they are given.
GuiFairness ==
  /\ SF_allVars(Instance /\ WorkerProgress)
  /\ WF_allVars(MsgGoesOn)
  /\ SF_allVars(PoolGoesOn)
  /\ SF_allVars(UIGoesOn)

GuiSpec == GuiInit /\ [][GuiNext]_allVars /\ GuiFairness
-----------------------------------------------------------------------------
\* No chain is stopped, nor said to be, before the window is closed: a test of the
\* connection while chains run is refused (ctrl_connect, Assistant.cpp:179) and so
\* never sets m_thread_idle under one, and LinkStop returns at its guard.
OnlyCloseStops ==
  ~exit => \A id \in TaskIds : \A i \in DOMAIN msgs[id] : msgs[id][i] # "Stopped"

\* The UI thread comes back from every handler, however long m_mutex is held.  It
\* does not come back from AsstDestroy if the message thread is in the Invoke of
\* AddLog when the window closes: each waits for the other (AsstProxy.cs:214 and
\* TaskQueueViewModel.cs:223), and nothing else stops it.
UiReturns ==
  ui # "free" ~> \/ ui \in {"free", "exited"}
                 \/ ui = "closing" /\ mpc \in Logged

\* What LinkStart says it started does begin, whatever is clicked while it runs,
\* unless the window is closed or a chain before it never ends.
StartedRuns ==
  \A id \in TaskIds :
    id \in promised ~> (msgs[id] # <<>> \/ exit \/ [](wpc = "run"))

\* "Stop the task" (TaskQueueViewModel.cs:302): a click on LinkStop while a chain runs
\* stops it.
LinkStopStops == [][LinkStop /\ wpc = "run" => idle']_allVars

\* "The window closes" (RootViewModel.cs:67): once Dispose is called it comes to its
\* end, and the log is closed after it.
WindowCloses == ui = "closing" ~> ui = "exited"
=============================================================================
