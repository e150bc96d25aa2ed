# Maa4Pvz in TLA+

Specifications of the parts of Maa4Pvz where threads, callbacks, stops and
failures meet, the TLC configurations that check them on small instances, and
proofs, for instances of any size, that TLAPS checks. Paths below are relative
to the repository; `Assistant.cpp` and the like are in `src/MaaCore`.

## 1. The system

Maa4Pvz drives a game on an Android device. **MaaCore** (C++) is a library: an
*instance* (class `Assistant`) owns a device controller and executes *chains* of
tasks described in JSON. Front ends (a WPF GUI, bindings for half a dozen
languages) call it through a C API and hear of progress through one callback.
**MaaWineBridge** lets the Windows GUI use a Unix build of the library;
**MaaUpdater** installs new versions.

| Component | State | Operations | What is hard |
|---|---|---|---|
| Assistant, chains (`Assistant.cpp`) | `m_thread_exit`, `m_thread_idle`, `m_running` (atomics), `m_tasks_list`, `m_mutex`, `m_condvar`, `m_status` | `append_task`, `start`, `stop`, `connect`, `working_proc`, destructor | flags stored outside the mutex, a wait without predicate, `pop_front` after an unlocked run |
| Assistant, asynchronous calls | `m_call_queue`, `m_completed_call`, `m_msg_queue`, the process-wide `m_call_id` | `append_async_call`, `wait_async_id`, `call_proc`, `msg_proc` | completion by one counter, four condition variables, three joins |
| Task engine (`Task/ProcessTask.cpp`, `PackageTask.cpp`) | the list to look for, retries, `m_exec_times`, nested engines | `run`, `find_and_run_task`, `run_task` | cyclic task lists, limits that are given back, subs that fail, polls of `need_exit` |
| Task data (`Config/TaskData.cpp`, `TaskData/`) | JSON merged from files, raw and generated tasks, the status of each name | load, derive on demand, expressions, syntax check | cycles, generation that fails half way, lists that name lists |
| Resources (`Config/ResourceLoader.cpp`, `TemplResource.cpp`, `GeneralConfig.cpp`) | process-wide singletons, a revision | load one directory over another, read images lazily | a load that fails half way, readers during a load |
| Masked templates (`Vision/MaskedCcoeffMatcher.cpp`) | plans by name and revision, their order of use and size | look up, build, insert, evict | what is read before and after the lock |
| Controller (`Controller/Controller.cpp`) | `m_controller`, `m_scale_proxy` | connect, attach, screenshots, touches | half-made connections |
| AdbController and its platform (`AdbController.cpp`, `Platform/`, `adb-lite`) | `m_inited`, command lines, the way to take screenshots, server socket, child process | connect, command with reconnect, screencap probing, release | timeouts, reconnection interrupted by a stop, programs on the device that die |
| Minitouch, Maatouch, PlayTools, MaaFramework's control units | a program, a session or a library on the other side | install, start again, gestures, injected events | an answer not looked at, a finger left on the screen |
| Wine bridge (`MaaWineBridge/MaaCoreForwarder`) | a ring of tasks, reference counts, a worker thread | `task_queue_push/pop/free`, `UnixCallbackShim` | hand-over of a stack frame, reference counting, teardown inside the last callback |
| Updater (`MaaUpdater/main.cpp`) | the plan, the files and their backups, a mutex, status files | wait for MAA, read the plan, apply, roll back, clean up, start MAA | failures and crashes between two moves, instances started meanwhile |
| WPF GUI (`MaaWpfGui`) | running state (two objects), the instance's handle, the dispatcher | `LinkStart`, `LinkStop`, connection test, callback, close | state read before `await`, a callback that waits for the thread that waits for it |
| Vision, logger, utilities, bindings, build | | | numerical code, I/O, thin wrappers |

How they interact: a front end's threads call the C API, which calls `Assistant`
under the instance's mutexes. The working thread runs a chain (`PackageTask` of
`ProcessTask`s), which polls `Assistant::need_exit` through `InstHelper` between
screenshots, clicks and delays. Everything the chain says goes through
`append_callback` into the message queue, from which the message thread calls
the user's callback; under Wine that is `UnixCallbackShim`, which hands the
message to a Wine thread and waits for it, and in the GUI it waits for the UI
thread. The call thread executes the asynchronous API, `connect` included, so it
competes for `m_mutex` with the working thread. The thread that holds the
controller calls down through `Controller`, a backend and a platform into adb, a
game or a control unit; a failed command calls back up, into `reconnect`. Task
data, images and plans are shared by every instance of the process.

## 2. Modules

| Module | Models | Lines up with |
|---|---|---|
| `TaskService` | what callers are promised: chains begin one at a time, in the order of their ids, each at most once; a stop discards what waits | abstract specification |
| `Assistant` | the task list, the three flags and `m_mutex` under any number of clients, the call thread, `working_proc` and the destructor | `Assistant.cpp` 62-98, 176-191, 232-274, 332-337, 421-522 |
| `AssistantProofs` | the theorems of section 5 about it, and about `Gui` | |
| `AsyncCalls` | calls, completion and messages | `Assistant.cpp` 524-687 |
| `AsyncCallsProofs` | the theorems of section 5 about it | |
| `CallbackQueue` | the Wine bridge's queue from creation to destruction | `task_queue.c`, `task_queue_wine.c`, `maacore.c` 52-93 |
| `CallbackQueueProofs` | the theorems of section 5 about it | |
| `ProcessTask` | `PackageTask::run`, and `ProcessTask` with the ones nested in it as a stack of frames | `ProcessTask.cpp`, `PackageTask.cpp`, `PipelineAnalyzer.cpp` |
| `ProcessTaskProofs` | the theorems of section 5 about it | |
| `CallStack` | the calls in progress on the thread that uses the controllers, what `need_exit()` answers and the finger on the screen | |
| `PlatformIO` | how a command is executed: child process, server socket, adb-lite | `PosixIO.cpp`, `Win32IO.cpp`, `AdbLiteIO.cpp`, `adb-lite/` |
| `AdbController` | connect, `call_command`, `reconnect`, `release`, the search for the fastest screenshot | `AdbController.cpp` |
| `TouchController` | minitouch and maatouch: installing, starting again, gestures | `MinitouchController.cpp`, `.h` |
| `PlayTools` | the session with the game on macOS | `PlayToolsController.cpp` |
| `MaaFramework` | a control unit's life and its gestures | `MaaFw*Controller.cpp`, `Win32Controller.cpp` |
| `Controller` | the above under one `Controller`, with the proxy in front of them | `Controller.cpp`, `ControlScaleProxy.cpp` |
| `ControllerProofs`, `StopProofs` | the theorems of section 5 about it | |
| `TaskSymbols`, `TaskExpressions` | names with `@` and `#`; the parser of list expressions, and what an expression means | `TaskData/` |
| `TaskData` | merging, generating on demand, the check of debug builds | `TaskData.cpp` |
| `TemplResource`, `GeneralConfig`, `MaskedCcoeffMatcher` | the file of each template and the images read; connections; the cache of plans | the files of these names |
| `Resources` | the loader and the threads that ask, around the three above; what tasks the files make is a parameter | `ResourceLoader.cpp`, `Matcher.cpp`, `AsstCaller.cpp` |
| `LoadedTasks` | `Resources` with `TaskData` for that parameter, and what must be true of the tasks | `Matcher.cpp` |
| `ResourcesProofs` | the theorems of section 5 about `Resources` | |
| `Updater` | an update plan applied entry by entry, the rollback, the clean-up, kills, boots and a second start | `MaaUpdater/main.cpp` |
| `UpdatePlan` | the reader of the plan file, and what a path in it is taken for | the same |
| `UpdaterProcess` | what the process does around the update: parent, mutex, status files, relaunch; it EXTENDS `Updater` | the same |
| `UpdaterProofs` | the theorems of section 5 about them | |
| `Gui` | the window, its pool and the callback around one instance; it EXTENDS `Assistant` | `MaaWpfGui`: `AsstProxy.cs`, `TaskQueueViewModel.cs`, `RunningState.cs`, `Bootstrapper.cs` |
| `MC*` | the small instances | |

**Granularity.** `Assistant`: each access to a flag that some thread makes
outside `m_mutex` is a step, so `stop()` is two (`StopFlag`: the store of
`m_thread_idle`; `StopClear`: the section under the mutex), `start()` is two
(the test, then the section), the destructor's two stores are two, and the
end of a chain is six (`TaskReturn`, `PopFront`, `ChainEnd`, `StopCheck`,
`AllCheck`, `AllCompleted`), each of which may read another value of the flag
or the list. `ctrl_connect` holds the mutex for the whole attempt, during which
it makes the instance non-idle: `ConnectBegin`, `ConnectEnd`. A running chain is
`TaskStep` (it writes to `Status`) and `TaskReturn`, which may come at any time;
the polls of `need_exit` in it are the subject of `ProcessTask`. Both condition
variables of the working thread may wake up by themselves; a `wait_for` is a
step that is enabled whenever the mutex is free, since its timeout may be over.
`AsyncCalls`: drawing a number and pushing the item are two steps with the mutex
held in between, because other instances draw from the same counter.
`CallbackQueue`: the unlock in `task_queue_push` separates `Push` from
`PushAddref`; the message thread and, after it was joined, the destructor's last
message are one actor since they never overlap. `ProcessTask`: one step from one
poll of `need_exit` to the next thing that takes time, so a stop fits between a
poll and the action it guards. `Controller` and the modules below it: one step
from one command, write, question or poll of `need_exit` to the next; a frame of
`stack` says in which function a call stands, its caller goes on when the frame
is gone, and a stop may come between any two steps. `need_exit()` asks for
`m_running` too (`Assistant.h:130`): `Start` sets it, `Park` clears it, and while the
working thread is parked, as it is during a connect, a stop changes nothing that a
call can see. A loop that
reads until something is said (`Hup`) is gone round once more only to let a stop
be seen. `Resources`: a load is one step, since what a reader sees in the middle
of one is undefined; the steps of a match are those between which the code holds
no lock. `UpdaterProcess`: one step per stage around the steps of `Updater`.
`Gui`: one step per stretch of a handler between two awaits or two calls into the
instance. `Updater`: one step per thing that changes the
disk for good, so backing an entry up is two (`MovePrepare`: an earlier backup is
put aside; `MoveBackup`), installing it is a third, and the process can be killed
between any two of them.

**Abstractions.** A chain is its id; its parameters, and the tasks refused by
`append_task`, change nothing that is modelled. `Status` is one flag (entries
written since it was cleared). Ids are drawn by this instance only in
`Assistant` (gaps in `m_task_id` would change nothing: ids are compared, never
counted), by others too in `AsyncCalls`. What the screen shows is
nondeterministic; a list is still searched in order and a `JustReturn` task is
always a match. `exec_times` is kept for tasks with a limit. The effect of
asynchronous calls other than connect is left out. `Updater` keeps, of a path in
the installation, in the backup directory, under the backup's other names and
under `*.pendingdelete`, only which version's files are there ("partial": some of
a directory's; "short": some of them, which the program takes for all). Every file operation may fail and every fallback of it may be
the one that works; temporary files and parent directories are left out (the
status files are `UpdaterProcess`'s), and so is the package, which the updater never reads. The recycle bin
takes a path whole or not at all, and a file copy that fails leaves nothing. The copy
of a directory may be said to be done when only a part of it was listed (`CopyDone`).
`PlanAssumption`: a plan names each path once; paths in it do not contain each
other, since each has a state of its own.

On the device, what a command prints is one of the few answers its caller tells
apart, a screenshot is whether and how it decodes; coordinates, waits and the
options of command lines are left out. The control unit, the emulators'
interfaces and the game under PlayTools are external: they answer as they like.
In `TaskData` a task has the fields that generation treats in different ways: one
of an algorithm's own values (`spec`), one attribute every task has, its template
(one name) and its five lists. In `UpdatePlan` a text is a sequence of marks,
blanks and words; a half of a surrogate pair written by itself becomes U+FFFD, and
what such a name stands for is left open, since the program that writes plans is
not in this repository. The mutex of an update goes with its last handle, so that
its two acquisitions and one release need not be counted. `Gui` has one pool
thread for every `Task.Run` and runs what is posted to the UI thread in any order.

Left out because the program cannot reach it: the other values of
`stop(bool)`, plugins, `set_times_limit` and `set_post_delay` (never called), a
push on a stopped queue. A push on a full ring waits, as the guard of `Push` says.
The check of debug builds makes every name in a list exist (`CheckedClosed`), so
`ProcessTask` takes the data as well-formed (`TaskDataAssumption`).

## 3. Runs

| Run | Instance | Shows |
|---|---|---|
| `assistant` | 2 clients and the call thread, 2 chains | the safety properties, the refinement and both liveness properties below |
| `assistant_connect` | 1 client and the call thread | violated: a connect does not exclude a running chain |
| `assistant_stop` | 1 client and the call thread | violated: a stopped chain is not always reported as stopped |
| `async_calls` | 3 callers, 3 call numbers | completion, parking, order of messages, return of callers and of the destructor |
| `callback_queue` | ring of 3, 5 messages | delivery, reference counts, teardown |
| `callback_queue_refs` | ring of 3, 2 messages | violated: the caller's task may already be freed |
| `process_task` | 8 tasks, 2 subtasks, 1 retry | stops, limits, verdicts, termination after a stop |
| `updater` | 7 paths, 4 plans, 2 starts | the plan is read as written, nothing installed is lost, no instance runs meanwhile, the status left is true |
| `updater_rollback` | the same | violated: the rollback leaves new files next to old ones |
| `device` | every controller in three builds, a stop at any step | what the controllers, the platform and the programs on the device hold is consistent; every call returns |
| `resources` | 5 installations, 2 threads, 2 or 3 loads | what is handed out is what the definitions say; images, plans and cache agree |
| `gui` | 2 ticked tasks, 2 clicks | the window comes back from its handlers; what it says it started runs |

Deadlock is checked in `device` only, where a caller can always begin something
or has destroyed the object. Each of the other systems may stop for good (the
instance was destroyed, the queue freed, the chain has returned, the plan file is
gone, every load was done).

**Why these bounds.** Two chains are what it takes to have one in front, one
behind, and a stop with an append in between; two clients and the call thread to
have a stop, a start and a connect overlap. Three callers are two parked and one
pushing; three numbers leave room for one drawn by another instance between two
of this one's. A ring of three holds two tasks and wraps twice in five messages.
The task graph has a loop through two tasks, a limit that another task gives
back, a fallback list, an `exceeded_next`, a sub of a sub, a sub whose error is
ignored and one whose error is not. The updater's plans are two OTA
packages, one that removes a file and replaces another, one that adds a file and
replaces one; a full package that removes a directory, and replaces a recycled
directory and one that is moved; and a plan with a directory it may not remove and
an illegal path at its end, so that it is refused after an entry was replaced.
Each is written in every combination of order, blanks, separators and look-alike
members that `Forms` has. Two of the paths have a backup of an earlier update in
the way. Two starts are one that is interrupted and one that finds what it left;
instances of MAA come and go as long as the updater runs or may be started again.
`ReconnectTimes` is 1 where the code has 5 and `ScreencapTimes` 1 where it has 20:
what an attempt leaves behind is all the next one sees, and after a stop no
further one is made. `MaxLate` is one more than the commands any call begins after a
stop, which is what `StopHeeded` says. The address is not a serial number and
there is an `event_id` but no `display_id` command: the paths with most commands
that can fail. adb-lite may be switched on in the Posix build (`LiteSystems`): it talks
to the server itself, and what it does on Windows differs only in the `NativeIO` that
the rest falls back to, which the two builds run without it. `resources` has an installation for each part: `Overlay`, implicit
tasks and lists over three loads; `Broken`, tasks that cannot be generated and files
that cannot be read; `Masks`, images that move, with room for two bytes of plans
of which one takes three; `Replacing`, one image replaced by loads that fail and
loads that succeed; `Connect`, connections that inherit. A dozen tasks
(`MaxTasks`, `MaxChecking`) is more than any of them generates. Two threads show
what a match may meet of another, and are interchangeable, hence the symmetry.
In `gui` two clicks are a double click, a start and a stop, or one of them and the
test of the connection, with the close at any point.

**Assistant.** `FrontIsRunning`: unless a stop cleared the list, `pop_front()`
removes the chain that ran. `QueueIsFresh`: what is queued is newer than what
runs, ordered, and unannounced, so nothing runs twice or out of order whatever
overlaps. `StopIsSeen`: `need_exit()` is two loads, yet `m_running` never masks
a stop. `NoLostWakeup`: the wait without predicate leaves no work behind.
`ReportsWellFormed`: Start, one verdict, perhaps AllTasksCompleted, perhaps a
TaskChainStopped in the delay that follows, per chain, and nothing else.
`StopQuiesces`: a stop that lasts brings the worker out of its chain.
`DestroyReturns`. `RefinesTaskService`.

**AsyncCalls.** `CompletedIsPrefix`: comparing with one counter is right because
queued ids are ordered and above it. `ParkedForAReason`, `InfoInOrder`,
`BlockedCallReturns`, `DestroyReturns`. A caller that is still blocked when its
instance is destroyed is promised nothing: the destructor does not notify
`m_completed_call_condvar`.

**CallbackQueue.** `WorkerTaskAllocated`, `DeliveredInOrder`, `InvocationOnStack`
(the invocation is on the shim's stack, so the shim is in that very call),
`FreedLast`, `ShimReturns`; the last excepts the two outcomes of
undefined behaviour the model has (condition variables initialised under a
worker that already waits on them; use of a freed task).

**ProcessTask.** `AtMostOneLateAction`: after a stop the game is touched at most
once. `WithinLimit`, `VerdictMatchesErrors`, `StopReturns`. The Stop action returns
true, as an interruption does, so it ends the `ProcessTask` it is executed in and
`PackageTask` goes on to its next subtask: `StopActionEndsChain`, which
`DEVELOPMENT_PHASE3.md:36` says, is violated (section 4).

**Device.** `NcServed`: screenshots are fetched with nc, on a controller said to
work, only while the socket they arrive at listens, which depends on what
`release()` closes after a reconnect failed and what `m_server_started` remembers.
`NoNestedReconnect`: the commands of a reconnect begin no other. `StopHeeded`: once a
running chain was stopped, the call it is in begins three more commands at most. Of a
connect it says nothing: there `m_running` is false, so the polls in
`AdbController::connect` (`AdbController.cpp:846` and on) see no stop, and all its
commands go out. `NullUse` names the two pointers
that may be null when used: `m_scale_proxy`, by a touch after a connect that failed
but left its controller (`Controller.cpp:262`; `inited()` is true of it), and
`m_minitoucher`, by a swipe with pause (`MinitouchController.cpp:207` and `211`)
whose key presses may have replaced it; every other use is safe. `Lifted`: no call
ends with a finger on the screen unless the lift itself could not be sent.
`Returns`.

**Resources.** `ExpressionsMean` compares the parser of list expressions with what
its comments say, the grammar at `TaskDataSymbolStream.cpp:84` and the one line of
`TaskDataSymbol.cpp:10`, for every expression of up to two operators (486 of 681) but
two kinds, where it does not do what they say (section 4): a row of sums with "^" and
no parentheses (`RowWithout`), and a prefix before `#self` (`SelfPrefixed`).
`TemplatesLoaded`: a load that succeeded left no generated task, then or later,
without an image. `CheckedClosed`: what the check of debug builds accepted can be
asked for, to the last entry of the last list. `AnswersLikeFresh`: a task handed
out is what it would be if the definitions had just been loaded, although it was
generated from others in the order they were asked for; the lists of a name with
two prefixes or more are excepted, for they depend on which base was generated
first. `PlanMatches`: a masked match uses a plan made of its own image, with two
exceptions. A load that failed may have dropped an image without a new revision
(`TemplResource.cpp:99`); and the revision is read after the image
(`Matcher.cpp:247`), so that a load in between files the plan of the old image
under the new revision, where later matches find it. The property says so by keys: a
thread and the plan it found were each fetched under the revision they go by
(`Timely`), and the pair of revision and name is not among those a failed load has
dropped (`replaced`, which is never emptied, for such a plan may lie in the cache as
long as the revision lasts). `StaysFound`, which section 5 proves and no run
repeats: a template once found has an image ever after, whatever later loads lack or fail on, and nobody who goes by the revision
misses that it is another one, but for those failed loads. `CacheAccounted`.
`OldDataNotCached` and `RevisionNamesImage` are `PlanMatches` with one of its two
exceptions taken away, as the comment at `Matcher.cpp:251` has it, and are violated
(section 4). A name that was asked for before its base was there stays missing until a
file defines it (`TaskData.cpp:392`); `AnswersLikeFresh` speaks of tasks handed out and
says nothing of it.

**Gui.** `UiReturns`: the UI thread comes back from every handler, with the one
exception the property names: closing the window destroys the instance on the UI
thread (`AsstProxy.cs:214`), which joins the message thread, whose callback may be
waiting for the UI thread (`TaskQueueViewModel.cs:223`); then neither goes on
(`WindowCloses`, section 4).
`StartedRuns`: what `LinkStart` announces begins, whatever is clicked meanwhile,
unless the window is closed or a chain before it never ends. It holds for a
reason worth knowing: the view models are given another `RunningState`
(`Bootstrapper.cs:44`) than the one `AsstProxy` sets (`AsstProxy.cs:31`), so the
idle state they see never changes. A second `LinkStart` is not refused (after a
double click both append and both start), and `LinkStop`
always returns at its guard, so that no stop is ever sent (`LinkStopStops`, section 4). A test of the
connection that is refused, because tasks run, sets `Connected` to false.
`OnlyCloseStops`, which section 5 proves and no run repeats: no chain is stopped, nor
said to be, before the window closes. The connection test asks nobody whether chains run; that it never makes the instance
idle, or busy, under one rests on the idle test in `ctrl_connect` alone
(`Assistant.cpp:179`), and works only because nothing in the GUI calls `stop()`: section
4 shows what becomes of it otherwise.

**Updater.** `OldKept`: whatever fails, and wherever the first start is killed,
each installed path's old version is still somewhere; of a directory perhaps only a
copy of what its listing gave, since one that breaks off counts as complete
(`main.cpp:861`, `886`). `OldKeptWhole` is without this exception and violated
(section 4). It is said of the first
start only, because a second one deletes `*.pendingdelete` files that may be the
last copy, and may copy a new or partial target over a backup it could not put
aside. `InstalledOnSuccess`: success means that every entry of `moveList` is in
place, after an interrupted start too; a directory that an interrupted start had
already moved is missing from the extracted package, so the second start fails
there instead. The exception is a path `ForceDeleteFile` left for the next boot
and that was then installed: the boot takes the new file. What the model shows
and nothing promises otherwise: an entry of `removeList` may still be there after
a success (`MoveExistingPathToBackup` does not look at what became of the
original), and an update refused because another instance holds the mutex
deletes its own plan (`Blocked`, `Cleanup`). `PlanAsWritten`: each plan, however it is
written, is read as what it says, a path that leaves the installation is refused
and the recycled directories are known in any spelling. `Exclusive`: the plan is applied
only while no instance of MAA runs, when the updater was given the mutex's name. It
speaks of the stage of work: `CleanupPendingDeleteFiles` (`main.cpp:1868`) deletes
what earlier starts put aside before the mutex is asked for.

**Fairness.** `Updater`, `UpdaterProcess` and `Resources` have no liveness
properties and assume no fairness. In `CallbackQueue`, `Assistant`, `AsyncCalls` and
`ProcessTask` a thread that can step does (`WF`) where nothing can take the step
away again; `SF` where it needs a mutex that others keep taking, as for
`working_proc` against connects, and where the code relies on the operating
system to hand over a mutex in the end. `WorkerProgress` counts on a chain to
return only while `need_exit()` holds (the polls of `ProcessTask` and its
`StopReturns` are the reason), never by itself; a connect attempt ends, the user
callback returns. Nobody has to make a call; no spurious wake-up is counted on.
`Controller` has `WF` of the thread's steps except the ones that wait for another
program without a timeout (`Waiting`): the adb server, since `AdbLiteIO` ignores the
timeouts it is given, the game under PlayTools, and a control unit. `Gui` adds to
the worker's fairness that the message thread goes on (`WF`; nothing else does what
it does next) and that the dispatcher and the pool run what they are given (`SF`,
for they take `m_mutex` too). Nobody has to click.

A module's `TypeOK` describes its variables. Those of `Assistant`, `AsyncCalls`,
`CallbackQueue`, `ProcessTask` and `Updater` are theorems; the configurations keep to
the properties above.

## 4. Where the code disagrees with its documents

1. `stop()` makes the instance idle before the running chain has returned, and
   `ctrl_connect` takes idle for "no task is running" (its comment,
   `Assistant.cpp:178`): a connect after a stop replaces the controller under
   the running chain (`assistant_connect`).
2. A stop is only a flag that `start()` resets: stop, append, start before the
   next poll, and the chain goes on, is reported as completed, and the chain
   appended after the stop is popped in its place, unrun (`assistant_stop`;
   `AsstMsg.h:25`, `Python/asst/asst.py:218`).
3. `task_queue_push` takes the caller's reference after the unlock; the worker
   can have freed the task by then (`callback_queue_refs`; `task_queue.c:135`).
4. The rollback that is to "restore files that were already backed up" passes
   over the entries that were also replaced, and leaves a mixture of versions
   (`updater_rollback`; `main.cpp:2044`).

The runs named in brackets above show these. The next ones were met while modelling, and
have no run of their own: each has the property that the document states, defined beside
those that hold, and TLC finds it violated when the configuration named is given it in
place of its own properties.

5. "Copy succeeded; now remove the source" (`main.cpp:1042`): a directory whose listing
   cannot be opened or breaks off (`main.cpp:861`, `886`) counts as copied, and its
   original is recycled or deleted (`OldKeptWhole`, `MCUpdater.cfg`).
6. The Stop action is to end the whole chain (`DEVELOPMENT_PHASE3.md:36`); it ends one
   `ProcessTask` (`StopActionEndsChain`, `MCProcessTask.cfg`).
7. The grammar above the parser takes what follows a "^" together first
   (`TaskDataSymbolStream.cpp:113-115`); the parser works from the left
   (`GrammarAsWritten`, `MCResources.cfg`).
8. `A@#self` is to be `A` (`TaskDataSymbol.cpp:10`); it is the task that owns the list
   (line 27; `SelfIsPrefix`, `MCResources.cfg`).
9. Plans are bound to the revision (`Matcher.cpp:251`) and old data is not cached
   (`MaskedCcoeffMatcher.cpp:146`); a load between the reading of the image and of the
   revision files the plan of the old image under the new revision
   (`OldDataNotCached`, `MCResources.cfg`).
10. The same binding, and a load that drops an image and then fails
    (`TemplResource.cpp:88`, `99`): it keeps the revision, under which the name is then
    another image (`RevisionNamesImage`, `MCResources.cfg`).
11. `LinkStop`, "停止任务" (stop the tasks, `TaskQueueViewModel.cs:302`), stops nothing: the
    view models are given another `RunningState` than the one that is set
    (`Bootstrapper.cs:44`; `LinkStopStops`, `MCGui.cfg`).
12. "窗口关闭" (the window closes, `RootViewModel.cs:67`): closing it while the message thread
    logs to it leaves the two threads waiting for each other (`AsstProxy.cs:214`;
    `WindowCloses`, `MCGui.cfg`).

## 5. Proofs

`AssistantProofs` proves, for every set of clients and every bound on the number
of chains, from `ClientsAssumption` (the call thread is a client, `Nobody` is
not, the bound is a number):

| Theorem | Statement |
|---|---|
| `TypeCorrect` | `Spec => []TypeOK` |
| `StopAlwaysSeen` | `Spec => []StopIsSeen` |
| `WorkerNeverLeftParked` | `Spec => []NoLostWakeup` |
| `PopTakesRunning` | `Spec => []FrontIsRunning` |
| `QueueAlwaysFresh` | `Spec => []QueueIsFresh` |
| `ImplementsTaskService` | `Spec => RefinesTaskService` |
| `ReportsAlwaysWellFormed` | `Spec => []ReportsWellFormed` |

Three inductive invariants carry them. `FlagsInv` is `StopIsSeen`, `NoLostWakeup`
and `ExitFirst` (the destructor has set `m_thread_exit` before anything else it
does). Without the last, a worker that parks after the destructor's notify could
not be excluded: it is `m_thread_exit`, already set, that keeps it from parking. `QueueInv` is
`FrontIsRunning` and `QueueIsFresh`; neither is inductive alone, since popping is
right because the front is the chain that ran, and the front is the chain that
ran because what is queued is newer than it. Each proof has a step per action.
The refinement maps the abstract queue to `Behind` (the list without the chain
being executed) and the abstract current chain to `Current`; under `QueueInv`
`WorkerTake` is `Begin`, `ChainEnd` is `End`, `AppendTask` is `Submit`,
`StopClear` is `Discard` or a stutter, and `PopFront`, which removes a chain
that a stop has let in, is `Discard` too. `LogInv` says for every place of
`working_proc` what has been said of the current chain (`LogStage`), and that of a
chain still queued nothing has.

About `Gui` it proves, when the UI thread is one of the instance's clients and not its
call thread (`Windowed`, which the run checks of its instance), for any number of
ticked tasks and clicks:

| Theorem | Statement |
|---|---|
| `WindowIsClient` | `GuiSpec => Spec` |
| `OnlyCloseStopsAlways` | `GuiSpec => []OnlyCloseStops` |

The first is a refinement: whatever is clicked, a step of the GUI is one of the
instance or leaves it alone, so that the theorems above hold under the window too. It
needs `StateInv`: the `RunningState` of the view models never changes, which is why
`LinkStop`, whose one step stands for a whole `stop()`, never takes it. For the second,
`WindowInv` says that until the window closes the working thread is in a chain, or in
the delay after one, only while the instance is not idle, and that the pool's connect,
which has made it non-idle too, holds `m_mutex` and finds the working thread in
neither. So neither of the two stores that end a connect or park the worker falls
into a chain, and no message of it reads idle.

`AsyncCallsProofs`, for every set of callers and every bound on the numbers, from
`CallsAssumption` (the bound is a number):

| Theorem | Statement |
|---|---|
| `CallsTypeCorrect` | `Spec => []TypeOK` |
| `CompletionByCounter` | `Spec => []CompletedIsPrefix` |
| `NobodyParkedInVain` | `Spec => []ParkedForAReason` |
| `InfoAlwaysInOrder` | `Spec => []InfoInOrder` |

The queue is ordered because a number is drawn and its call pushed under one hold of
`m_call_mutex`: `CallInv` adds that a caller between the two holds the mutex
alone with a number above everything queued, executed and completed
(`NumberedIsNewest`), and that no number in use is above the counter
(`Drawn`). `ParkInv` adds that `m_thread_exit` is set exactly from the destructor's
first step on, so that whoever parks later has seen it. `ToldInv` adds the moment
between the publication of a number and its message, when nothing that was told is
as new as the counter.

`CallbackQueueProofs`, for a ring of every size above one and any number of messages,
from `RingAssumption`:

| Theorem | Statement |
|---|---|
| `QueueTypeCorrect` | `Spec => []TypeOK` |
| `WorkerNeverUsesFreed` | `Spec => []WorkerTaskAllocated` |
| `CallbackInOrder` | `Spec => []DeliveredInOrder` |
| `InvocationAlwaysOnStack` | `Spec => []InvocationOnStack` |
| `QueueFreedLast` | `Spec => []FreedLast` |

`QueueInv` counts: a task's references are those of the queue or the worker that
popped it and of the shim from its addref on (`Counted`); as the shim makes one call
at a time, at most one task is queued, the last one (`OneQueued`), which is why the
missing reference between push and addref is harmless to the worker, though not to
the caller (section 4).

`ProcessTaskProofs`, for any task data that `TaskDataAssumption` admits (every list
names tasks that exist), any chain and any depth of subs:

| Theorem | Statement |
|---|---|
| `EngineTypeCorrect` | `Spec => []TypeOK` |
| `StopLetsOneActionThrough` | `Spec => []AtMostOneLateAction` |
| `ExecutionsWithinLimit` | `Spec => []WithinLimit` |
| `VerdictAlwaysMatches` | `Spec => []VerdictMatchesErrors` |

`ProcessInv` says of every `ProcessTask` on the stack that it keeps its limits and,
while it is about to act, has counted the action already (a task that gives another
one back may reduce a count to nothing, never one that is being used); that all but
the innermost stand in their subs; and that after the one late action nobody stands at
an action again, since the poll of `need_exit` comes first. `ErrorInv` follows the
failure of a chain from the innermost frame to the verdict.

`UpdaterProofs` proves of the update, for every set of paths and every set of plans,
from `PlanAssumption`:

| Theorem | Statement |
|---|---|
| `UpdaterTypeCorrect` | `Spec => []TypeOK` |
| `OldAlwaysKept` | `Spec => []OldKept` |
| `SuccessMeansInstalled` | `Spec => []InstalledOnSuccess` |

`OldKept` says that a copy exists (of a directory, one that the program took for
complete), not where; the next step could be the one that
destroys it. `KeptInv` says where: entries of the plan not yet reached are whole
(`AheadWhole`; this needs that a plan names each path once), the entry about to
be installed over has its old version aside (`InstallAside`), and what the next
boot will delete is kept elsewhere, in a backup that the rollback will not take
back since the path is still occupied (`DoomedAside`). For a success, `InstallInv`
says that what the loop has passed is in place, and stays there through the clean-up.

and of the process around it, from `PlanAssumption` and `ProcessAssumption` (two
constants are Boolean):

| Theorem | Statement |
|---|---|
| `ProcessUpdates` | `ProcSpec => Spec` |
| `UpdateIsExclusive` | `ProcSpec => []Exclusive` |
| `ProcessKeepsOld` | `ProcSpec => []OldKept` |
| `StatusAlwaysTruthful` | `ProcSpec => []StatusTruthful` |

The first is the refinement: on the variables of `Updater` the process takes its
steps and no others, so `ProcessKeepsOld` follows from `OldAlwaysKept`. `Exclusive`
speaks of the stage of work only; `MutexInv` adds what makes it inductive: a mutex
that is held shuts every instance out, it is held from its acquisition to its
release, and nobody holds it while the process waits, ends or is killed.
`StatusTruthful` speaks of the end; `StageInv` (which steps of `Updater` go with
which stage of the process), `CountInv` (the progress is what lies behind the entry at
hand), `StatusInv` (once both status files were seen to, only the one that fits is
there) and `InstallInv` say what is known on the way there.

`ControllerProofs` proves, for every device, configuration and bound (it needs no
assumption on a constant):

| Theorem | Statement |
|---|---|
| `CallsAlwaysLegal` | `Spec => []CallsInv` |
| `AlwaysLifted` | `Spec => []Lifted` |
| `NullUseBounded` | `Spec => []NullUse` |
| `ReconnectsNeverNest` | `Spec => []NoNestedReconnect` |

All four properties depend on what is on the stack below the call that takes the
next step. `Legal` says it for every pair of neighbours: which function may stand on
which place of another (`Serves`), and for the calls of a gesture with which event
(`Allowed`). A step changes the innermost frame, adds one to it or removes it, and the
lemmas of the proof (`JumpPlain`, `CallPlain`, `ReturnPlain`) carry `Legal` through
each kind; a label may be exchanged for another of the same function (`Kin`). A
reconnect therefore has above it one command that may not reconnect, or a release,
and the I/O of that: never another reconnect. `BottomInv` adds that the gesture at the
bottom is one of those that the controllers make and not past its last event.
`TouchInv` says where the toucher is known to be there: from the question after it
(`call_and_hup_minitouch`, the answer of a rewrite) to the next key press. `FingerInv`
says where a finger may be down: in a gesture whose first event is over and whose lift
is still ahead (`DownInv`), and, if a write failed after which minitouch was started
again, not at all. That is why no return of a gesture leaves it there, although most
of them have no lift of their own.

It also proves `NcAlwaysServed`, `Spec => []NcServed`, on top of `CallsInv`. `NcServed`
relates what the controller remembers (`inited`, `method`) to the socket,
and any command may end in a `release()` that closes it. `NcInv` says why none does
harm, in three parts. `Held` is what is known of a call by where it stands: while
`connect` has commands in progress the controller is not said to work, and nc runs
only on a platform that has a socket and with the answer coming by it. `Upon` is what
a call has to do with the one that waits for it: the first way that is probed is nc,
the answer of an nc screenshot comes from an nc command, and one that a reconnect has
repeated is kept as a picture only if the socket listens. `Shown` is about the
innermost call: `release()` begins only when the controller is not said to work, and
an nc command has printed a picture only if the socket listens, or a stop makes
`call_command` throw it away. A step that changes `inited` or the socket could
disturb the calls below; `TailPlaces` shows that none of those that would mind
(`connect`'s, a reconnect about to answer) is there at such a step.

`StopProofs` proves `StopAlwaysHeeded`, `Spec => [](StopHeeded /\ late <= 3)`, for
every `MaxLate >= 4`: of the calls of a chain, for only there is a stop seen. `MaxLate` bounds only what is counted, and three commands do
happen after a stop, so a smaller one could not tell three from more. `StopHeeded`
counts what was begun; what is inductive is what may still be begun. Every place in
every function owes the call that waits for it a number of commands, on top of what
that one owes itself: at most `Most` of them if a stop comes now, and `Least` if the
answer that it waits for is a failure, for most functions give up then, and that is
why three are enough. `Debt` is the pair, and `LateInv` says that the calls in progress
can be given debts (`Chain`), each computed from the one below, such that
`late + Due <= 3` for the innermost one, and that a call which has more to do stands
only where there is room for it (`Room`): a reconnect, which waits, connects and
repeats its command, never on a call that owes more than one on a failure; and while
the controller is said to work, a command that may reconnect has that room and no
installation is under way (`Able`). `Debt` depends on
nothing but the call, the kind of the touch tool and the kind of the controller, so a
step that leaves these two alone disturbs the innermost debt only (`RestOwed`); the
rest of the proof is a table of what each place owes, and one lemma for each kind of
step (`ReturnLate`, `JumpLate`, `CallLate`, `AgainLate`).

`ResourcesProofs` proves, for any directories, threads, loads and any bound of the
cache, from `BytesAssumption` and `MaxBytesAssumption` (sizes and the bound are numbers)
and `NoImageAssumption` (the value that stands for no image is none). What `TaskData`
makes of its files and answers (`LoadTasks`, `GetTask`, `Masked`) is a parameter here, of
which nothing is assumed: the theorems hold whatever tasks there are.

| Theorem | Statement |
|---|---|
| `ImagesHeld` | `Spec => []ImagesInv` |
| `PlansMatch` | `Spec => []PlanMatches` |
| `CacheAlwaysAccounted` | `Spec => []CacheAccounted` |
| `AlwaysStaysFound` | `Spec => StaysFound` |

`PlanMatches` speaks of a thread about to match, but its plan may have been made by
another, several loads ago, so `ImagesInv` follows every image that anybody holds, a
thread or a plan in the cache, with the name and the revision it was fetched under
(`AllHeld`). `HeldNow`: such a revision is not a later one than there is, and if it is
the present one, and no failed load has dropped the name under it, then the image is
the one `TemplResource` has. `HeldOnce`: two images held under one key are the same;
it is what remains of `HeldNow` when the revision has gone by, and alone it would not
survive the next fetch. `PlansKeyed` and `Threaded` say that a plan is found under
the key it was made for, and what a thread holds where. A load either makes a new
revision, which nothing held has, or keeps it, and then the images it lost are in
`replaced` (`LoadBrings`); `StaysFound` follows from the same lemma, and from a path
being entered for every image read (`TemplOK`).

Of the cache, `CacheInv` says that some function sums its list from the front (`Sums`)
and that the total is where it ends. To evict is to keep a prefix of the list, whose
sum is an earlier value of the same function (`EvictedIsPrefix`); to move a plan to the
front exchanges the weights of a stretch (`MovedToFront`). The bytes and the rounds of
the eviction are recursive functions (`BytesOf`, `Evicted`), and that they are these
sums and prefixes takes induction over numbers. The library's induction theorems cannot be
used by the provers installed; `Least`, that every nonempty set of numbers has a least
element, is derived from the well-foundedness of the subsets of an interval and takes
their place: the first number for which a statement fails is looked at.

Only model-checked: everything about liveness (the prover has no rules for fairness
that would do here: `StopQuiesces`, `DestroyReturns`, `BlockedCallReturns`,
`ShimReturns`, `StopReturns`, `Returns`, `UiReturns`, `StartedRuns`), and what is
computed by recursion over data: `PlanAsWritten`, `ExpressionsMean`, `TemplatesLoaded`,
`CheckedClosed` and `AnswersLikeFresh`. Their modules (`TaskData`, `TaskExpressions`,
`UpdatePlan`) have RECURSIVE operators, about which the prover can show nothing; this is
why the tasks are a parameter of `Resources`.

## 6. Not modelled, and the plan

Of the safety properties nothing is left to prove but those five about the tasks and
the plan file. They would first need `TaskData` without recursion, its answers as the
least solution of what one task asks of others.

Of components that are modelled in part:

- `Assistant`: `set_task_params` and `set_instance_option` change data no property
  looks at; `ctrl_attach_window` is the twin of `ctrl_connect`.
- `ResourceLoader`'s load thread: nothing calls `add_load_queue`, so it never has
  work. `OnnxSessions`: no directory of `load()` feeds it.
- Two threads inside `TaskData` or `TemplResource` at the same moment: neither has a
  lock, so anything may follow, and there is no set of outcomes to choose from.
- adb-lite: a request that the socket takes in parts, and the timer of its reads,
  which is set on an object that is not waited for (`client.cpp:117`). Win32's
  `CancelIoEx`, after which a read is not waited for.
- Emulators: the handles of their interfaces, which a reload does not close.
- Connects ignore stops, see `StopHeeded`: how long one then lasts is `Returns` alone.
- Updater: the log and its rotation, the console, `--test-plan`, the window beyond
  its count.
- GUI: settings (`ConfigurationHelper.Save` does not replace its file in one step),
  the saved task list, the look of the windows.
- Wine bridge: the forwarding functions translate paths and keep no state.

Not planned: image processing (numerical), the logger and the utilities, the
bindings (thin wrappers of the C API), `ReportDataTask` (no task starts it),
third-party code and build files.
