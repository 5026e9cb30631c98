# Marcel: a verification project

Marcel shows C++ slides whose code is compiled and run by Cling while it is
being edited. Slide code crashes and hangs, so it runs in a process of its
own, `marcel_worker`; the UI process supervises it, sends it sources and
input, and displays the textures it renders. These modules model that
supervision, the conversations between the processes (compiling, rendering,
input and clipboard), the interpreter all slides share, the editor's files, and
the snapshot tool with its worker; TLC checks them, and TLAPS proves the most
important safety properties of each.

Paths below are relative to the repository root.

## 1. Inventory

| Component | State | Operations | Talks to |
|---|---|---|---|
| `SupervisorLogic` (`src/supervisor`) | one object: life-cycle flags, backoff, crash times, four deadlines, poison | events `on...`, `update`, `shouldPing`, `requestRestart`, `takePoisonedSlide` | called by `RemoteEngine` only; clock is injected |
| `RemoteEngine` | streams (textures, front per slide), `frame_outstanding_`, releases due after the swap, known source files, request ids | once per UI frame: `pump` (reap, drain, update, ping), `compileSetup`/`compileSlide`, `endFrame`, `postSwap` | worker over the channel; `SourceFile` flags; GL |
| `WorkerProcess` | pid, channel, stderr pipe | `spawn`, `terminate`, `kill`, `reap` (closes the channel) | kernel |
| `WorkerApp` (`src/worker`) | event queue, per slide: source, renderer, buffer ring, announced buffers | IO thread: `post`; work thread: `run` (compile, frame, release, clipboard) | main over the channel; Cling; GL |
| `BufferRing`, `Channel`, `Serialize`, `Protocol` (`src/ipc`) | ring: busy flags and next; channel: a socket | `acquire`, `release`; `send`, `recv` | both processes |
| `SourceFile`, `Presentation` (`src/slides`) | text, dirty, verdict flags, request id | `setText`, `execute`, `save`, `reload` | editor, `RemoteEngine`, engine |
| `Editor` (`src/editor`) | editors per tab, files to reload | `Render`, `TrySave`, reload prompts | `Presentation`, file system |
| `ClingEngine`, `MarkerExtract` (`src/engine`) | interpreter, transactions | `compileSetup`, `compileSlide` | worker |
| `SlideView`, `SlideInputMap` | pressed buttons, hover | `draw`, `endFrame` | `RemoteEngine` |
| `SlideRenderer`, `HeadlessGL`, `TextureExport`, `TextureImport`, `ShmBuffer` | GL and EGL objects, memfds | render, export, import | driver |
| `stdcapture` | pipe, reader thread, buffer | constructor, destructor, reader | process-wide stderr |
| `marcel_snap` (`src/tools`) | one run | drives a worker from the command line | worker |
| `main.cpp`, search, fonts, DPI | window and settings | main loop | all |

What is hard here:

* **Crashes at any moment.** The worker dies in user code, in the driver or by
  the watchdog's signal, with messages unread in both directions. Main must
  forget exactly what belonged to the dead process.
* **Three threads of control in two processes** (UI loop, IO thread, work
  thread) over ordered channels, where each side's picture of the other lags.
* **A resource with remote ownership**: three buffers per slide, handed out by
  the worker, displayed by main and released only after a swap.
* **Deadlines and retries**: ping, frame, compile and queue deadlines, each
  suppressed by other state; backoff and the crash-storm cutoff.
* **Orphaned requests**: the user edits while the old text compiles.
* **One interpreter for all slides**: a name means what the text compiled last
  made of it, and a slide may be evaluated long after it was compiled.
* **Input for a frame that is late**: presses and releases are gathered while a
  frame is out, and sent, or dropped, with the next.
* **A sequential tool with many exits**: `marcel_snap` has a dozen early returns
  and an alarm, and each must leave the right exit code and no worker.

What makes each part correct is stated as the properties of section 3;
`PROJECT.json` lists the hazards with the lines where they bite, and for each
the properties that cover it, or why none does yet.

## 2. Modules and the code

### SupervisorLogic, WorkerLifecycle, CrashStorm, SupervisorLogic_proofs

`SupervisorLogic.tla` is `src/supervisor/SupervisorLogic.{h,cpp}`: the object is
the record `logic` with the class's fields, and every method is an operator
from record to record (`OnWorkerExit`, `Update`, ...), so that other modules
call the methods as the code does. Time is an integer clock; `Second` is the
number of ticks in a second. The specification in the module drives the object
by the contract in the header: an action returned by `update()` is carried out
before anything else, messages arrive only while a process exists, one
FrameBegin is outstanding at a time; apart from that events come in any order.

`WorkerLifecycle.tla` is what the policy promises in six phases (stopped,
waiting, spawning, running, killing, gave up) and a crash count.
`CrashStorm.tla` composes the policy with a ghost history of all deaths since
the last manual restart and states the cutoff and backoff rules against it.

### BufferRing, BufferLease, FrameStream, BufferLease_proofs

`BufferRing.tla` is `src/ipc/BufferRing.h`. `FrameStream.tla` composes rings with
`RemoteEngine`'s frame path, the IO thread and the work thread:

| TLA+ | code |
|---|---|
| `ui.phase` reap, drain, update, frame, swap | the order of `pump`, `endFrame`, `postSwap` in the main loop |
| `streams[s]` | `RemoteEngine::Stream`; a texture is named by the memory it samples, `<<generation, buffer>>`, so that a deleted one can be told from a live one |
| `ui.retiring` | `release_after_swap_` |
| `toMain`, `toWorker` | the socket; cleared when the process is reaped or spawned |
| `worker.queue`, `IORecv` | `WorkerApp::post` on the IO thread, with its mailbox rule |
| `worker.job` | the FrameBegin being worked on, slide by slide; results are a set instead of a vector |
| `HandleSetSource` | a source is compiled: the slide has something to show afterwards, or (fault `blank`) no longer |
| `Faults` | export fails, import fails, shm buffer cannot be made, exception with an empty message, a slide left with nothing to show |

A kill is a `Crash`: the worker may go on for a while after SIGTERM and then
dies. A crash loses the worker's memory and its unread input; what it had sent
stays readable until it is reaped, and `Reap` comes before the drain, as in
`pump()`. `BufferLease.tla` is what ring, announces, promotions and releases
promise together: each buffer has one owner (free, worker, main, lost), which
only passes between neighbours in that cycle. Slides are numbers, since they are
indices that both processes walk in order.

### CompilePipeline, CompilePipeline_proofs

The compile path, with the supervisor's methods of `SupervisorLogic.tla` called
where `pump()` and `handleMessage()` call them:

| TLA+ | code |
|---|---|
| `files[s]` | the compile flags and `compile_request_id` of `SourceFile` |
| `Type`, `Execute`, `RestartWorker` | typing (`setText`), Ctrl+Enter (`execute`), the menu and crash-panel buttons |
| `Reap`, `Recv...`, `UpdateSpawn`/`Kill`/`None`, `Submit` | `pump`, `handleMessage`, `submitIfNeeded` file by file in order |
| `toWorker` | the socket and the worker's queue: both are first-in first-out for SetSource, and both die with the worker |
| `StartCompile`, `FinishCompile` | `handleSetSource` up to and after the compile |

A text is of one of four kinds: good, bad (an error), incomplete (the validator
does not accept it) and fatal (its compile crashes or hangs). Time is left out:
an armed compile deadline may or may not have passed in any frame, and the
backoff may or may not have elapsed. All crashes count into one storm. Request
ids are only compared for equality, so an id that nobody remembers is used
again; the `rev` that a request carries and the variable `hist` exist only for
the properties. The handshake and pings are left out: before its engine is up
the worker just does not take requests, and a ping timeout is a `Crash`.
Sending a source fails exactly if the process is gone.

### EditorFiles, EditorFiles_proofs

The editor against a disk that other programs write to. `files[f]` is a
`SourceFile` (text, `dirty`, `needs_reload_check`), `shown[f]` the text widget,
`prompt` is `files_to_reload` and `dialog` whether the modal dialog made of it
is open (it opens at the end of the frame). Modification times are only ever
compared for equality with `last_write_time`, so the set `touched` of files for
which they differ stands for both. One action is one event of a frame: the
check of a file when its tab is drawn, a key, a menu item, a save, an answer.
The dialog keeps keys and menus from the widgets, but not Ctrl+S, which
`TrySave` reads from the keyboard state. A change that the Edit menu makes in
the widget does not reach the `SourceFile`: the widget's `Render` clears its
changed flag first (`MenuEdit`). `kept` and `last` are history, for the
properties. The widget returns the text it was given: tabs and carriage returns
are not modelled.

### Interpreter, SlideSession, SlideSession_proofs

`Interpreter.tla` is `ClingEngine`'s compile and render path as operators on one
file's state (`function`, `bound`, `tx`) and on the interpreter's names. All
texts define the same names, which is the worst case and the usual one (every
slide under `documents/` calls its callable `update`); a name then means what
the last text that ran made of it, so the names are the id of that text. What
Cling makes of a text is one of seven kinds, taken from a set.

`SlideSession.tla` puts it behind the socket and adds what a slide is told:

| TLA+ | code |
|---|---|
| `Frame(V, over, c)` | one UI frame after `pump()`: `submitIfNeeded` for every file, `SlideView::draw` for every slide in view `V`, `SlideView::endFrame` with `RemoteEngine::endFrame`; `c` is what the user pressed or released |
| `view` | `SlideView`'s hovered slides and drag owner, `RemoteEngine`'s gathered events, wants, `frame_outstanding_`, clipboard focus |
| `Recv...`, `Reap`, `Spawn` | `pump()` as far as it touches these |
| `toWorker` | the socket and the worker's queue, both in order; one frame is out at a time, so the mailbox rule is idle (`OneFrameAtATime`) |
| `HandleSetSource`, `HandleFrameBegin`, `HandleClipboardData` | `WorkerApp`'s handlers with `SlideRenderer`: the slides with content run, take their events, and may paste or copy |
| `lost` | history: the inputs whose release cannot reach their slide, by one of the causes `LostAfter` names |

Dear ImGui is external: while the left button is held only the window it was
pressed in can be hovered; losing the focus clears a slide's keys and, in some
versions, its buttons (both are allowed). Positions, the wheel, characters and
buffers are left out. A `scene` fixes, per behaviour, which files and kinds of
text there are, what may be in view, which inputs are used and how often each
thing happens.

### Capture, Snap, Snap_proofs

`Capture.tla` is `src/system/stdcapture.h`: redirection, pipe, reader thread and
destructor, as operators on one capture, counting output in chunks. A process
that the compiled code starts inherits the pipe (an heir).

`Snap.tla` is `src/tools/snap_main.cpp` from the spawn of the worker to the exit
code, with that worker's `main()`, threads, compile (around a capture) and frames
(with `BufferRing`):

| TLA+ | code |
|---|---|
| `tool.pc` | where `main()` is; `tool.looked`: in `recvUntil`, between an empty socket and `waitpid` |
| `KillAndEnd`, `Ended` | the early returns (SIGKILL, `waitpid`, return) |
| `TimesOut`, `Disconnects`, `FindsNothing`, `LooksAtWorker`, `Recv...` | one round of `recvUntil`: deadline, socket, `waitpid` |
| `Late`, `OnAlarm` | the overall deadline; the SIGALRM handler, which may run at any moment after it |
| `TakeHello` | `worker_main`: GL set-up, version, the answer, the IO thread |
| `TakeSource` ... `SendResult` | `handleSetSource`, with the reader thread's steps between |
| `TakeFrame` | `handleFrameBegin` for all slides of the frame |

The worker may crash at any moment, a worker that cannot be executed is one that
crashes at once (exit code 6), an answer too large for a message, a
CompileResult or a FrameDone, is not sent and nobody is told, and an exception
with an empty message keeps its buffer. The capture's reader may fail in a
`read()`: interrupted or not, it goes on to look at `stop` and drain, and a
failure in that last drain ends it with output left in the pipe. PNG files that
cannot be written change no exit code and are left out.

Three troubles leave the exit code at 0, in the code and in the model. A slide
that throws an exception with an empty message sends no error (WorkerApp.cpp:304),
so the tool looks at none (snap_main.cpp:587), although the list at
snap_main.cpp:23-24 gives a render exception the code 5 without exception. A
slide that has no free buffer or nothing to call is not in the answer at all.
And a worker that dies after its last answer has done its work. `ExitCodeHonest`
names the three, and allows 0 for no other trouble.

### Watchdog, Watchdog_proofs

The supervisor's operators with their real deadlines, `RemoteEngine`'s UI frame
cut down to what feeds them, and a worker that takes time:

| TLA+ | code |
|---|---|
| `Reap`, `Drain`, `Spawn`/`Kill`/`LeaveAlone`, `Ping`, `Submit`, `EndFrame`, `Begin` | one UI frame: `pump`, the submissions, `endFrame`; it takes no time unless it is `Blocked` |
| `Sent`, `Room`, `Blocked` | `Channel::send`, which waits while the socket to the worker is full, as long as there is a worker |
| `worker.doing` | boot (handshake and GL set-up, nothing is answered), engine (pings are), idle, compile, frame |
| `Tick` | time between UI frames; all time stamps get one older |
| `scene` | how long each takes at most, how long the UI may pause, what may go wrong |

The module instantiates `SupervisorLogic` with the present fixed at 0: the class
only compares times with the present, so times are kept relative to it and the
state space is finite without a bound on the clock. Threads that have something
to do and need no time for it (the IO thread, an idle work thread) do it before
time passes. Manual restarts are left out (`supervisor` and `compile` have them).

The socket to the worker takes `room` messages. `Channel::createPair` asks for a
buffer of one message of the largest size and 8 KB, and nobody reads it before
GL is set up, so two large sources after a spawn make the UI thread wait in
`send`. As long as the set-up ends that is a pause like another: the time stamps
taken before the wait kill no healthy worker (scenes `Crowded`). When the set-up
hangs the UI hangs with it: no ping times out and no signal is sent, because the
thread that would do so is the one that waits. `HangIsKilled` names that state
as its only exception; without it the scenes violate the property. It
contradicts "Never blocks on the worker" (docs/plans/client-server-refactor.md:25).
Once the IO thread reads, the UI never waits for long, whatever hangs.

## 3. Runs

`S` is a safety run, `L` has liveness, `V` shows a disagreement between code
and documentation.

| Run | | Bounds | What it shows |
|---|---|---|---|
| `supervisor` | S | `MCCrashStorm.cfg`: a second is 2 ticks, backoff capped at 2, a storm is more than two crashes in 3 ticks, four ticks of time | no limbo (`NeverStuck`), a dead worker leaves nothing armed, respawn within the cap, the policy implements the life cycle; no spawn in a storm, giving up only in one, backoff applies |
| `frame_stream` | S, L | four settings: one slide in and out of view, the faults but `blank`, two worker generations; the same with `blank` and a failed import only, one generation; one slide in view; two slides in view, export fault | one owner per buffer, three buffers are enough, one frame in flight, transports agree, the promoted texture is live; frames are answered; in a worker that lives on, a visible slide with something to show is rendered again and again, unless its shm buffer again and again cannot be made |
| `compile` | S, L | two decks: setup and one slide with good and fatal texts; one slide with all texts. Two user acts, one crash tolerated | pending count exact, waiting is backed by a request, the right file is blamed, poison lasts, no stale verdict, every file settles |
| `session` | S, L | seven scenes of one or two slides, two buttons and a key, room for two events in a frame | a slide runs its own newest callable; buttons and keys do not stay down but for named causes; pastes catch up |
| `snap` | S, L | a setup and a slide, four frames, a pipe of one chunk, two writes | an exit code only for its cause, and 0 for none but the three that section 2 names; ring never starves, output whole, no worker left, the tool ends |
| `watchdog` | S | ticks of half a second: ping every tick, pong and frame timeouts 2, compile timeout 4, grace 1; six scenes: the slowest worker under a UI that pauses for 3 ticks, a crash, a hang that ignores SIGTERM, a socket with room for one or two messages, an old binary | a worker within its times is never killed; one that hangs and owes an answer is dead within the frame, compile and kill deadlines plus three pauses of the UI, unless the UI waits for it to read while it sets up GL |
| `editor` | S | two files, two texts | no outside change is taken for seen (but for files last answered Keep Changes); no `SourceFile` text that was not loaded or saved is discarded without a question |
| `frame_tearing` | V | one slide, export fault | rendering into a displayed buffer after the fallback to shm |
| `frame_last_image` | V | one slide, two generations | the last image is deleted by an announce and never replaced |
| `compile_poison` | V | one slide, no edits | a crash whose CompileBusy was not read poisons nothing |
| `compile_resubmit` | V | one slide, no edits | an incomplete text is submitted again and again |
| `session_literal` | V | two slides with one name, one edit, one crash | a lambda literal is parsed again when rendered and then uses another slide's names |

Where a model has several settings, decks or scenes, they are the possible
values of a variable that never changes (`setting`, `deck`, `scene`), so one run
checks them all. Deadlock is checked everywhere but in `snap`: the tool ends.

Why the bounds are enough: the ring has its real size (3). Everything that
crosses a worker generation is visible with two of them, since a death resets
the worker completely. Two slides are enough for an export that fails between
the slides of one frame, and two files for results of one file that arrive
while another compiles; slides do not otherwise interact. Two user acts allow
an edit and its execution, two executions, or one and a restart. The crash
counts are small because the storm rule is the same for all of them
(`supervisor` checks it with history, and the proofs hold for every
`StormCount`). Two texts are enough for the editor, which only compares them;
files meet in nothing but the dialog, so two of them do. In `session` two slides
share names and a drag, and the counts of each scene (2 edits, 5 moves, 3
copies, 1 crash at most) let what the scene is about happen twice. In `snap`
four frames are one more than the ring has buffers, a pipe of one chunk makes
the writer wait for the reader, and two writes let one come after the reader's
look at `stop`.

In `watchdog` the ratios are the code's (0.5, 2, 1, 30 and 0.5 s) with the two
long timeouts shortened; stamps are not told apart beyond the longest deadline
plus one (`Horizon`). "Within its times" means: GL set-up ends within ping
interval and pong timeout, set-up, engine and the oldest source's wait within
the compile timeout, each compile and each frame within its own timeout. With a
source to submit after the spawn, which there is whenever a file is not marked
as an error, the frame deadline does not run while the engine is built. Two
sources let one wait behind the other. A worker that hangs and is asked nothing
is not noticed, and need not be.

Fairness (`FrameStream!Fairness`, `CompilePipeline!Fairness`): the UI loop and
the IO thread run for ever, so they are weakly fair as a whole. The work thread
is weakly fair together with `Crash`, since slide code that hangs is killed by
the watchdog. No slide need ever be compiled or gain anything to show: that it
has something is a premise of `KeepsRendering`. For compiles: a worker that was sent a signal dies (SIGKILL
follows SIGTERM); a compile that hangs keeps its deadline armed while time
passes, so that the kill comes (strong fairness of `UpdateKill`, only for a hung
compile); an armed spawn is due after at most the backoff cap. In `SlideSession`
the UI draws, receives, reaps and spawns, and the worker works. In `Snap` only
the tool runs and time passes: nothing is asked of the worker, and the alarm
need not go off. No fairness is put on crashes, edits, or kills of a healthy
worker.

Each property has a mutant, defined in the module of the definition it replaces
and marked there: a plausible bug of that code which violates the property
under the run's own configuration.

## 4. Proofs

`SupervisorLogic_proofs.tla`, for all values of the constants that satisfy the
named assumptions of `SupervisorLogic.tla` (`SlidesAssumption`,
`ConfigAssumption`, `BoundAssumption`, and `ShiftAssumption`, which says that
2^k is a natural number and not 0 for k up to 30: the provers do not know
exponentiation; TLC evaluates it):

| Theorem | Statement |
|---|---|
| `TypeCorrect` | `Spec => []TypeOK` |
| `DeadWorkerIsQuiet` | `Spec => []DeadIsQuiet` |
| `SupervisorNeverStuck` | `Spec => []NeverStuck` |
| `RespawnBounded` | `Spec => []RespawnWithinCap` |
| `Refinement` | `Spec => ImplementsLifecycle` |
| `CutOffIsExact` | `StormSpec => StormIsCutOff` |
| `BackoffIsApplied` | `StormSpec => BackoffApplies` |

The inductive invariant is

    IInv == TypeOK /\ DeadIsQuiet /\ NeverStuck /\ RespawnWithinCap
              /\ BeforeStart /\ CrashRecord

`NeverStuck` is not inductive alone: that a manual restart after giving up arms
exactly one spawn needs `DeadIsQuiet` (no restart request is left over), and
the equation about the crash count in the given-up case needs `CrashRecord`
(the crash record has at most StormCount + 1 entries, and StormCount at most
while the supervisor goes on), because `PopOlderThan` may shorten it.
`BeforeStart` says that before `start()` there is no worker, no spawn owed and
no giving up, which `NeverStuck` leaves open. The proof has one lemma per method
(what it does to the type, and which fields it changes), then one step per
action. The refinement maps the flags to a phase; each action maps to a step
of the life cycle or to a stutter.

The last two are about `CrashStorm` and need `StormInv` on top of `IInv`:
`crash_times_` is the end of the true history of deaths, what it has dropped of
it lies outside the window (`EndOf`), a living worker was born after the last
death of the history, and the backoff index is 0 exactly until the first death
(while the supervisor has not given up). `PopsTheOld` says that popping the
front of an ordered sequence drops what is too old and nothing else;
`DeathIsRecorded` takes that and the reset after a stable run, which drops only
deaths older than the window because the dead worker has outlived it.
`RecordCounts` turns `EndOf` into the two inequalities of the cutoff.

`EditorFiles_proofs.tla`, for every set of files and texts (assuming only that
`Missing` is not a text):

| Theorem | Statement |
|---|---|
| `FilesInSync` | `Spec => []InSync` |
| `NothingDiscardedSilently` | `Spec => NoSilentDiscard` |
| `FilesTyped` | `Spec => []TypeOK` |

from `IInv == TypeOK /\ InSync /\ CleanMeansKept`. The last conjunct (a file
without the unsaved mark holds what was last loaded or saved) is what makes the
action property hold, since the check reloads exactly the files without it.

`BufferLease_proofs.tla`, for every set of slides, number of buffers, fault and
number of worker generations:

| Theorem | Statement |
|---|---|
| `OneFrameAtATime` | `Spec => []OneFrameInFlight` |
| `BufferLeaseHolds` | `Spec => ImplementsLease` |
| `DmabufNeverTears` | `Spec => []NoTearingDmabuf` |
| `TransportsAgree` | `Spec => []TransportAgrees` |
| `DisplayIsLive` | `Spec => []DisplayedLive` |
| `ThreeBuffersAreEnough` | `KBuffers >= 3` implies `Spec => []EnoughBuffers` |
| `FramesTyped` | `Spec => []TypeOK` |

`OneFrameInFlight` follows from `FrameInv`: in a running worker, the FrameBegins on the socket and in the
queue, the frame being worked on and the FrameDones on their way back number one
or none, as `frame_outstanding_` says; without a process it is not set; results
and releases are finite, so that sending them in some order adds no frame. The
interesting step is `IORecv`: because the arriving FrameBegin is the one in
flight, the queue holds none, and the mailbox rule replaces nothing.

The refinement rests on `LeaseInv`: while a worker runs, every buffer of every
slide is held at most once, and is busy in the ring when it is. Held by the
worker: the render target and the results of the frame being worked on. Held by
main: a FrameDone on the socket, the front, a retiring texture, a release on the
socket or in the worker's queue. The latter are counted and not only found,
because two FrameDones with one buffer would be two holds of one kind. A busy
buffer that nobody holds is lost. Each step leaves a buffer's hold alone or makes
one move of `BufferLease` (`Stays`, `Taken`, `HandedOver`, `GivenUp`), and the
count stays within one. The steps with the most to show are the promotion of a
FrameDone (the result's buffer becomes the front, and the one displaced retires)
and the release after the swap (every retiring buffer becomes a message at
once). A death frees every buffer on both sides, and a spawn starts with none
held.

`NoTearingDmabuf` also needs `PictureInv`: a dma-buf texture of the living
generation is displayed only while its buffer is the slide's front, and a
dma-buf result is a picture of the buffer it names. A front is held by main, so
by `LeaseInv` the worker does not render into it. The proof does not go through
for shm, where the run `frame_tearing` has the counterexample. `FramesTyped` is
proved from all three invariants (`LeaseInv`, `PictureInv`, `FrameInv`).

`TransportAgrees` needs `ToldInv`. `ToldAt` says what main will believe of a
slide's transport when it comes to a place in its queue: what the last announce
before that place said, or else what it has on record. The results in an unread
FrameDone agree with it; so do, behind the queue, the results and the target of
the frame being worked on and the buffers the worker has announced. A worker
that has made a shm buffer never returns to dma-bufs, so a buffer it need not
announce again was announced with the transport it still uses.

`DisplayedLive` needs `NewOnes`: a dma-buf whose announce is on the way is not
the front of its slide, and no FrameDone before the announce delivers it, so an
import never replaces the texture on display.

`ThreeBuffersAreEnough` is where the number of buffers matters; `KBuffers >= 3`
is `kBuffersPerSlide` (Protocol.h:23). `LateInv` counts, of every slide, the
displaced buffers whose way back the next frame has overtaken: a buffer is late
when it retires, or when its release stands behind the last FrameBegin, on the
socket or in the worker's queue. At most one is, since `postSwap` empties
`retiring` before `endFrame` may send again, and a FrameBegin that the worker
takes leaves behind it only what came later. When the worker renders, every
buffer that is busy and not lost is the front or late (`FrontOrLate`), which
leaves the third one free.

`CompilePipeline_proofs.tla`, for every presentation, crash limit and number of
user acts:

| Theorem | Statement |
|---|---|
| `PoisonedFileStaysOut` | `Spec => []PoisonStaysOut` |
| `VerdictsAreNotStale` | `Spec => NoStaleVerdict` |
| `PendingCountIsExact` | `Spec => []PendingIsExact` |
| `BlameIsRight` | `Spec => []BlamesTheRightFile` |
| `WaitsAreBacked` | `Spec => []WaitIsBacked` |
| `PipelineTyped` | `Spec => []TypeOK` |

The first needs `NamedIsOut`: a file named at a death carries the error mark and
nothing of it is under way. The second needs `IdsOwn`: whatever carries the
request id a file remembers is a request for its text of now. That a new id is
fresh (`FreshIdIsFresh`) is a pigeonhole argument: n ids cannot use up the
numbers 1 to n + 1. The third, `PendingInv`, counts requests, job and unread
answers, ties `spawned` to the process and says that without a process every
queue is empty. All three use that the queues only ever gain what the UI
submits (`OnlyOld`).

The next two follow what is on the socket. `BlameInv`: every unread CompileBusy
is followed by the CompileResult of its slide, or is the last message and the
worker still compiles (`Paired`), and the supervisor's `busy_slide` stands at
the head of that order. `WaitInv`: every id is in one place only, in a request,
in the compiler or in an answer, and every file that waits finds its own id in
one of them; an answer ends the wait whose id it carries and no other.

`PipelineTyped` takes what the supervisor's methods return from
`SupervisorLogic_proofs` (`Policy`, an instance with the pipeline's values, whose
assumptions follow from those of `CompilePipeline`). Its invariant adds that a
live worker's supervisor has not given up and has room for one crash more on its
record (`Recorded`), the state in which `onWorkerExit` is called.

`SlideSession_proofs.tla`, for every set of slides and every scene:

| Theorem | Statement |
|---|---|
| `SessionTyped` | `Spec => []TypeOK` |
| `SlidesRunOwnCode` | `Spec => []RendersOwnCode` |
| `NoButtonSticks` | `Spec => []NoStuckButton` |
| `KeysFollowFocus` | `Spec => []KeyFollowsFocus` |

`RendersOwnCode` follows from `OwnInv`: a file's text carries its file's id, and so do the sources in
the queue and the `bound` and cached transactions in the worker; what the worker
ran last is such a transaction. Sources are sent in ascending order, and that
such an order exists is proved by least counterexample.

`TypeInv` adds to the types that a slide with a callable has a bound text and the
interpreter some names (`Bindable`): without it the type of what a slide ran last
is not inductive. `HeldInv` says of every slide and input: either the matter is
settled (`Fine`: the end is lost, or the user holds the input there, a button on
the slide of `view.drag`, a key over a hovered one), or the slide is told (`Told`:
every press that can still reach it, and the input that is down already, has its
end behind it, in a later frame on the way or in the events the view keeps). What
the properties ask is the part about the input that is down already; the part
about the presses on the way is what makes it inductive. The step that matters is
the UI frame: `FrameTells` shows that it gathers the end of every input whose
hold it ends, or puts it into `lost`, and `FrameKeepsHeld` that a frame sent or
dropped moves the ends to where `HeldInv` looks for them.

`Snap_proofs.tla`, for every number of sources and frames, pipe size and number
of writes:

| Theorem | Statement |
|---|---|
| `OutputIsWhole` | `Spec => []CaptureWhole` |
| `NoWorkerLeft` | `Spec => []WorkerGone` |
| `ExitCodeIsHonest` | `Spec => []ExitCodeHonest` |
| `RingIsNeverStarved` | `Spec => []RingNeverStarves` |
| `SnapTyped` | `Spec => []TypeOK` |

`CaptureInv` adds to `CaptureWhole` that what was read and what is in the pipe
make up what was written, that a reader that is done has nobody left who could
write and an empty pipe, and that the answer follows the reader's end, be it
done or failed; only a failed one may leave output in the pipe.
`ChildInv` adds that there is no worker before the spawn, and that the tool
rests between an empty socket and `waitpid` only where it waits for an answer.

The other three hold together (`SnapInv`). `PhaseInv` says what the two queues
and the work thread hold at each place of `main`: while it waits for a compile,
the request, the compile or its answer, one of the three; while it waits for a
frame, releases and the request, or announces and the answer. `CauseInv` ties
every exit code, every dead worker and every message of trouble on its way to
what went wrong, and `HonestInv` counts the clean answers: as long as the code
is 0 there is one for every source that is done. `StarveInv`: a busy buffer is
lost, in a release on the way, or in an unread FrameDone, as long as a frame may
follow (`FrameToCome`: a FrameDone that was too large takes its buffers with it,
and no frame follows it); and a FrameBegin has the releases of all busy
buffers before it. Its two steps are the read of a FrameDone, which turns each
result into a release, and the request for the next frame, which is only sent
when no answer is left unread (`FrameKeeps`). `ToldInv` is what a code of 0
needs: as long as the code is 0, a trouble that has a code of its own (a failed
GL set-up, a source that is not clean, an exception with a message) is in the
answer the tool reads next, or was in one that was lost and that the tool waits
for (`GlUntold`, `SourceUntold`, `RenderUntold`); so it has another code before
it comes to the end.

`ProofLemmas.tla` holds what several of these share: least elements of sets of
numbers, images of finite sets, orders of finite sets, and counting the messages
of a queue that are in a given set.

`Watchdog_proofs.tla`, for every set of scenes (so any number of sources, hangs
and crashes, any room in the socket and any pause of the UI) and all deadlines:

| Theorem | Hypothesis | Statement |
|---|---|---|
| `HangIsKilledInTime` | `PingInterval + PongTimeout <= FrameTimeout + CompileTimeout + 1` | `Spec => []HangIsKilled` |
| `OnlyTheHungAreKilled` | every scene `KeepsWithinTimes` | `Spec => HealthyIsSpared` |

The first hypothesis holds for the defaults of `Config` (0.5 s and 2 s against
1 s and 30 s, `src/supervisor/SupervisorLogic.h:41`): the bound that
`HangIsKilled` sets is made of the frame and compile deadlines, and a worker that
hangs in its set-up is noticed by the ping's. The second says what a healthy
worker is: each task takes no longer than its deadline, the set-up no longer than
the pong's, set-up and engine no longer than a compile; and a frame sent to a
fresh worker, which waits for the engine, is in time even so, unless sources go
first. `MCWatchdog` assumes both of its scenes, and TLC evaluates them.

Both rest on `Base`, the types with `Wired` (the supervisor knows whether there
is a worker, whether it is being killed and whether a frame is out; nothing is
outstanding without one) and `Owed`: while the worker lives, each frame and each
source main waits for is in exactly one of the socket, the queue, the work thread
and the answers on the way, and whoever has heard all answers on the way knows
whether the worker compiles.

For `HangIsKilled`, `Overlong` bounds the history variable `stuck` by the age of
the deadline that will end the hang, plus what it took to start that deadline.
Which one that is follows from the worker's task and the mail that is left: the
pong's in the set-up; the compile's while it compiles; the queue's while a source
waits behind a hung task, after one frame timeout, since the first source stops
the frame clock and further ones start nothing again; the frame's otherwise. After the
signal the grace period counts down. Deadlines are read between a drain and the
next tick only, so the bound is up to one pause longer before them (`Extra`). The
steps that matter are `LeaveAlone` (a verdict of None with an empty socket
shows that no deadline has passed) and `Tick`; while the UI waits for a worker
that never listened (`Lost`), no step but a death is possible (`NothingElse`).

For `HealthyIsSpared`, `Punctual` bounds the age of every deadline whose answer is
not on its way by what a worker that is in time has already spent: the ping's by
the set-up, the compile's by the age of the compile, the frame's by the time since the
spawn (`Elapsed`). A source that waits restarts its clock with every answer,
and the bound on it is the same. `Spared` carries that over a death which has not been
reaped yet, so that a verdict of Kill always names a hang.

Only model-checked: everything with fairness, since liveness is out of the
prover's reach.

## 5. Not modelled, and the plan

`PROJECT.json` says for every component what is left out and why. The models
assume: the worker's sends never block, the UI's only in `Watchdog`, and both
stay under the payload limit; a FrameDone is sent after the GPU is done (fences); `known_`
holds every file; the UI's handshake succeeds (the tool's may fail). The hazards
without a property are those, and:

* A worker of another protocol version is respawned until the storm cutoff
  (scene `OldBinary` of `Watchdog` does so), which the plan document does not
  want; every crash is treated alike.
* A first evaluation that fails drops the slide's render function without a word
  (`Dropped` in `Interpreter.tla`); nothing in the repository says what should
  happen, so no property does.

Left to do, in this order:

1. `BlockingChannel`: bounded buffers in both directions (`Watchdog` bounds the
   one to the worker) and the circular wait they allow, payload limit and
   ignored failures, descriptors and truncated datagrams.
2. `MarkerExtract`: error positions with the wrap-around of line numbers.

GL, EGL and memfd calls, byte-level encoding, window layout, fonts and the
header search keep no state that the processes' correctness turns on; they
appear as faults, records or not at all.

The modules meant for proofs declare no RECURSIVE operator, and state their
invariants as conjunctions of named parts.
