------------------------------ MODULE Watchdog ------------------------------
(***************************************************************************)
(* The supervisor of SupervisorLogic with its real deadlines against a     *)
(* worker that takes time: to set up GL (when nothing is answered, not     *)
(* even a ping), to build its engine, to compile and to render.  A worker  *)
(* that keeps within its times must not be killed, however slow the UI is; *)
(* one that hangs must be, whatever else happens.                          *)
(*                                                                         *)
(* A UI frame takes no time, unless the socket to the worker is full: then *)
(* the UI waits in send(), and looks at no clock.  Otherwise time passes   *)
(* between frames, so a UI that is slow is one that lets several ticks     *)
(* pass.  The IO thread and an idle work thread are prompt.  Which slide a *)
(* source is of does not matter here, and neither does what a message      *)
(* carries; the socket to main takes all that main has not read.           *)
(*                                                                         *)
(* Times are only ever compared with the present, so the present is always *)
(* 0 and a tick makes every time stamp one older, down to -Horizon, beyond *)
(* which all deadlines have passed anyway.  The clock has no bound.        *)
(***************************************************************************)
EXTENDS Integers, Sequences, FiniteSets

CONSTANTS
  PingInterval, PongTimeout, FrameTimeout, CompileTimeout,  \* struct Config
  KillGrace,     \* from SIGTERM to SIGKILL
  Backoff,       \* backoff_max, which is the only delay here
  StormLimit, StormSpan,  \* crash_storm_count, crash_storm_window
  Scenes,        \* how long the worker takes, and what may happen
  Horizon,       \* time stamps get no older than this
  MaxSources     \* bound: sources submitted and not answered

VARIABLES
  scene,     \* one of Scenes: never changes
  logic,     \* the supervisor
  ui,        \* RemoteEngine: where the frame is, outstanding frame, kill
  worker,    \* what the worker process is doing, since when, and whether for ever
  inbox,     \* the socket to the worker
  queue,     \* the work thread's queue
  toMain,    \* the socket to main
  faults,    \* history: hangs and crashes so far
  stuck      \* history: for how long a hung worker has owed main an answer

vars == <<scene, logic, ui, worker, inbox, queue, toMain, faults, stuck>>

Sup == INSTANCE SupervisorLogic WITH
         Slides <- {0}, NoSlide <- -1, Second <- 1, BackoffMax <- Backoff,
         StormCount <- StormLimit, StormWindow <- StormSpan,
         MaxPending <- MaxSources, MaxTime <- 0, now <- 0, action <- "None"

(* boot, engine, compile, frame: how long each takes at most.  pause: the  *)
(* longest time between UI frames.  first: how many sources are submitted  *)
(* after a spawn.  room: what the socket to the worker takes.              *)
(* same_version: of the protocol.  hangs, crashes: how many there may be.  *)
(* deaf: user code ignores SIGTERM.                                        *)
ASSUME SceneAssumption ==
  \A s \in Scenes :
    /\ {s.boot, s.engine, s.compile, s.frame, s.first, s.hangs, s.crashes} \subseteq Nat
    /\ {s.pause, s.room} \subseteq Nat \ {0} /\ {s.same_version, s.deaf} \subseteq BOOLEAN
ASSUME DeadlineAssumption ==
  /\ {PingInterval, KillGrace, MaxSources} \subseteq Nat \ {0}
  /\ {PongTimeout, FrameTimeout, CompileTimeout, Backoff, StormLimit, StormSpan, Horizon} \subseteq Nat
  /\ \A t \in {PingInterval, PongTimeout, FrameTimeout, CompileTimeout, StormSpan} : t < Horizon
(* Exponentiation is uninterpreted for the provers; TLC evaluates this.    *)
ASSUME ShiftAssumption == \A k \in 0..30 : 2^k \in Nat \ {0}

NoWorker == [doing |-> "none", age |-> 0, hung |-> FALSE]
Doing(what) == [worker EXCEPT !.doing = what, !.age = 0]
Alive == worker.doing \notin {"none", "dead"}
Killed == [worker EXCEPT !.doing = "dead"]

Init ==
  /\ scene \in Scenes
  /\ logic = Sup!Start(Sup!InitialLogic, 0)
  /\ ui = [phase |-> "reap", todo |-> 0, outstanding |-> FALSE,
           killing |-> FALSE, kill_in |-> 0, idle |-> 0, waited |-> 0]
  /\ worker = NoWorker
  /\ inbox = <<>> /\ queue = <<>> /\ toMain = <<>>
  /\ faults = [hangs |-> 0, crashes |-> 0]
  /\ stuck = 0

-----------------------------------------------------------------------------
(* The UI frame: pump(), the submissions, endFrame(). *)

(* waitpid(WNOHANG), or the SIGKILL that follows a SIGTERM in vain.        *)
Reap ==
  /\ ui.phase = "reap"
  /\ IF worker.doing = "dead"
     THEN /\ logic' = Sup!OnWorkerExit(logic, 0)
          /\ ui' = [ui EXCEPT !.phase = "drain", !.killing = FALSE, !.outstanding = FALSE]
          /\ worker' = NoWorker
          /\ inbox' = <<>> /\ queue' = <<>> /\ toMain' = <<>>
     ELSE /\ ui' = [ui EXCEPT !.phase = "drain"]
          /\ worker' = IF ui.killing /\ Alive /\ ui.kill_in = 0
                       THEN Killed ELSE worker
          /\ UNCHANGED <<logic, inbox, queue, toMain>>
  /\ UNCHANGED <<scene, faults>>

(* What a message tells the supervisor.                                    *)
Heard(m) ==
  CASE m = "ack" -> Sup!OnHandshake(logic)
    [] m = "pong" -> Sup!OnPong(logic)
    [] m = "busy" -> Sup!OnCompileBusy(logic, 0, 0)
    [] m = "result" -> Sup!OnCompileResult(logic, 0, 0)
    [] m = "done" -> Sup!OnFrameDone(logic)

Drain ==
  /\ ui.phase = "drain" /\ toMain # <<>>
  /\ logic' = Heard(Head(toMain)) /\ toMain' = Tail(toMain)
  /\ ui' = [ui EXCEPT !.outstanding = @ /\ Head(toMain) # "done"]
  /\ UNCHANGED <<scene, worker, inbox, queue, faults>>

(* The socket is empty: update() decides.  (Mutant: it does not wait for   *)
(* that.)                                                                  *)
AnyTime == ui.phase = "drain"
Drained == ui.phase = "drain" /\ toMain = <<>>
Verdict == Sup!UpdateAction(logic, 0, Sup!Overdue(logic, 0))
Decided == Sup!Update(logic, 0, Sup!Overdue(logic, 0))

(* fork() succeeds, or fails, which counts as a crash.                     *)
Spawn ==
  /\ Drained /\ Verdict = "Spawn"
  /\ \/ /\ logic' = Sup!OnSpawned(Decided, 0)
        /\ worker' = [Doing("boot") EXCEPT !.hung = FALSE]
        /\ ui' = [ui EXCEPT !.phase = "send", !.todo = scene.first]
        /\ UNCHANGED faults
     \/ /\ logic' = Sup!OnWorkerExit(Sup!OnSpawned(Decided, 0), 0)
        /\ ui' = [ui EXCEPT !.phase = "send"]
        /\ faults.crashes < scene.crashes
        /\ faults' = [faults EXCEPT !.crashes = @ + 1]
        /\ UNCHANGED worker
  /\ UNCHANGED <<scene, inbox, queue, toMain>>

Kill ==
  /\ Drained /\ Verdict = "Kill"
  /\ logic' = Decided
  /\ ui' = [ui EXCEPT !.phase = "send", !.killing = TRUE, !.kill_in = KillGrace]
  /\ worker' = IF scene.deaf \/ ~ Alive THEN worker ELSE Killed
  /\ UNCHANGED <<scene, inbox, queue, toMain, faults>>

(* No verdict; a ping is due or not; the user has executed a file or not.  *)
LeaveAlone ==
  /\ Drained /\ Verdict = "None"
  /\ logic' = Decided
  /\ \E n \in 0..1 :
       /\ n > 0 => Alive /\ logic.compiles_pending < MaxSources
       /\ ui' = [ui EXCEPT !.phase = IF Alive /\ Sup!ShouldPing(Decided, 0) THEN "ping" ELSE "send",
                           !.todo = n]
  /\ UNCHANGED <<scene, worker, inbox, queue, toMain, faults>>

(* send() returns when there is room, or nobody left to read.  What the    *)
(* supervisor is told of it is dated from before the wait, but for a frame.*)
Room == Len(inbox) < scene.room
Sent(m, l) ==
  /\ Room \/ ~ Alive
  /\ IF Alive THEN inbox' = Append(inbox, m) /\ logic' = l ELSE UNCHANGED <<inbox, logic>>
  /\ UNCHANGED <<scene, worker, queue, toMain, faults>>

(* The setup file is dated as the ping is, a slide's from after it.        *)
Ping ==
  /\ ui.phase = "ping" /\ Sent("ping", Sup!OnPingSent(logic, - ui.waited))
  /\ \E w \in {0, ui.waited} : ui' = [ui EXCEPT !.phase = "send", !.waited = w]

(* submitIfNeeded() for each file that needs it.                           *)
Submit ==
  /\ ui.phase = "send" /\ ui.todo > 0
  /\ Sent("source", Sup!OnCompileSubmitted(logic, - ui.waited))
  /\ ui' = [ui EXCEPT !.todo = @ - 1, !.waited = 0]

(* endFrame(): if a slide is visible and no frame is out, one is sent.     *)
EndFrame ==
  /\ ui.phase = "send" /\ ui.todo = 0
  /\ \/ ui' = [ui EXCEPT !.phase = "reap", !.idle = 0, !.waited = 0]
     \/ /\ Alive /\ ~ ui.outstanding
        /\ ui' = [ui EXCEPT !.phase = "begin"]
  /\ UNCHANGED <<scene, logic, worker, inbox, queue, toMain, faults>>

Begin ==
  /\ ui.phase = "begin" /\ Sent("frame", Sup!OnFrameBeginSent(logic, 0))
  /\ ui' = [ui EXCEPT !.phase = "reap", !.idle = 0, !.waited = 0, !.outstanding = Alive]

Blocked ==
  /\ Alive /\ ~ Room
  /\ ui.phase \in {"ping", "begin"} \/ (ui.phase = "send" /\ ui.todo > 0)

UIFrame ==
  Reap \/ Drain \/ Spawn \/ Kill \/ LeaveAlone \/ Ping \/ Submit \/ EndFrame \/ Begin

-----------------------------------------------------------------------------
(* The worker: the IO thread runs as soon as GL is set up. *)

Listens == Alive /\ worker.doing # "boot"
Works == Alive /\ ~ worker.hung

IORecv ==
  /\ Listens /\ inbox # <<>>
  /\ inbox' = Tail(inbox)
  /\ IF Head(inbox) = "ping"
     THEN toMain' = Append(toMain, "pong") /\ UNCHANGED queue
     ELSE queue' = Append(queue, Head(inbox)) /\ UNCHANGED toMain
  /\ UNCHANGED <<scene, logic, ui, worker, faults>>

(* GL is set up and the handshake answered; a worker of another version    *)
(* exits at that.                                                          *)
Boot ==
  /\ Works /\ worker.doing = "boot"
  /\ toMain' = Append(toMain, "ack")
  /\ IF scene.same_version
     THEN worker' = Doing("engine")
     ELSE worker' = Killed
  /\ UNCHANGED <<scene, logic, ui, inbox, queue, faults>>

EngineBuilt ==
  /\ Works /\ worker.doing = "engine"
  /\ worker' = Doing("idle")
  /\ UNCHANGED <<scene, logic, ui, inbox, queue, toMain, faults>>

Take ==
  /\ Works /\ worker.doing = "idle" /\ queue # <<>>
  /\ queue' = Tail(queue)
  /\ IF Head(queue) = "source"
     THEN worker' = Doing("compile") /\ toMain' = Append(toMain, "busy")
     ELSE worker' = Doing("frame") /\ UNCHANGED toMain
  /\ UNCHANGED <<scene, logic, ui, inbox, faults>>

Finish ==
  /\ Works /\ worker.doing \in {"compile", "frame"}
  /\ worker' = Doing("idle")
  /\ toMain' = Append(toMain, IF worker.doing = "compile" THEN "result" ELSE "done")
  /\ UNCHANGED <<scene, logic, ui, inbox, queue, faults>>

Work == Boot \/ EngineBuilt \/ Take \/ Finish

(* The driver, the interpreter or slide code never returns, or crashes.    *)
Hang ==
  /\ Works /\ worker.doing # "idle" /\ faults.hangs < scene.hangs
  /\ worker' = [worker EXCEPT !.hung = TRUE]
  /\ faults' = [faults EXCEPT !.hangs = @ + 1]
  /\ UNCHANGED <<scene, logic, ui, inbox, queue, toMain>>

Crash ==
  /\ Alive /\ faults.crashes < scene.crashes
  /\ worker' = Killed
  /\ faults' = [faults EXCEPT !.crashes = @ + 1]
  /\ UNCHANGED <<scene, logic, ui, inbox, queue, toMain>>

(* Time passes between UI frames, no longer than the UI may pause, and     *)
(* while it waits; not before prompt threads have done their part, nor     *)
(* beyond what the task at hand may take.                                  *)
Takes == [boot |-> scene.boot, engine |-> scene.engine,
          compile |-> scene.compile, frame |-> scene.frame]
Prompt ==
  /\ Listens => inbox = <<>>
  /\ Works => IF worker.doing = "idle" THEN queue = <<>>
              ELSE worker.age < Takes[worker.doing]
Older(t) == IF t > -Horizon THEN t - 1 ELSE t
Aged(l) ==
  [l EXCEPT !.spawn_time = Older(@), !.spawned_at = Older(@),
            !.crash_times = [i \in DOMAIN @ |-> Older(@[i])],
            !.ping_sent = Older(@), !.last_ping_time = Older(@), !.frame_sent = Older(@),
            !.compile_since = Older(@), !.compile_wait_since = Older(@)]
Tick ==
  /\ Blocked \/ (ui.phase = "reap" /\ ui.idle < scene.pause)
  /\ Prompt
  /\ logic' = Aged(logic)
  /\ ui' = [ui EXCEPT !.idle = IF Blocked THEN @ ELSE @ + 1,
                      !.waited = IF Blocked /\ @ < Horizon THEN @ + 1 ELSE @,
                      !.kill_in = IF @ > 0 THEN @ - 1 ELSE 0]
  /\ worker' = [worker EXCEPT !.age = IF Works /\ worker.doing # "idle" THEN @ + 1 ELSE 0]
  /\ UNCHANGED <<scene, inbox, queue, toMain, faults>>

(* A hung worker owes main an answer: to pings while it sets up GL, to the *)
(* task it hangs in, to what waits behind that.                            *)
Owes ==
  /\ Alive /\ worker.hung
  /\ \/ worker.doing # "engine" \/ queue # <<>>
     \/ \E k \in DOMAIN inbox : inbox[k] # "ping"

(* The count stops one past the bound that HangIsKilled sets.              *)
Patience == FrameTimeout + CompileTimeout + KillGrace + 3 * scene.pause

Steps == UIFrame \/ IORecv \/ Work \/ Hang \/ Crash
Next ==
  \/ Tick /\ stuck' = IF ~ Owes THEN 0 ELSE IF stuck <= Patience THEN stuck + 1 ELSE stuck
  \/ Steps /\ stuck' = IF Owes' THEN stuck ELSE 0

Spec == Init /\ [][Next]_vars

-----------------------------------------------------------------------------
(* No false alarm: a worker that keeps within its times is never killed    *)
(* for being late, however many sources and frames queue up, and however   *)
(* late the UI reads its answers.                                          *)
HealthyIsSpared ==
  [][~ logic.killing /\ logic'.killing => worker.hung]_vars

(* What it takes to keep within one's times.  A frame that is sent to a    *)
(* fresh worker waits until its engine is built, unless sources go first:  *)
(* while one of these is out, no clock runs for the frame.                 *)
HeldUp(s) == IF s.first > 0 THEN 0 ELSE s.boot + s.engine
KeepsWithinTimes(s) ==
  /\ s.boot <= PongTimeout /\ s.compile <= CompileTimeout
  /\ s.boot + s.engine <= CompileTimeout
  /\ HeldUp(s) + s.frame <= FrameTimeout /\ HeldUp(s) + s.frame <= CompileTimeout

(* No hang is missed: a worker that hangs and owes an answer is dead       *)
(* within a bound, although the user goes on executing sources (each of    *)
(* which stops the frame clock) and its code ignores SIGTERM.  The UI must *)
(* not be waiting for room in the socket, then, and only a worker that has *)
(* not set up GL lets it wait: the IO thread reads from there on.          *)
HangIsKilled == stuck <= Patience \/ (Blocked /\ worker.doing = "boot")
=============================================================================
