-------------------------- MODULE SupervisorLogic --------------------------
(***************************************************************************)
(* The restart and watchdog policy of the UI process for its               *)
(* marcel_worker (src/supervisor/SupervisorLogic.{h,cpp}): a pure state    *)
(* machine with an injected clock.  The driver (RemoteEngine::pump) feeds  *)
(* events in, calls update() once per UI frame and executes the action     *)
(* that update() returns.                                                  *)
(*                                                                         *)
(* The object is a record, `logic`, and every method is an operator from   *)
(* a record to a record, so that the modules that compose the supervisor   *)
(* with the rest of the system call the methods the way the code does.     *)
(* Time is counted in ticks; Second is the number of ticks in 1.0 s.       *)
(***************************************************************************)
EXTENDS Integers, Sequences, FiniteSets

CONSTANTS
  Slides,          \* slide indices, the setup file (-1) included
  NoSlide,         \* kNoSlide
  Second,          \* ticks in one second, the unit of the backoff
  PingInterval, PongTimeout, FrameTimeout, CompileTimeout,  \* struct Config
  BackoffMax, StormCount, StormWindow,
  MaxTime,         \* bound: the clock stops here
  MaxPending       \* bound: compiles submitted and unanswered

ASSUME SlidesAssumption == NoSlide \notin Slides
ASSUME ConfigAssumption ==
  /\ Second \in Nat \ {0}
  /\ PingInterval \in Nat /\ PongTimeout \in Nat /\ FrameTimeout \in Nat
  /\ CompileTimeout \in Nat /\ BackoffMax \in Nat
  /\ StormCount \in Nat /\ StormWindow \in Nat
ASSUME BoundAssumption == MaxTime \in Nat /\ MaxPending \in Nat
(* Exponentiation is uninterpreted for the provers; TLC evaluates this.    *)
ASSUME ShiftAssumption == \A k \in 0..30 : 2^k \in Nat \ {0}

Time == Nat
Actions == {"None", "Spawn", "Kill"}

Logic ==
  [ started : BOOLEAN, spawned : BOOLEAN, handshake : BOOLEAN,
    killing : BOOLEAN, restart_requested : BOOLEAN, gave_up : BOOLEAN,
    spawn_pending : BOOLEAN, spawn_time : Time, spawned_at : Time,
    backoff_index : Nat, crash_times : Seq(Time),
    ping_outstanding : BOOLEAN, ping_sent : Time, last_ping_time : Time,
    frame_outstanding : BOOLEAN, frame_sent : Time,
    compile_busy : BOOLEAN, busy_slide : Slides \cup {NoSlide},
    compile_since : Time,
    compiles_pending : Nat, compile_wait_since : Time,
    poisoned_slide : Slides \cup {NoSlide} ]

InitialLogic ==
  [ started |-> FALSE, spawned |-> FALSE, handshake |-> FALSE,
    killing |-> FALSE, restart_requested |-> FALSE, gave_up |-> FALSE,
    spawn_pending |-> TRUE, spawn_time |-> 0, spawned_at |-> 0,
    backoff_index |-> 0, crash_times |-> <<>>,
    ping_outstanding |-> FALSE, ping_sent |-> 0, last_ping_time |-> 0,
    frame_outstanding |-> FALSE, frame_sent |-> 0,
    compile_busy |-> FALSE, busy_slide |-> NoSlide, compile_since |-> 0,
    compiles_pending |-> 0, compile_wait_since |-> 0,
    poisoned_slide |-> NoSlide ]

-----------------------------------------------------------------------------
(* The methods. *)

Start(l, t) ==
  IF l.started THEN l
  ELSE [l EXCEPT !.started = TRUE, !.spawn_pending = TRUE, !.spawn_time = t]

(* Mutant of Disarmed: the queue of unanswered compiles is not reset.      *)
DisarmedKeepsPending(l) ==
  [l EXCEPT !.handshake = FALSE, !.killing = FALSE,
            !.ping_outstanding = FALSE, !.frame_outstanding = FALSE,
            !.compile_busy = FALSE, !.busy_slide = NoSlide]

(* What both a birth and a death forget of the generation before.          *)
Disarmed(l) ==
  [l EXCEPT !.handshake = FALSE, !.killing = FALSE,
            !.ping_outstanding = FALSE, !.frame_outstanding = FALSE,
            !.compile_busy = FALSE, !.busy_slide = NoSlide,
            !.compiles_pending = 0]

OnSpawned(l, t) ==
  [Disarmed(l) EXCEPT !.spawned = TRUE, !.spawn_pending = FALSE,
                      !.spawned_at = t, !.last_ping_time = t]

OnHandshake(l) == [l EXCEPT !.handshake = TRUE]

(* Mutant of BackoffDelay: doubling without the cap.                       *)
BackoffUncapped(l) == IF l.backoff_index = 0 THEN 0 ELSE 2^(l.backoff_index - 1) * Second

(* 0, 1, 2, 4, ... seconds, capped.  The code shifts an unsigned by at     *)
(* most 30.                                                                *)
BackoffDelay(l) ==
  IF l.backoff_index = 0 THEN 0
  ELSE LET shift == IF l.backoff_index - 1 < 30 THEN l.backoff_index - 1 ELSE 30
           doubled == 2^shift * Second
       IN  IF doubled < BackoffMax THEN doubled ELSE BackoffMax

(* The crash times are in order, so popping the front while it is older    *)
(* than the window drops as many entries as are older than the window.     *)
PopOlderThan(times, limit) ==
  SubSeq(times, Cardinality({i \in 1..Len(times) : times[i] < limit}) + 1,
         Len(times))

(* What an exit leaves of the generation that died, before the storm test. *)
Buried(l) ==
  [Disarmed(l) EXCEPT
     !.spawned = FALSE, !.restart_requested = FALSE,
     !.poisoned_slide = IF l.compile_busy THEN l.busy_slide ELSE @]

(* Mutants of OnWorkerExit: the storm is cut off one crash early; any run  *)
(* counts as stable; the backoff does not advance.                         *)
ExitEarlyCutoff(l, t) ==
  LET crashes == PopOlderThan(Append(l.crash_times, t), t - StormWindow)
      dead == [Buried(l) EXCEPT !.crash_times = crashes]
  IN  IF Len(crashes) >= StormCount THEN [dead EXCEPT !.gave_up = TRUE]
      ELSE [dead EXCEPT !.spawn_time = t + BackoffDelay(dead),
                        !.backoff_index = @ + 1, !.spawn_pending = TRUE]
ExitAlwaysStable(l, t) ==
  [Buried(l) EXCEPT !.crash_times = <<t>>, !.spawn_time = t,
                    !.backoff_index = 1, !.spawn_pending = TRUE]
ExitSameBackoff(l, t) ==
  [Buried(l) EXCEPT !.crash_times = Append(@, t), !.spawn_pending = TRUE,
                    !.spawn_time = t + BackoffDelay(l)]

OnWorkerExit(l, t) ==
  LET stable  == t - l.spawned_at >= StormWindow
      index   == IF stable THEN 0 ELSE l.backoff_index
      crashes == PopOlderThan(Append(IF stable THEN <<>> ELSE l.crash_times, t),
                              t - StormWindow)
      dead    == [Buried(l) EXCEPT !.crash_times = crashes, !.backoff_index = index]
  IN  IF ~ l.spawned THEN l
      ELSE IF Len(crashes) > StormCount THEN [dead EXCEPT !.gave_up = TRUE]
      ELSE [dead EXCEPT !.spawn_time = t + BackoffDelay(dead),
                        !.backoff_index = index + 1,
                        !.spawn_pending = TRUE]

OnPingSent(l, t) ==
  [l EXCEPT !.ping_outstanding = TRUE, !.ping_sent = t, !.last_ping_time = t]

OnPong(l) == [l EXCEPT !.ping_outstanding = FALSE]

OnFrameBeginSent(l, t) ==
  [l EXCEPT !.frame_outstanding = TRUE, !.frame_sent = t]

OnFrameDone(l) == [l EXCEPT !.frame_outstanding = FALSE]

(* Mutant of OnCompileSubmitted: every submission restarts the clock of    *)
(* the queue.                                                              *)
SubmittedRestartsClock(l, t) ==
  [l EXCEPT !.compile_wait_since = t, !.compiles_pending = @ + 1]

OnCompileSubmitted(l, t) ==
  [l EXCEPT !.compile_wait_since = IF l.compiles_pending = 0 THEN t ELSE @,
            !.compiles_pending = @ + 1]

OnCompileBusy(l, s, t) ==
  [l EXCEPT !.compile_busy = TRUE, !.busy_slide = s,
            !.compile_since = t, !.compile_wait_since = t]

(* Mutants of OnCompileResult: the compile stays busy; an answer nobody    *)
(* waits for underflows.                                                   *)
ResultKeepsBusy(l, s, t) ==
  [l EXCEPT !.compiles_pending = IF @ > 0 THEN @ - 1 ELSE @, !.compile_wait_since = t]
ResultUnderflows(l, s, t) ==
  [l EXCEPT !.compiles_pending = @ - 1, !.compile_wait_since = t]

OnCompileResult(l, s, t) ==
  LET answers == l.compile_busy /\ s = l.busy_slide
  IN  [l EXCEPT !.compiles_pending = IF @ > 0 THEN @ - 1 ELSE @,
                !.compile_wait_since = t,
                !.compile_busy = IF answers THEN FALSE ELSE @,
                !.busy_slide = IF answers THEN NoSlide ELSE @,
                !.frame_sent = IF l.frame_outstanding THEN t ELSE @]

(* Mutant of RequestRestart: the restart always goes through a kill.       *)
RestartKillsOnly(l, t) ==
  IF l.started
  THEN [l EXCEPT !.gave_up = FALSE, !.crash_times = <<>>, !.backoff_index = 0,
                 !.restart_requested = TRUE]
  ELSE l

RequestRestart(l, t) ==
  LET clean == [l EXCEPT !.gave_up = FALSE, !.crash_times = <<>>,
                         !.backoff_index = 0]
  IN  IF ~ l.started THEN l
      ELSE IF l.spawned THEN [clean EXCEPT !.restart_requested = TRUE]
      ELSE [clean EXCEPT !.spawn_pending = TRUE, !.spawn_time = t]

-----------------------------------------------------------------------------
(* update(): the deadlines that are armed, whether one has passed, the     *)
(* action it returns and the state it leaves.                              *)

Compiling(l) == l.compile_busy \/ l.compiles_pending > 0

Armed(l) ==
  [ pong    |-> l.ping_outstanding,
    compile |-> l.compile_busy,
    queue   |-> ~ l.compile_busy /\ l.compiles_pending > 0,
    frame   |-> l.frame_outstanding /\ ~ Compiling(l) ]

Overdue(l, t) ==
  \/ Armed(l).pong    /\ t - l.ping_sent > PongTimeout
  \/ Armed(l).compile /\ t - l.compile_since > CompileTimeout
  \/ Armed(l).queue   /\ t - l.compile_wait_since > CompileTimeout
  \/ Armed(l).frame   /\ t - l.frame_sent > FrameTimeout

(* A Spawn is due; the worker must be killed: `expired` is the watchdog's  *)
(* verdict, Overdue(l, t) unless a module abstracts from time.             *)
MaySpawn(l, t) ==
  l.started /\ ~ l.gave_up /\ ~ l.spawned /\ l.spawn_pending /\ t >= l.spawn_time

MayKill(l, expired) ==
  /\ l.started /\ ~ l.gave_up /\ l.spawned /\ ~ l.killing
  /\ l.restart_requested \/ expired

UpdateAction(l, t, expired) ==
  IF MaySpawn(l, t) THEN "Spawn"
  ELSE IF MayKill(l, expired) THEN "Kill" ELSE "None"

(* A restart request consumes itself; a timeout leaves it alone.           *)
Update(l, t, expired) ==
  IF MaySpawn(l, t) THEN [l EXCEPT !.spawn_pending = FALSE]
  ELSE IF MayKill(l, expired)
       THEN [l EXCEPT !.killing = TRUE, !.restart_requested = FALSE]
       ELSE l

ShouldPing(l, t) ==
  /\ l.spawned /\ ~ l.killing /\ ~ l.ping_outstanding
  /\ t - l.last_ping_time >= PingInterval

TakePoisonedSlide(l) == [l EXCEPT !.poisoned_slide = NoSlide]

-----------------------------------------------------------------------------
(* The policy under a driver that keeps the contract of the header:        *)
(* whatever action update() returned is executed before anything else;     *)
(* messages reach the logic only while a worker process exists; one        *)
(* FrameBegin is outstanding at a time.  The messages themselves come in   *)
(* any order: nothing is assumed of the worker.                            *)

VARIABLES
  logic,   \* the object
  now,     \* the injected clock
  action   \* what the last update() returned and the driver still owes

vars == <<logic, now, action>>

Init ==
  /\ logic = InitialLogic
  /\ now = 0
  /\ action = "None"

Idle == action # "Spawn"     \* a Kill is carried out by the time it is seen
Event(l) == Idle /\ logic' = l /\ UNCHANGED <<now, action>>

Tick == now < MaxTime /\ now' = now + 1 /\ UNCHANGED <<logic, action>>

CallStart == ~ logic.started /\ Event(Start(logic, now))

CallUpdate ==
  /\ Idle
  /\ logic' = Update(logic, now, Overdue(logic, now))
  /\ action' = UpdateAction(logic, now, Overdue(logic, now))
  /\ UNCHANGED now

(* fork succeeded; fork failed, which the driver reports as an instant     *)
(* crash.                                                                  *)
SpawnWorker ==
  /\ action = "Spawn"
  /\ logic' \in {OnSpawned(logic, now), OnWorkerExit(OnSpawned(logic, now), now)}
  /\ action' = "None"
  /\ UNCHANGED now

(* The worker is reaped, of its own death or of a Kill.                    *)
WorkerExit ==
  /\ Idle /\ logic.spawned
  /\ logic' = OnWorkerExit(logic, now)
  /\ action' = "None"
  /\ UNCHANGED now

TakePoison == logic.poisoned_slide # NoSlide /\ Event(TakePoisonedSlide(logic))
Restart == logic.started /\ Event(RequestRestart(logic, now))

SendPing == ShouldPing(logic, now) /\ Event(OnPingSent(logic, now))
SendFrameBegin ==
  /\ logic.spawned /\ ~ logic.frame_outstanding
  /\ Event(OnFrameBeginSent(logic, now))
SubmitCompile ==
  /\ logic.spawned /\ logic.compiles_pending < MaxPending
  /\ Event(OnCompileSubmitted(logic, now))

RecvHelloAck == logic.spawned /\ Event(OnHandshake(logic))
RecvPong == logic.spawned /\ Event(OnPong(logic))
RecvFrameDone == logic.spawned /\ Event(OnFrameDone(logic))
RecvCompileBusy(s) == logic.spawned /\ Event(OnCompileBusy(logic, s, now))
RecvCompileResult(s) == logic.spawned /\ Event(OnCompileResult(logic, s, now))

Lifecycle ==
  \/ CallStart \/ CallUpdate \/ SpawnWorker \/ WorkerExit \/ Restart \/ Tick

Traffic ==
  \/ TakePoison \/ SendPing \/ SendFrameBegin \/ SubmitCompile
  \/ RecvHelloAck \/ RecvPong \/ RecvFrameDone
  \/ \E s \in Slides : RecvCompileBusy(s) \/ RecvCompileResult(s)

Next == Lifecycle \/ Traffic

Spec == Init /\ [][Next]_vars

-----------------------------------------------------------------------------
(* Type correctness: the object stays a record of the declared shape under *)
(* every order of calls the driver can make.                               *)
TypeOK == logic \in Logic /\ now \in Time /\ action \in Actions

(* A dead worker leaves nothing armed: no deadline, restart request or     *)
(* pending compile of one generation can reach the next (the field resets  *)
(* of onWorkerExit and onSpawned).                                         *)
DeadIsQuiet ==
  ~ logic.spawned =>
    /\ ~ logic.killing /\ ~ logic.restart_requested /\ ~ logic.handshake
    /\ ~ logic.ping_outstanding /\ ~ logic.frame_outstanding
    /\ ~ Compiling(logic)

(* The supervisor is never in limbo: once started, either a worker exists, *)
(* or exactly one spawn is armed or owed by the driver, or it has given up *)
(* with no spawn armed, more crashes on record than the storm count.       *)
NeverStuck ==
  logic.started =>
    \/ /\ logic.spawned
       /\ ~ logic.gave_up /\ ~ logic.spawn_pending /\ action # "Spawn"
    \/ /\ ~ logic.spawned /\ ~ logic.gave_up
       /\ logic.spawn_pending <=> action # "Spawn"
    \/ /\ ~ logic.spawned /\ logic.gave_up
       /\ ~ logic.spawn_pending /\ action # "Spawn"
       /\ Len(logic.crash_times) = StormCount + 1

(* A dead worker is never left dead for longer than the backoff cap: the   *)
(* armed spawn lies at most BackoffMax after the clock.                    *)
RespawnWithinCap ==
  logic.started /\ logic.spawn_pending => logic.spawn_time <= now + BackoffMax

(* The abstract life cycle this policy implements.  "limbo" is no phase of *)
(* WorkerLifecycle: a started supervisor that has nothing armed would map  *)
(* to it.                                                                  *)
phase ==
  IF ~ logic.started THEN "stopped"
  ELSE IF logic.gave_up THEN "gave_up"
  ELSE IF logic.spawned THEN IF logic.killing THEN "killing" ELSE "running"
  ELSE IF action = "Spawn" THEN "spawning"
  ELSE IF logic.spawn_pending THEN "waiting" ELSE "limbo"

Life == INSTANCE WorkerLifecycle WITH phase <- phase,
                crashes <- Len(logic.crash_times), Limit <- StormCount
ImplementsLifecycle == Life!Spec
=============================================================================
