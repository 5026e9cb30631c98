-------------------------- MODULE Watchdog_proofs --------------------------
(***************************************************************************)
(* For every number of sources, hangs and crashes, and all times: a worker *)
(* that keeps within its times is not killed, and one that hangs and owes  *)
(* main an answer is dead in time.                                         *)
(*                                                                         *)
(* Base says what main and the worker know of each other: each frame and   *)
(* each source that main waits for is in exactly one place.  Overlong then *)
(* bounds for how long a hung worker has been stuck, by the age of the     *)
(* deadline that will end it; Punctual bounds the age of every deadline by *)
(* what a worker that keeps within its times has left to do.               *)
(***************************************************************************)
EXTENDS Watchdog, ProofLemmas

-----------------------------------------------------------------------------
(* Types: a time stamp is a past no older than Horizon. *)
Past == (-Horizon)..0
Slide == {0, -1}
Object ==
  [ started : BOOLEAN, spawned : BOOLEAN, handshake : BOOLEAN,
    killing : BOOLEAN, restart_requested : BOOLEAN, gave_up : BOOLEAN,
    spawn_pending : BOOLEAN, spawn_time : Int, spawned_at : Int,
    backoff_index : Nat, crash_times : Seq(Int),
    ping_outstanding : BOOLEAN, ping_sent : Past, last_ping_time : Past,
    frame_outstanding : BOOLEAN, frame_sent : Past,
    compile_busy : BOOLEAN, busy_slide : Slide, compile_since : Past,
    compiles_pending : Nat, compile_wait_since : Past,
    poisoned_slide : Slide ]

ToWorker == {"ping", "source", "frame"}
Tasks == {"source", "frame"}
ToMain == {"ack", "pong", "busy", "result", "done"}
Doings == {"none", "boot", "engine", "idle", "compile", "frame", "dead"}

UiType == [phase : {"reap", "drain", "ping", "send", "begin"}, todo : Nat,
           outstanding : BOOLEAN, killing : BOOLEAN, kill_in : Nat, idle : Nat,
           waited : 0..Horizon]
WorkerType == [doing : Doings, age : Nat, hung : BOOLEAN]

Shape ==
  /\ scene \in Scenes
  /\ logic \in Object
  /\ ui \in UiType
  /\ worker \in WorkerType
  /\ inbox \in Seq(ToWorker) /\ queue \in Seq(Tasks) /\ toMain \in Seq(ToMain)
  /\ faults \in [hangs : Nat, crashes : Nat]

-----------------------------------------------------------------------------
(* What main and the worker know of each other. *)

Has(q, m) == \E i \in DOMAIN q : q[i] = m
Count(q, m) == Cardinality({i \in DOMAIN q : q[i] \in {m}})

(* The supervisor knows whether there is a worker, which is one it has     *)
(* started, and what is outstanding; without one nothing is.               *)
Wired ==
  /\ logic.started /\ ~ logic.restart_requested
  /\ logic.spawned <=> worker.doing # "none"
  /\ logic.spawned => ~ logic.gave_up
  /\ ui.killing <=> logic.killing
  /\ ui.outstanding <=> logic.frame_outstanding
  /\ ~ logic.spawned =>
       /\ inbox = <<>> /\ queue = <<>> /\ toMain = <<>>
       /\ ~ logic.killing /\ ~ logic.frame_outstanding /\ ~ logic.ping_outstanding
       /\ ~ logic.compile_busy /\ logic.compiles_pending = 0
  /\ ui.phase = "begin" => ~ ui.outstanding
  /\ ui.phase = "ping" => ~ logic.ping_outstanding /\ ~ logic.killing
  /\ ui.phase \in {"reap", "drain"} => ui.waited = 0
  /\ ui.idle <= scene.pause
  /\ logic.compile_busy => logic.busy_slide = 0

(* Each frame and each source is in the socket, the queue or the work      *)
(* thread, or its answer is on the way; the supervisor, once it has read   *)
(* all that is on the way, knows whether the worker compiles.              *)
One(b) == IF b THEN 1 ELSE 0

BusyAfter(q, b) ==
  \/ \E i \in DOMAIN q : q[i] = "busy" /\ \A j \in DOMAIN q : j > i => q[j] # "result"
  \/ b /\ ~ Has(q, "result")

Owed ==
  Alive =>
    /\ Count(inbox, "frame") + Count(queue, "frame") + One(worker.doing = "frame")
         + Count(toMain, "done") = One(ui.outstanding)
    /\ Count(inbox, "source") + Count(queue, "source") + One(worker.doing = "compile")
         + Count(toMain, "result") = logic.compiles_pending
    /\ BusyAfter(toMain, logic.compile_busy) <=> worker.doing = "compile"
    /\ worker.hung => worker.doing # "idle"
    /\ worker.doing = "boot" => queue = <<>> /\ toMain = <<>> /\
         (~ logic.killing /\ logic.ping_outstanding => Has(inbox, "ping"))

-----------------------------------------------------------------------------
(* A worker that keeps within its times. *)

Age(t) == - t
CompileMail == Has(toMain, "busy") \/ Has(toMain, "result")
Before == HeldUp(scene)
Line == queue \o inbox

(* No source is before the first frame.                                    *)
FrameFirst(q) == \E i \in DOMAIN q : q[i] = "frame" /\ \A j \in DOMAIN q : j < i => q[j] # "source"

(* The deadlines for a source that no one compiles yet and for a frame run *)
(* and nothing that stops them is on its way to main.                      *)
Waits == logic.compiles_pending > 0 /\ ~ logic.compile_busy /\ ~ CompileMail
FrameWaits == ui.outstanding /\ ~ Sup!Compiling(logic) /\ ~ CompileMail /\ ~ Has(toMain, "done")

(* How long a frame that was sent to a fresh worker has been waiting at    *)
(* most.                                                                   *)
Elapsed ==
  CASE worker.doing = "boot" -> worker.age
    [] worker.doing = "engine" -> scene.boot + worker.age
    [] worker.doing = "frame" -> Before + worker.age
    [] OTHER -> Before

AgeOK == worker.doing \in DOMAIN Takes => worker.age <= Takes[worker.doing]
BootTime == IF worker.doing = "boot" THEN worker.age ELSE scene.boot
UiInTime == ui.waited <= BootTime
PingInTime ==
  logic.ping_outstanding /\ ~ Has(toMain, "pong") =>
    Has(inbox, "ping") /\ Age(logic.ping_sent) <= BootTime
CompileInTime ==
  logic.compile_busy /\ ~ CompileMail => Age(logic.compile_since) <= worker.age
QueueInTime ==
  Waits =>
    /\ Age(logic.compile_wait_since) <= CompileTimeout
    /\ worker.doing = "idle" /\ FrameFirst(Line) => Age(logic.compile_wait_since) <= Before
    /\ worker.doing \in {"boot", "engine", "frame"} => Age(logic.compile_wait_since) <= Elapsed
FrameInTime == FrameWaits => Age(logic.frame_sent) <= Elapsed
(* Sources that go first keep frames behind them, whose deadline sleeps.   *)
FirstSources ==
  scene.first > 0 =>
    /\ worker.doing \in {"boot", "engine"} =>
         \/ Has(Line, "source") /\ ~ FrameFirst(Line)
         \/ queue = <<>> /\ inbox = <<>> /\ ui.phase = "send" /\ ui.todo > 0 /\ ui.waited = 0
    /\ ui.waited > 0 => logic.compiles_pending > 0

InTime ==
  AgeOK /\ UiInTime /\ PingInTime /\ CompileInTime /\ QueueInTime /\ FrameInTime /\ FirstSources
Punctual == Alive /\ ~ worker.hung => InTime

(* No deadline is overdue but for an answer that is on its way.  A worker  *)
(* that died of itself leaves them running until it is reaped.             *)
Bounded ==
  /\ logic.ping_outstanding /\ ~ Has(toMain, "pong") => Age(logic.ping_sent) <= PongTimeout
  /\ logic.compile_busy /\ ~ CompileMail => Age(logic.compile_since) <= CompileTimeout
  /\ Waits => Age(logic.compile_wait_since) <= CompileTimeout
  /\ FrameWaits => Age(logic.frame_sent) <= FrameTimeout
Spared ==
  logic.spawned /\ ~ worker.hung /\ (worker.doing = "dead" => ui.phase # "reap") => Bounded

-----------------------------------------------------------------------------
(* A worker that hangs: stuck for no longer than a deadline has run, and   *)
(* what it took to start it.                                               *)

Extra == IF ui.phase \in {"reap", "drain"} THEN ui.idle ELSE 0
Since(start, t, limit) ==
  /\ Age(t) < Horizon => stuck <= start + Age(t)
  /\ stuck <= start + limit + Extra
Lost == Blocked /\ worker.doing = "boot"
Late == FrameTimeout + CompileTimeout + 2 * scene.pause
HungLate ==
  IF logic.killing
  THEN IF ui.kill_in > 0 THEN stuck + ui.kill_in <= Late + KillGrace
       ELSE stuck < Late + KillGrace + (IF ui.phase = "reap" THEN ui.idle ELSE 0)
  ELSE IF worker.doing = "boot"
  THEN IF logic.ping_outstanding
       THEN Since(PingInterval - 1 + scene.pause, logic.ping_sent, PongTimeout)
       ELSE IF ui.phase = "ping" THEN stuck <= PingInterval - 1 + scene.pause
       ELSE Since(0, logic.last_ping_time, PingInterval - 1)
  ELSE IF CompileMail THEN stuck <= Extra
  ELSE IF worker.doing = "compile" THEN Since(scene.pause, logic.compile_since, CompileTimeout)
  ELSE IF logic.compiles_pending > 0
  THEN Since(scene.pause + FrameTimeout, logic.compile_wait_since, CompileTimeout)
  ELSE Since(scene.pause, logic.frame_sent, FrameTimeout)
Overlong ==
  /\ ui.kill_in <= KillGrace
  /\ ~ Owes => stuck = 0
  /\ Owes /\ ~ Lost => HungLate

-----------------------------------------------------------------------------
(* What the supervisor's methods do to the fields that matter here. *)

(* The assumptions on the constants, one by one.                           *)
LEMMA Deadlines ==
  /\ PingInterval \in Nat \ {0} /\ KillGrace \in Nat \ {0} /\ MaxSources \in Nat \ {0}
  /\ PongTimeout \in Nat /\ FrameTimeout \in Nat /\ CompileTimeout \in Nat
  /\ Backoff \in Nat /\ StormLimit \in Nat /\ StormSpan \in Nat /\ Horizon \in Nat
  /\ PingInterval < Horizon /\ PongTimeout < Horizon /\ FrameTimeout < Horizon
  /\ CompileTimeout < Horizon
  /\ 0 \in Past /\ Past \in SUBSET Int
BY DeadlineAssumption DEF Past

LEMMA SceneFacts ==
  ASSUME NEW s \in Scenes
  PROVE  /\ s.boot \in Nat /\ s.engine \in Nat /\ s.compile \in Nat /\ s.frame \in Nat
         /\ s.first \in Nat /\ s.hangs \in Nat /\ s.crashes \in Nat
         /\ s.pause \in Nat \ {0} /\ s.room \in Nat \ {0}
         /\ s.same_version \in BOOLEAN /\ s.deaf \in BOOLEAN
BY SceneAssumption

SameLife(l, m) ==
  /\ m.started = l.started /\ m.spawned = l.spawned /\ m.killing = l.killing
  /\ m.restart_requested = l.restart_requested /\ m.gave_up = l.gave_up
SamePing(l, m) ==
  /\ m.ping_outstanding = l.ping_outstanding /\ m.ping_sent = l.ping_sent
  /\ m.last_ping_time = l.last_ping_time
SameFrame(l, m) ==
  m.frame_outstanding = l.frame_outstanding /\ m.frame_sent = l.frame_sent
SameCompile(l, m) ==
  /\ m.compile_busy = l.compile_busy /\ m.busy_slide = l.busy_slide
  /\ m.compile_since = l.compile_since /\ m.compiles_pending = l.compiles_pending
  /\ m.compile_wait_since = l.compile_wait_since
Fresh(m) ==
  /\ ~ m.killing /\ ~ m.ping_outstanding /\ ~ m.frame_outstanding
  /\ ~ m.compile_busy /\ m.compiles_pending = 0

LEMMA HandshakeDoes ==
  ASSUME NEW l \in Object
  PROVE  LET m == Sup!OnHandshake(l)
         IN  m \in Object /\ SameLife(l, m) /\ SamePing(l, m) /\ SameFrame(l, m) /\ SameCompile(l, m)
BY DEF Sup!OnHandshake, Object, SameLife, SamePing, SameFrame, SameCompile

LEMMA PongDoes ==
  ASSUME NEW l \in Object
  PROVE  LET m == Sup!OnPong(l)
         IN  /\ m \in Object /\ SameLife(l, m) /\ SameFrame(l, m) /\ SameCompile(l, m)
             /\ ~ m.ping_outstanding /\ m.ping_sent = l.ping_sent
             /\ m.last_ping_time = l.last_ping_time
BY DEF Sup!OnPong, Object, SameLife, SameFrame, SameCompile

LEMMA PingDoes ==
  ASSUME NEW l \in Object, NEW t \in Past
  PROVE  LET m == Sup!OnPingSent(l, t)
         IN  /\ m \in Object /\ SameLife(l, m) /\ SameFrame(l, m) /\ SameCompile(l, m)
             /\ m.ping_outstanding /\ m.ping_sent = t /\ m.last_ping_time = t
BY DEF Sup!OnPingSent, Object, SameLife, SameFrame, SameCompile

LEMMA BeginDoes ==
  ASSUME NEW l \in Object, NEW t \in Past
  PROVE  LET m == Sup!OnFrameBeginSent(l, t)
         IN  /\ m \in Object /\ SameLife(l, m) /\ SamePing(l, m) /\ SameCompile(l, m)
             /\ m.frame_outstanding /\ m.frame_sent = t
BY DEF Sup!OnFrameBeginSent, Object, SameLife, SamePing, SameCompile

LEMMA DoneDoes ==
  ASSUME NEW l \in Object
  PROVE  LET m == Sup!OnFrameDone(l)
         IN  /\ m \in Object /\ SameLife(l, m) /\ SamePing(l, m) /\ SameCompile(l, m)
             /\ ~ m.frame_outstanding /\ m.frame_sent = l.frame_sent
BY DEF Sup!OnFrameDone, Object, SameLife, SamePing, SameCompile

LEMMA SubmittedDoes ==
  ASSUME NEW l \in Object, NEW t \in Past
  PROVE  LET m == Sup!OnCompileSubmitted(l, t)
         IN  /\ m \in Object /\ SameLife(l, m) /\ SamePing(l, m) /\ SameFrame(l, m)
             /\ m.compile_busy = l.compile_busy /\ m.busy_slide = l.busy_slide
             /\ m.compile_since = l.compile_since
             /\ m.compiles_pending = l.compiles_pending + 1
             /\ m.compile_wait_since = IF l.compiles_pending = 0 THEN t ELSE l.compile_wait_since
<1> DEFINE wait == IF l.compiles_pending = 0 THEN t ELSE l.compile_wait_since
           count == l.compiles_pending + 1
           m == Sup!OnCompileSubmitted(l, t)
<1>1. wait \in Past /\ count \in Nat
  BY DEF Object
<1>2. m = [l EXCEPT !.compile_wait_since = wait, !.compiles_pending = count]
  BY Zenon DEF Sup!OnCompileSubmitted
<1> HIDE DEF wait, count, m
<1>3. /\ m \in Object /\ SameLife(l, m) /\ SamePing(l, m) /\ SameFrame(l, m)
      /\ m.compile_busy = l.compile_busy /\ m.busy_slide = l.busy_slide
      /\ m.compile_since = l.compile_since
      /\ m.compiles_pending = count /\ m.compile_wait_since = wait
  BY <1>1, <1>2 DEF Object, SameLife, SamePing, SameFrame
<1> QED  BY <1>3 DEF wait, count, m

LEMMA BusyDoes ==
  ASSUME NEW l \in Object
  PROVE  LET m == Sup!OnCompileBusy(l, 0, 0)
         IN  /\ m \in Object /\ SameLife(l, m) /\ SamePing(l, m) /\ SameFrame(l, m)
             /\ m.compile_busy /\ m.busy_slide = 0 /\ m.compile_since = 0
             /\ m.compiles_pending = l.compiles_pending /\ m.compile_wait_since = 0
<1>1. 0 \in Past /\ 0 \in Slide
  BY Deadlines DEF Slide
<1> QED  BY <1>1 DEF Sup!OnCompileBusy, Object, SameLife, SamePing, SameFrame

LEMMA ResultDoes ==
  ASSUME NEW l \in Object, l.compile_busy => l.busy_slide = 0
  PROVE  LET m == Sup!OnCompileResult(l, 0, 0)
         IN  /\ m \in Object /\ SameLife(l, m) /\ SamePing(l, m)
             /\ m.frame_outstanding = l.frame_outstanding
             /\ m.frame_sent = (IF l.frame_outstanding THEN 0 ELSE l.frame_sent)
             /\ ~ m.compile_busy /\ m.compile_since = l.compile_since
             /\ m.compiles_pending = (IF l.compiles_pending > 0 THEN l.compiles_pending - 1 ELSE 0)
             /\ m.compile_wait_since = 0
<1> DEFINE answers == l.compile_busy /\ 0 = l.busy_slide
           left == IF l.compiles_pending > 0 THEN l.compiles_pending - 1 ELSE l.compiles_pending
           busy == IF answers THEN FALSE ELSE l.compile_busy
           slide == IF answers THEN -1 ELSE l.busy_slide
           sent == IF l.frame_outstanding THEN 0 ELSE l.frame_sent
           m == Sup!OnCompileResult(l, 0, 0)
<1>1. /\ left \in Nat /\ slide \in Slide /\ sent \in Past /\ busy = FALSE /\ 0 \in Past
      /\ left = IF l.compiles_pending > 0 THEN l.compiles_pending - 1 ELSE 0
  BY Deadlines DEF Object, Slide
<1>2. m = [l EXCEPT !.compiles_pending = left, !.compile_wait_since = 0,
                    !.compile_busy = busy, !.busy_slide = slide, !.frame_sent = sent]
  BY Zenon DEF Sup!OnCompileResult
<1> HIDE DEF left, busy, slide, sent, m
<1> DEFINE mid == [l EXCEPT !.compiles_pending = left, !.compile_wait_since = 0]
<1>3. /\ mid \in Object /\ mid.compiles_pending = left /\ mid.compile_wait_since = 0
      /\ SameLife(l, mid) /\ SamePing(l, mid) /\ SameFrame(l, mid)
      /\ mid.compile_since = l.compile_since
  BY <1>1 DEF Object, SameLife, SamePing, SameFrame
<1>4. m = [mid EXCEPT !.compile_busy = busy, !.busy_slide = slide, !.frame_sent = sent]
  BY Zenon, <1>2
<1> HIDE DEF mid
<1>5. /\ m \in Object /\ SameLife(mid, m) /\ SamePing(mid, m)
      /\ m.frame_outstanding = mid.frame_outstanding /\ m.frame_sent = sent
      /\ m.compile_busy = busy /\ m.compile_since = mid.compile_since
      /\ m.compiles_pending = mid.compiles_pending
      /\ m.compile_wait_since = mid.compile_wait_since
  BY <1>1, <1>3, <1>4 DEF Object, SameLife, SamePing
<1>6. SameLife(l, m) /\ SamePing(l, m) /\ m.frame_outstanding = l.frame_outstanding
  BY <1>3, <1>5 DEF SameLife, SamePing, SameFrame
<1> QED  BY <1>1, <1>3, <1>5, <1>6 DEF m, sent

LEMMA DisarmedDoes ==
  ASSUME NEW l \in Object
  PROVE  LET d == Sup!Disarmed(l)
         IN  /\ d \in Object /\ Fresh(d)
             /\ d.started = l.started /\ d.spawned = l.spawned
             /\ d.restart_requested = l.restart_requested /\ d.gave_up = l.gave_up
<1> DEFINE none == -1
           d == Sup!Disarmed(l)
<1>1. none \in Slide
  BY DEF Slide
<1>2. d = [l EXCEPT !.handshake = FALSE, !.killing = FALSE,
                    !.ping_outstanding = FALSE, !.frame_outstanding = FALSE,
                    !.compile_busy = FALSE, !.busy_slide = none, !.compiles_pending = 0]
  BY DEF Sup!Disarmed
<1> HIDE DEF none, d
<1>3. d \in Object
  BY <1>1, <1>2 DEF Object
<1>4. /\ Fresh(d) /\ d.started = l.started /\ d.spawned = l.spawned
      /\ d.restart_requested = l.restart_requested /\ d.gave_up = l.gave_up
  BY <1>1, <1>2 DEF Object, Fresh
<1> QED  BY <1>3, <1>4 DEF d

LEMMA SpawnedDoes ==
  ASSUME NEW l \in Object
  PROVE  LET m == Sup!OnSpawned(l, 0)
         IN  /\ m \in Object /\ Fresh(m) /\ m.started = l.started /\ m.spawned
             /\ m.restart_requested = l.restart_requested /\ m.gave_up = l.gave_up
             /\ m.last_ping_time = 0
<1> DEFINE d == Sup!Disarmed(l)
           m == Sup!OnSpawned(l, 0)
<1>1. /\ d \in Object /\ Fresh(d) /\ d.started = l.started
      /\ d.restart_requested = l.restart_requested /\ d.gave_up = l.gave_up
  BY DisarmedDoes
<1>2. m = [d EXCEPT !.spawned = TRUE, !.spawn_pending = FALSE,
                    !.spawned_at = 0, !.last_ping_time = 0]
  BY DEF Sup!OnSpawned
<1> HIDE DEF d, m
<1>3. m \in Object /\ Fresh(m) /\ m.spawned /\ m.last_ping_time = 0
  BY <1>1, <1>2, Deadlines DEF Object, Fresh
<1>4. /\ m.started = l.started /\ m.restart_requested = l.restart_requested
      /\ m.gave_up = l.gave_up
  BY <1>1, <1>2 DEF Object
<1> QED  BY <1>3, <1>4 DEF m

LEMMA ExitDoes ==
  ASSUME NEW l \in Object, l.spawned
  PROVE  LET m == Sup!OnWorkerExit(l, 0)
         IN  /\ m \in Object /\ Fresh(m) /\ m.started = l.started /\ ~ m.spawned
             /\ ~ m.restart_requested
<1> DEFINE d == Sup!Disarmed(l)
           poison == IF l.compile_busy THEN l.busy_slide ELSE d.poisoned_slide
           b == Sup!Buried(l)
           stable  == 0 - l.spawned_at >= StormSpan
           index   == IF stable THEN 0 ELSE l.backoff_index
           record  == Append(IF stable THEN <<>> ELSE l.crash_times, 0)
           limit   == 0 - StormSpan
           crashes == Sup!PopOlderThan(record, limit)
           dead    == [b EXCEPT !.crash_times = crashes, !.backoff_index = index]
           wait    == Sup!BackoffDelay(dead)
           wake    == 0 + wait
           next    == index + 1
           m       == Sup!OnWorkerExit(l, 0)
<1>1. d \in Object /\ Fresh(d) /\ d.started = l.started
  BY DisarmedDoes
<1>2. poison \in Slide
  BY <1>1 DEF Object
<1>3. b = [d EXCEPT !.spawned = FALSE, !.restart_requested = FALSE, !.poisoned_slide = poison]
  BY DEF Sup!Buried
<1> HIDE DEF d, poison, b
<1>4. b \in Object /\ Fresh(b) /\ b.started = l.started /\ ~ b.spawned /\ ~ b.restart_requested
  BY <1>1, <1>2, <1>3 DEF Object, Fresh
<1>5. m = IF Len(crashes) > StormLimit THEN [dead EXCEPT !.gave_up = TRUE]
          ELSE [dead EXCEPT !.spawn_time = wake, !.backoff_index = next, !.spawn_pending = TRUE]
  BY DEF Sup!OnWorkerExit, b
<1>6. record \in Seq(Int) /\ index \in Nat /\ limit \in Int
  BY Deadlines DEF Object
<1>7. crashes \in Seq(Int)
  <2> DEFINE old == {i \in 1..Len(record) : record[i] < limit}
             k == Cardinality(old)
  <2>1. IsFiniteSet(old) /\ k \in Nat
    <3>1. IsFiniteSet(1..Len(record))
      <4> HIDE DEF record
      <4>1. Len(record) \in Nat
        BY <1>6
      <4> QED  BY <4>1, FS_Interval
    <3>2. old \subseteq 1..Len(record)
      OBVIOUS
    <3> QED  BY <3>1, <3>2, FS_Subset, FS_CardinalityType
  <2>2. crashes = SubSeq(record, k + 1, Len(record))
    BY DEF Sup!PopOlderThan, Sup!Cardinality, Cardinality
  <2> HIDE DEF record, k, crashes
  <2> QED  BY <1>6, <2>1, <2>2
<1> HIDE DEF crashes, index
<1>8. /\ dead \in Object /\ Fresh(dead) /\ dead.started = l.started /\ ~ dead.spawned
      /\ ~ dead.restart_requested /\ dead.backoff_index = index
  BY <1>4, <1>6, <1>7 DEF Object, Fresh
<1> HIDE DEF dead
<1>9. wait \in Int
  <2> DEFINE shift == IF dead.backoff_index - 1 < 30 THEN dead.backoff_index - 1 ELSE 30
  <2>1. CASE dead.backoff_index = 0
    BY <2>1 DEF Sup!BackoffDelay
  <2>2. CASE dead.backoff_index # 0
    <3>1. shift \in 0..30
      BY <1>6, <1>8, <2>2
    <3>2. PICK p \in Nat : p = 2^shift
      BY <3>1, ShiftAssumption
    <3>3. wait = IF p * 1 < Backoff THEN p * 1 ELSE Backoff
      BY <2>2, <3>2 DEF Sup!BackoffDelay
    <3> QED  BY <3>3, Deadlines
  <2> QED  BY <2>1, <2>2
<1> HIDE DEF wait
<1>10. wake \in Int /\ next \in Nat
  BY <1>6, <1>9
<1> HIDE DEF wake, next, m
<1>11. CASE Len(crashes) > StormLimit
  <2>1. m = [dead EXCEPT !.gave_up = TRUE]
    BY <1>5, <1>11
  <2>2. m \in Object /\ Fresh(m) /\ m.started = l.started /\ ~ m.spawned /\ ~ m.restart_requested
    BY <1>8, <2>1 DEF Object, Fresh
  <2> QED  BY <2>2 DEF m
<1>12. CASE ~ (Len(crashes) > StormLimit)
  <2>1. m = [dead EXCEPT !.spawn_time = wake, !.backoff_index = next, !.spawn_pending = TRUE]
    BY <1>5, <1>12
  <2>2. m \in Object /\ Fresh(m) /\ m.started = l.started /\ ~ m.spawned /\ ~ m.restart_requested
    BY <1>8, <1>10, <2>1 DEF Object, Fresh
  <2> QED  BY <2>2 DEF m
<1> QED  BY <1>11, <1>12

(* update(), by what it returns.                                           *)
LEMMA SpawnUpdate ==
  ASSUME NEW l \in Object, Sup!UpdateAction(l, 0, Sup!Overdue(l, 0)) = "Spawn"
  PROVE  LET m == Sup!Update(l, 0, Sup!Overdue(l, 0))
         IN  /\ m \in Object /\ SameLife(l, m) /\ SamePing(l, m) /\ SameFrame(l, m)
             /\ SameCompile(l, m) /\ l.started /\ ~ l.gave_up /\ ~ l.spawned
<1>1. /\ Sup!MaySpawn(l, 0)
      /\ Sup!Update(l, 0, Sup!Overdue(l, 0)) = [l EXCEPT !.spawn_pending = FALSE]
  BY DEF Sup!UpdateAction, Sup!Update
<1> QED  BY <1>1 DEF Sup!MaySpawn, Object, SameLife, SamePing, SameFrame, SameCompile

LEMMA KillUpdate ==
  ASSUME NEW l \in Object, Sup!UpdateAction(l, 0, Sup!Overdue(l, 0)) = "Kill"
  PROVE  LET m == Sup!Update(l, 0, Sup!Overdue(l, 0))
         IN  /\ m \in Object /\ m.started = l.started /\ m.spawned = l.spawned
             /\ m.killing /\ ~ m.restart_requested /\ m.gave_up = l.gave_up
             /\ SamePing(l, m) /\ SameFrame(l, m) /\ SameCompile(l, m)
             /\ l.spawned /\ ~ l.killing
             /\ l.restart_requested \/ Sup!Overdue(l, 0)
<1>1. /\ Sup!MayKill(l, Sup!Overdue(l, 0))
      /\ Sup!Update(l, 0, Sup!Overdue(l, 0))
           = [l EXCEPT !.killing = TRUE, !.restart_requested = FALSE]
  BY DEF Sup!UpdateAction, Sup!Update
<1> DEFINE m == Sup!Update(l, 0, Sup!Overdue(l, 0))
<1>2. l.spawned /\ ~ l.killing /\ (l.restart_requested \/ Sup!Overdue(l, 0))
  BY <1>1 DEF Sup!MayKill
<1>3. m = [l EXCEPT !.killing = TRUE, !.restart_requested = FALSE]
  BY <1>1
<1> HIDE DEF m
<1>4. /\ m \in Object /\ m.started = l.started /\ m.spawned = l.spawned
      /\ m.killing /\ ~ m.restart_requested /\ m.gave_up = l.gave_up
      /\ SamePing(l, m) /\ SameFrame(l, m) /\ SameCompile(l, m)
  BY <1>3 DEF Object, SamePing, SameFrame, SameCompile
<1> QED  BY <1>2, <1>4 DEF m

LEMMA NoUpdate ==
  ASSUME NEW l \in Object, Sup!UpdateAction(l, 0, Sup!Overdue(l, 0)) = "None"
  PROVE  /\ Sup!Update(l, 0, Sup!Overdue(l, 0)) = l
         /\ l.started /\ ~ l.gave_up /\ l.spawned /\ ~ l.killing => ~ Sup!Overdue(l, 0)
BY DEF Sup!UpdateAction, Sup!Update, Sup!MayKill, Sup!MaySpawn

(* A tick: every time one older.                                           *)
LEMMA AgedDoes ==
  ASSUME NEW l \in Object
  PROVE  LET m == Aged(l)
         IN  /\ m \in Object /\ SameLife(l, m)
             /\ m.ping_outstanding = l.ping_outstanding
             /\ m.frame_outstanding = l.frame_outstanding
             /\ m.compile_busy = l.compile_busy /\ m.busy_slide = l.busy_slide
             /\ m.compiles_pending = l.compiles_pending
             /\ m.ping_sent = Older(l.ping_sent)
             /\ m.last_ping_time = Older(l.last_ping_time)
             /\ m.frame_sent = Older(l.frame_sent)
             /\ m.compile_since = Older(l.compile_since)
             /\ m.compile_wait_since = Older(l.compile_wait_since)
<1> DEFINE times == [i \in DOMAIN l.crash_times |-> Older(l.crash_times[i])]
           st == Older(l.spawn_time)
           sp == Older(l.spawned_at)
           p == Older(l.ping_sent)
           q == Older(l.last_ping_time)
           f == Older(l.frame_sent)
           c == Older(l.compile_since)
           w == Older(l.compile_wait_since)
           m == Aged(l)
<1>1. m = [l EXCEPT !.spawn_time = st, !.spawned_at = sp, !.crash_times = times,
                    !.ping_sent = p, !.last_ping_time = q, !.frame_sent = f,
                    !.compile_since = c, !.compile_wait_since = w]
  BY DEF Aged
<1>2. p \in Past /\ q \in Past /\ f \in Past /\ c \in Past /\ w \in Past
  <2>1. \A t \in Past : Older(t) \in Past
    BY Deadlines DEF Older, Past
  <2> QED  BY <2>1 DEF Object
<1>3. st \in Int /\ sp \in Int
  BY DEF Older, Object
<1>4. times \in Seq(Int)
  <2>1. l.crash_times \in Seq(Int)
    BY DEF Object
  <2>2. PICK n \in Nat : DOMAIN l.crash_times = 1..n /\ \A i \in 1..n : l.crash_times[i] \in Int
    BY <2>1
  <2>3. times \in [1..n -> Int]
    BY <2>2 DEF Older
  <2> HIDE DEF times
  <2> QED  BY <2>3
<1> HIDE DEF times, st, sp, p, q, f, c, w, m
<1> DEFINE mid == [l EXCEPT !.spawn_time = st, !.spawned_at = sp, !.crash_times = times]
<1>5. /\ mid \in Object /\ SameLife(l, mid) /\ SamePing(l, mid) /\ SameFrame(l, mid)
      /\ SameCompile(l, mid)
  BY <1>3, <1>4 DEF Object, SameLife, SamePing, SameFrame, SameCompile
<1>6. m = [mid EXCEPT !.ping_sent = p, !.last_ping_time = q, !.frame_sent = f,
                      !.compile_since = c, !.compile_wait_since = w]
  BY Zenon, <1>1
<1> HIDE DEF mid
<1>7. /\ m \in Object /\ SameLife(mid, m)
      /\ m.ping_outstanding = mid.ping_outstanding
      /\ m.frame_outstanding = mid.frame_outstanding
      /\ m.compile_busy = mid.compile_busy /\ m.busy_slide = mid.busy_slide
      /\ m.compiles_pending = mid.compiles_pending
      /\ m.ping_sent = p /\ m.last_ping_time = q /\ m.frame_sent = f
      /\ m.compile_since = c /\ m.compile_wait_since = w
  BY <1>2, <1>5, <1>6 DEF Object, SameLife
<1>8. /\ SameLife(l, m) /\ m.ping_outstanding = l.ping_outstanding
      /\ m.frame_outstanding = l.frame_outstanding
      /\ m.compile_busy = l.compile_busy /\ m.busy_slide = l.busy_slide
      /\ m.compiles_pending = l.compiles_pending
  BY <1>5, <1>7 DEF SameLife, SamePing, SameFrame, SameCompile
<1> QED  BY <1>7, <1>8 DEF m, p, q, f, c, w
-----------------------------------------------------------------------------
(* Queues. *)

LEMMA TailItems ==
  ASSUME NEW M, NEW q \in Seq(M), q # <<>>
  PROVE  /\ Head(q) \in M /\ Tail(q) \in Seq(M) /\ Head(q) = q[1]
         /\ \A i \in DOMAIN Tail(q) : i + 1 \in DOMAIN q /\ Tail(q)[i] = q[i + 1]
         /\ \A i \in DOMAIN q : i = 1 \/ (i - 1 \in DOMAIN Tail(q) /\ Tail(q)[i - 1] = q[i])
         /\ DOMAIN q \subseteq Nat \ {0} /\ 1 \in DOMAIN q
         /\ DOMAIN Tail(q) \subseteq Nat \ {0}
OBVIOUS

LEMMA AppendItems ==
  ASSUME NEW M, NEW q \in Seq(M), NEW m \in M
  PROVE  /\ Append(q, m) \in Seq(M) /\ Append(q, m) # <<>>
         /\ \E n \in Nat : /\ DOMAIN q = 1..n /\ DOMAIN Append(q, m) = 1..(n + 1)
                           /\ Append(q, m)[n + 1] = m
                           /\ \A i \in 1..n : Append(q, m)[i] = q[i]
OBVIOUS

LEMMA HasAppend ==
  ASSUME NEW M, NEW q \in Seq(M), NEW m \in M
  PROVE  \A x : Has(Append(q, m), x) <=> Has(q, x) \/ m = x
BY AppendItems DEF Has

LEMMA HasTail ==
  ASSUME NEW M, NEW q \in Seq(M), q # <<>>
  PROVE  \A x : Has(q, x) <=> Has(Tail(q), x) \/ Head(q) = x
<1> DEFINE r == Tail(q)
           h == Head(q)
<1>1. /\ h = q[1]
      /\ \A i \in DOMAIN r : i + 1 \in DOMAIN q /\ r[i] = q[i + 1]
      /\ \A i \in DOMAIN q : i = 1 \/ (i - 1 \in DOMAIN r /\ r[i - 1] = q[i])
      /\ 1 \in DOMAIN q
  BY TailItems
<1> HIDE DEF r, h
<1>2. ASSUME NEW x PROVE Has(q, x) <=> Has(r, x) \/ h = x
  BY <1>1 DEF Has
<1> QED  BY <1>2 DEF r, h

LEMMA CountFacts ==
  ASSUME NEW M, NEW q \in Seq(M), NEW x
  PROVE  Count(q, x) \in Nat /\ Count(q, x) = HitCount(q, {x})
BY HitsFinite DEF Count, HitCount, Hits

LEMMA CountsAppend ==
  ASSUME NEW M, NEW q \in Seq(M), NEW m \in M, NEW x
  PROVE  Count(Append(q, m), x) = Count(q, x) + IF m = x THEN 1 ELSE 0
<1>1. Append(q, m) \in Seq(M)
  OBVIOUS
<1>2. HitCount(Append(q, m), {x}) = HitCount(q, {x}) + IF m \in {x} THEN 1 ELSE 0
  BY HitsAppend
<1>3. Count(Append(q, m), x) = HitCount(Append(q, m), {x}) /\ Count(q, x) = HitCount(q, {x})
  BY <1>1, CountFacts
<1> QED  BY <1>2, <1>3

LEMMA CountsTail ==
  ASSUME NEW M, NEW q \in Seq(M), q # <<>>, NEW x
  PROVE  Count(q, x) = Count(Tail(q), x) + IF Head(q) = x THEN 1 ELSE 0
<1>1. Tail(q) \in Seq(M)
  OBVIOUS
<1>2. HitCount(q, {x}) = HitCount(Tail(q), {x}) + IF Head(q) \in {x} THEN 1 ELSE 0
  BY HitsTail
<1>3. Count(Tail(q), x) = HitCount(Tail(q), {x}) /\ Count(q, x) = HitCount(q, {x})
  BY <1>1, CountFacts
<1> QED  BY <1>2, <1>3

LEMMA CountsNone == \A x : Count(<<>>, x) = 0 /\ ~ Has(<<>>, x)
BY HitsNone DEF Count, HitCount, Hits, Has

(* An item is in a queue iff its count is not 0.                           *)
LEMMA HasCounts ==
  ASSUME NEW M, NEW q \in Seq(M), NEW x
  PROVE  Has(q, x) <=> Count(q, x) > 0
<1>1. IsFiniteSet(Hits(q, {x})) /\ Cardinality(Hits(q, {x})) \in Nat
  BY HitsFinite DEF HitCount
<1>2. Cardinality(Hits(q, {x})) = 0 <=> Hits(q, {x}) = {}
  BY <1>1, FS_EmptySet
<1>3. Has(q, x) <=> Hits(q, {x}) # {}
  BY DEF Has, Hits
<1>4. Count(q, x) = Cardinality(Hits(q, {x})) /\ Count(q, x) \in Nat
  BY CountFacts DEF Count, Hits
<1>5. Count(q, x) = 0 <=> ~ Has(q, x)
  BY Zenon, <1>2, <1>3, <1>4
<1> HIDE DEF Has
<1> QED  BY <1>4, <1>5

LEMMA BusyNone == ASSUME NEW b \in BOOLEAN PROVE BusyAfter(<<>>, b) <=> b
BY DEF BusyAfter, Has

(* One more message, and what main will have heard when it has read all.   *)
LEMMA BusyAppend ==
  ASSUME NEW M, NEW q \in Seq(M), NEW m \in M, NEW b \in BOOLEAN
  PROVE  BusyAfter(Append(q, m), b) <=> (m = "busy" \/ (m # "result" /\ BusyAfter(q, b)))
<1> DEFINE p == Append(q, m)
<1>1. PICK n \in Nat : /\ DOMAIN q = 1..n /\ DOMAIN p = 1..(n + 1) /\ p[n + 1] = m
                       /\ \A i \in 1..n : p[i] = q[i]
  BY AppendItems
<1> HIDE DEF p
<1>2. ASSUME m = "busy" PROVE BusyAfter(p, b)
  BY <1>1, <1>2 DEF BusyAfter
<1>3. ASSUME m = "result" PROVE ~ BusyAfter(p, b)
  BY <1>1, <1>3 DEF BusyAfter, Has
<1>4. ASSUME m # "result", BusyAfter(q, b) PROVE BusyAfter(p, b)
  BY <1>1, <1>4 DEF BusyAfter, Has
<1>5. ASSUME m # "busy", BusyAfter(p, b) PROVE BusyAfter(q, b)
  BY <1>1, <1>5 DEF BusyAfter, Has
<1> QED  BY <1>2, <1>3, <1>4, <1>5 DEF p

LEMMA BusyTail ==
  ASSUME NEW M, NEW q \in Seq(M), q # <<>>, NEW b \in BOOLEAN
  PROVE  BusyAfter(q, b)
           <=> BusyAfter(Tail(q), Head(q) = "busy" \/ (Head(q) # "result" /\ b))
<1> DEFINE r == Tail(q)
           h == Head(q)
           c == h = "busy" \/ (h # "result" /\ b)
<1>1. /\ h = q[1]
      /\ \A i \in DOMAIN r : i + 1 \in DOMAIN q /\ r[i] = q[i + 1]
      /\ \A i \in DOMAIN q : i = 1 \/ (i - 1 \in DOMAIN r /\ r[i - 1] = q[i])
      /\ 1 \in DOMAIN q /\ DOMAIN q \subseteq Nat \ {0} /\ DOMAIN r \subseteq Nat \ {0}
  BY TailItems
<1>2. Has(q, "result") <=> Has(r, "result") \/ h = "result"
  BY HasTail
<1>3. ASSUME NEW i \in DOMAIN r, r[i] = "busy", \A j \in DOMAIN r : j > i => r[j] # "result"
      PROVE  \E k \in DOMAIN q : q[k] = "busy" /\ \A j \in DOMAIN q : j > k => q[j] # "result"
  <2> HIDE DEF r, h, c
  <2>1. i + 1 \in DOMAIN q /\ q[i + 1] = "busy"
    BY <1>1, <1>3
  <2>2. \A j \in DOMAIN q : j > i + 1 => q[j] # "result"
    <3>1. i \in Nat /\ i > 0
      BY <1>1
    <3> TAKE j \in DOMAIN q
    <3> HAVE j > i + 1
    <3>2. j \in Nat /\ j # 1 /\ j - 1 > i
      BY <1>1, <3>1
    <3> QED  BY <1>1, <1>3, <3>2
  <2> QED  BY <2>1, <2>2
<1>4. ASSUME NEW k \in DOMAIN q, q[k] = "busy", \A j \in DOMAIN q : j > k => q[j] # "result"
      PROVE  BusyAfter(r, c)
  <2> HIDE DEF r, h
  <2>1. CASE k = 1
    <3>1. h = "busy" /\ ~ Has(r, "result")
      BY <1>1, <1>4, <2>1 DEF Has
    <3> QED  BY <3>1 DEF BusyAfter
  <2>2. CASE k # 1
    <3>1. k - 1 \in DOMAIN r /\ r[k - 1] = "busy"
      BY <1>1, <1>4, <2>2
    <3>2. \A j \in DOMAIN r : j > k - 1 => r[j] # "result"
      BY <1>1, <1>4
    <3> QED  BY <3>1, <3>2 DEF BusyAfter
  <2> QED  BY <2>1, <2>2
<1>5. ASSUME c, ~ Has(r, "result") PROVE BusyAfter(q, b)
  <2>1. CASE h = "busy"
    <3> HIDE DEF r, h, c
    <3>1. \A j \in DOMAIN q : j > 1 => q[j] # "result"
      BY <1>1, <1>5 DEF Has
    <3> QED  BY <1>1, <2>1, <3>1 DEF BusyAfter
  <2>2. CASE h # "busy"
    <3>1. b /\ ~ Has(q, "result")
      BY <1>2, <1>5, <2>2
    <3> QED  BY <3>1 DEF BusyAfter
  <2> QED  BY <2>1, <2>2
<1>6. ASSUME b, ~ Has(q, "result") PROVE BusyAfter(r, c)
  <2>1. ~ Has(r, "result") /\ c
    BY <1>2, <1>6
  <2> QED  BY <2>1 DEF BusyAfter
<1>7. ASSUME BusyAfter(q, b) PROVE BusyAfter(r, c)
  BY <1>4, <1>6, <1>7 DEF BusyAfter
<1>8. ASSUME BusyAfter(r, c) PROVE BusyAfter(q, b)
  <2> HIDE DEF r, c
  <2>1. CASE c /\ ~ Has(r, "result")
    BY <1>5, <2>1
  <2>2. CASE \E i \in DOMAIN r : r[i] = "busy" /\ \A j \in DOMAIN r : j > i => r[j] # "result"
    <3>1. \E k \in DOMAIN q : q[k] = "busy" /\ \A j \in DOMAIN q : j > k => q[j] # "result"
      BY <1>3, <2>2
    <3> QED  BY <3>1 DEF BusyAfter
  <2> QED  BY <1>8, <2>1, <2>2 DEF BusyAfter
<1> QED  BY <1>7, <1>8

(* A worker that compiles has told so, or will be heard to.                *)
LEMMA BusyHeard ==
  ASSUME NEW q, NEW b \in BOOLEAN, ~ Has(q, "busy"), ~ Has(q, "result")
  PROVE  BusyAfter(q, b) <=> b
BY DEF BusyAfter, Has

LEMMA FirstNone == ~ FrameFirst(<<>>)
BY DEF FrameFirst

(* What is put behind a first frame leaves it first; a frame behind no     *)
(* source is the first.                                                    *)
LEMMA FirstAppend ==
  ASSUME NEW M, NEW q \in Seq(M), NEW m \in M
  PROVE  FrameFirst(Append(q, m)) <=> FrameFirst(q) \/ (m = "frame" /\ ~ Has(q, "source"))
<1> DEFINE p == Append(q, m)
<1>1. PICK n \in Nat : /\ DOMAIN q = 1..n /\ DOMAIN p = 1..(n + 1) /\ p[n + 1] = m
                       /\ \A i \in 1..n : p[i] = q[i]
  BY AppendItems
<1> HIDE DEF p
<1>2. ASSUME FrameFirst(q) PROVE FrameFirst(p)
  BY <1>1, <1>2 DEF FrameFirst
<1>3. ASSUME m = "frame", ~ Has(q, "source") PROVE FrameFirst(p)
  BY <1>1, <1>3 DEF FrameFirst, Has
<1>4. ASSUME FrameFirst(p), ~ FrameFirst(q) PROVE m = "frame" /\ ~ Has(q, "source")
  <2>1. PICK i \in 1..(n + 1) : p[i] = "frame" /\ \A j \in 1..(n + 1) : j < i => p[j] # "source"
    BY <1>1, <1>4 DEF FrameFirst
  <2>2. i = n + 1
    BY <1>1, <1>4, <2>1 DEF FrameFirst
  <2> QED  BY <1>1, <2>1, <2>2 DEF Has
<1> QED  BY <1>2, <1>3, <1>4 DEF p

LEMMA FirstTail ==
  ASSUME NEW M, NEW q \in Seq(M), q # <<>>
  PROVE  FrameFirst(q) <=> Head(q) = "frame" \/ (Head(q) # "source" /\ FrameFirst(Tail(q)))
<1> DEFINE r == Tail(q)
           h == Head(q)
<1>1. /\ h = q[1]
      /\ \A i \in DOMAIN r : i + 1 \in DOMAIN q /\ r[i] = q[i + 1]
      /\ \A i \in DOMAIN q : i = 1 \/ (i - 1 \in DOMAIN r /\ r[i - 1] = q[i])
      /\ 1 \in DOMAIN q /\ DOMAIN q \subseteq Nat \ {0} /\ DOMAIN r \subseteq Nat \ {0}
  BY TailItems
<1> HIDE DEF r, h
<1>2. ASSUME h = "frame" PROVE FrameFirst(q)
  <2>1. \A j \in DOMAIN q : ~ (j < 1)
    BY <1>1
  <2> QED  BY <1>1, <1>2, <2>1 DEF FrameFirst
<1>3. ASSUME h # "source", FrameFirst(r) PROVE FrameFirst(q)
  <2>1. PICK i \in DOMAIN r : r[i] = "frame" /\ \A j \in DOMAIN r : j < i => r[j] # "source"
    BY <1>3 DEF FrameFirst
  <2>2. i + 1 \in DOMAIN q /\ q[i + 1] = "frame"
    BY <1>1, <2>1
  <2>3. \A j \in DOMAIN q : j < i + 1 => q[j] # "source"
    <3>1. i \in Nat
      BY <1>1
    <3> TAKE j \in DOMAIN q
    <3> HAVE j < i + 1
    <3>2. j \in Nat /\ (j = 1 \/ j - 1 < i)
      BY <1>1, <3>1
    <3> QED  BY <1>1, <1>3, <2>1, <3>2
  <2> QED  BY <2>2, <2>3 DEF FrameFirst
<1>4. ASSUME FrameFirst(q), h # "frame" PROVE h # "source" /\ FrameFirst(r)
  <2>1. PICK i \in DOMAIN q : q[i] = "frame" /\ \A j \in DOMAIN q : j < i => q[j] # "source"
    BY <1>4 DEF FrameFirst
  <2>2. i # 1 /\ i > 1 /\ i - 1 \in DOMAIN r /\ r[i - 1] = "frame" /\ h # "source"
    BY <1>1, <1>4, <2>1
  <2>3. \A j \in DOMAIN r : j < i - 1 => r[j] # "source"
    BY <1>1, <2>1
  <2> QED  BY <2>2, <2>3 DEF FrameFirst
<1> QED  BY <1>2, <1>3, <1>4 DEF r, h
-----------------------------------------------------------------------------
(* What the steps do. *)

LEMMA ObjectFields ==
  ASSUME NEW l \in Object
  PROVE  /\ {l.started, l.spawned, l.killing, l.restart_requested, l.gave_up,
             l.ping_outstanding, l.frame_outstanding, l.compile_busy} \subseteq BOOLEAN
         /\ {l.ping_sent, l.last_ping_time, l.frame_sent, l.compile_since,
             l.compile_wait_since} \subseteq (-Horizon)..0
         /\ l.compiles_pending \in Nat
BY DEF Object, Past

LEMMA Fields ==
  ASSUME Shape
  PROVE  /\ {logic.started, logic.spawned, logic.killing, logic.restart_requested, logic.gave_up,
             logic.ping_outstanding, logic.frame_outstanding, logic.compile_busy} \subseteq BOOLEAN
         /\ {logic.ping_sent, logic.last_ping_time, logic.frame_sent, logic.compile_since,
             logic.compile_wait_since} \subseteq (-Horizon)..0
         /\ logic.compiles_pending \in Nat
         /\ ui.phase \in {"reap", "drain", "ping", "send", "begin"}
         /\ ui.todo \in Nat /\ ui.kill_in \in Nat /\ ui.idle \in Nat /\ ui.waited \in 0..Horizon
         /\ ui.outstanding \in BOOLEAN /\ ui.killing \in BOOLEAN
         /\ worker.doing \in Doings /\ worker.age \in Nat /\ worker.hung \in BOOLEAN
BY ObjectFields DEF Shape, UiType, WorkerType

SameUi == /\ ui'.kill_in = ui.kill_in /\ ui'.idle = ui.idle /\ ui'.waited = ui.waited
          /\ ui'.killing = ui.killing /\ ui'.outstanding = ui.outstanding /\ ui'.todo = ui.todo
SameWorker == worker'.doing = worker.doing /\ worker'.age = worker.age /\ worker'.hung = worker.hung
SameQueues == inbox' = inbox /\ queue' = queue /\ toMain' = toMain

LEMMA ReapDoes ==
  ASSUME Shape, Reap, worker.doing = "dead" => logic.spawned
  PROVE  /\ Shape' /\ scene' = scene /\ ui.phase = "reap" /\ ui'.phase = "drain"
         /\ worker.doing = "dead" =>
              /\ Fresh(logic') /\ logic'.started = logic.started /\ ~ logic'.spawned
              /\ ~ logic'.restart_requested
              /\ ui'.kill_in = ui.kill_in /\ ui'.idle = ui.idle /\ ui'.waited = ui.waited
              /\ ~ ui'.killing /\ ~ ui'.outstanding /\ ui'.todo = ui.todo
              /\ worker'.doing = "none" /\ ~ worker'.hung
              /\ inbox' = <<>> /\ queue' = <<>> /\ toMain' = <<>>
         /\ worker.doing # "dead" =>
              /\ logic' = logic /\ SameUi /\ SameQueues
              /\ worker'.age = worker.age /\ worker'.hung = worker.hung
              /\ worker'.doing = IF ui.killing /\ Alive /\ ui.kill_in = 0 THEN "dead" ELSE worker.doing
<1>1. ui.phase = "reap" /\ scene' = scene /\ faults' = faults
  BY DEF Reap
<1>2. CASE worker.doing = "dead"
  <2>1. /\ logic' = Sup!OnWorkerExit(logic, 0)
        /\ ui' = [ui EXCEPT !.phase = "drain", !.killing = FALSE, !.outstanding = FALSE]
        /\ worker' = NoWorker
        /\ inbox' = <<>> /\ queue' = <<>> /\ toMain' = <<>>
    BY <1>2 DEF Reap
  <2>2. /\ logic' \in Object /\ Fresh(logic') /\ logic'.started = logic.started /\ ~ logic'.spawned
        /\ ~ logic'.restart_requested
    BY <1>2, <2>1, ExitDoes DEF Shape
  <2>3. /\ ui' \in UiType
        /\ ui'.kill_in = ui.kill_in /\ ui'.idle = ui.idle /\ ui'.waited = ui.waited
        /\ ~ ui'.killing /\ ~ ui'.outstanding /\ ui'.todo = ui.todo /\ ui'.phase = "drain"
    BY <2>1 DEF Shape, UiType, WorkerType
  <2>4. /\ worker' \in WorkerType
        /\ worker'.doing = "none" /\ ~ worker'.hung
    BY <2>1 DEF NoWorker, Doings, UiType, WorkerType
  <2>5. inbox' \in Seq(ToWorker) /\ queue' \in Seq(Tasks) /\ toMain' \in Seq(ToMain)
    BY <2>1
  <2>6. Shape'
    BY <1>1, <2>2, <2>3, <2>4, <2>5 DEF Shape
  <2> QED  BY <1>1, <1>2, <2>1, <2>2, <2>3, <2>4, <2>6
<1>3. CASE worker.doing # "dead"
  <2>1. /\ ui' = [ui EXCEPT !.phase = "drain"]
        /\ worker' = IF ui.killing /\ Alive /\ ui.kill_in = 0
                     THEN [worker EXCEPT !.doing = "dead"] ELSE worker
        /\ logic' = logic /\ inbox' = inbox /\ queue' = queue /\ toMain' = toMain
    BY <1>3 DEF Reap, Killed
  <2>2. /\ ui' \in UiType
        /\ SameUi /\ ui'.phase = "drain"
    BY <2>1 DEF Shape, SameUi, UiType, WorkerType
  <2>3. /\ worker' \in WorkerType
        /\ worker'.age = worker.age /\ worker'.hung = worker.hung
        /\ worker'.doing = IF ui.killing /\ Alive /\ ui.kill_in = 0 THEN "dead" ELSE worker.doing
    BY <2>1 DEF Shape, Doings, UiType, WorkerType
  <2>4. Shape'
    BY <1>1, <2>1, <2>2, <2>3 DEF Shape
  <2> QED  BY <1>1, <1>3, <2>1, <2>2, <2>3, <2>4 DEF SameQueues
<1> QED  BY <1>2, <1>3

LEMMA DrainDoes ==
  ASSUME Shape, Drain, logic.compile_busy => logic.busy_slide = 0
  PROVE  LET m == Head(toMain)
         IN  /\ Shape' /\ scene' = scene /\ ui.phase = "drain" /\ ui'.phase = "drain"
             /\ toMain # <<>> /\ toMain' = Tail(toMain) /\ m \in ToMain
             /\ inbox' = inbox /\ queue' = queue /\ worker' = worker
             /\ ui'.kill_in = ui.kill_in /\ ui'.idle = ui.idle /\ ui'.waited = ui.waited
             /\ ui'.killing = ui.killing /\ ui'.todo = ui.todo
             /\ ui'.outstanding <=> (ui.outstanding /\ m # "done")
             /\ SameLife(logic, logic')
             /\ logic'.ping_sent = logic.ping_sent /\ logic'.last_ping_time = logic.last_ping_time
             /\ logic'.ping_outstanding <=> (logic.ping_outstanding /\ m # "pong")
             /\ logic'.frame_outstanding <=> (logic.frame_outstanding /\ m # "done")
             /\ logic'.frame_sent = IF m = "result" /\ logic.frame_outstanding
                                    THEN 0 ELSE logic.frame_sent
             /\ logic'.compile_busy <=> (m = "busy" \/ (m # "result" /\ logic.compile_busy))
             /\ logic'.compile_busy => logic'.busy_slide = 0
             /\ logic'.compile_since = IF m = "busy" THEN 0 ELSE logic.compile_since
             /\ logic'.compiles_pending = IF m = "result" /\ logic.compiles_pending > 0
                                          THEN logic.compiles_pending - 1 ELSE logic.compiles_pending
             /\ logic'.compile_wait_since = IF m \in {"busy", "result"}
                                            THEN 0 ELSE logic.compile_wait_since
<1> DEFINE m == Head(toMain)
<1>1. /\ ui.phase = "drain" /\ toMain # <<>>
      /\ logic' = Heard(m) /\ toMain' = Tail(toMain)
      /\ ui' = [ui EXCEPT !.outstanding = ui.outstanding /\ m # "done"]
      /\ scene' = scene /\ inbox' = inbox /\ queue' = queue /\ worker' = worker /\ faults' = faults
  BY DEF Drain
<1>2. m \in ToMain /\ toMain' \in Seq(ToMain) /\ logic \in Object
  BY <1>1, TailItems DEF Shape
<1> HIDE DEF m
<1>3. /\ ui' \in UiType
      /\ ui'.kill_in = ui.kill_in /\ ui'.idle = ui.idle /\ ui'.waited = ui.waited
      /\ ui'.killing = ui.killing /\ ui'.todo = ui.todo /\ ui'.phase = "drain"
      /\ ui'.outstanding <=> (ui.outstanding /\ m # "done")
  <2> DEFINE out == ui.outstanding /\ m # "done"
  <2>1. out \in BOOLEAN /\ ui' = [ui EXCEPT !.outstanding = out]
    BY <1>1
  <2> HIDE DEF out
  <2>2. /\ ui' \in UiType
        /\ ui'.kill_in = ui.kill_in /\ ui'.idle = ui.idle /\ ui'.waited = ui.waited
        /\ ui'.killing = ui.killing /\ ui'.todo = ui.todo /\ ui'.phase = "drain"
        /\ ui'.outstanding = out
    BY <1>1, <2>1 DEF Shape, UiType, WorkerType
  <2> QED  BY <2>2 DEF out
<1>4. /\ logic' \in Object /\ SameLife(logic, logic')
      /\ logic'.ping_sent = logic.ping_sent /\ logic'.last_ping_time = logic.last_ping_time
      /\ logic'.ping_outstanding <=> (logic.ping_outstanding /\ m # "pong")
      /\ logic'.frame_outstanding <=> (logic.frame_outstanding /\ m # "done")
      /\ logic'.frame_sent = IF m = "result" /\ logic.frame_outstanding
                             THEN 0 ELSE logic.frame_sent
      /\ logic'.compile_busy <=> (m = "busy" \/ (m # "result" /\ logic.compile_busy))
      /\ logic'.compile_busy => logic'.busy_slide = 0
      /\ logic'.compile_since = IF m = "busy" THEN 0 ELSE logic.compile_since
      /\ logic'.compiles_pending = IF m = "result" /\ logic.compiles_pending > 0
                                   THEN logic.compiles_pending - 1 ELSE logic.compiles_pending
      /\ logic'.compile_wait_since = IF m \in {"busy", "result"}
                                     THEN 0 ELSE logic.compile_wait_since
  <2>1. CASE m = "ack"
    <3>1. logic' = Sup!OnHandshake(logic)
      BY <1>1, <2>1 DEF Heard
    <3> QED  BY <1>2, <2>1, <3>1, HandshakeDoes DEF SameLife, SamePing, SameFrame, SameCompile
  <2>2. CASE m = "pong"
    <3>1. logic' = Sup!OnPong(logic)
      BY <1>1, <2>2 DEF Heard
    <3> QED  BY <1>2, <2>2, <3>1, PongDoes DEF SameLife, SamePing, SameFrame, SameCompile
  <2>3. CASE m = "busy"
    <3>1. logic' = Sup!OnCompileBusy(logic, 0, 0)
      BY <1>1, <2>3 DEF Heard
    <3> QED  BY <1>2, <2>3, <3>1, BusyDoes DEF SameLife, SamePing, SameFrame, SameCompile
  <2>4. CASE m = "result"
    <3>1. logic' = Sup!OnCompileResult(logic, 0, 0)
      BY <1>1, <2>4 DEF Heard
    <3>2. logic.compiles_pending \in Nat
      BY <1>2, ObjectFields
    <3> QED  BY <1>2, <2>4, <3>1, <3>2, ResultDoes DEF SameLife, SamePing, SameFrame, SameCompile
  <2>5. CASE m = "done"
    <3>1. logic' = Sup!OnFrameDone(logic)
      BY <1>1, <2>5 DEF Heard
    <3> QED  BY <1>2, <2>5, <3>1, DoneDoes DEF SameLife, SamePing, SameFrame, SameCompile
  <2> QED  BY <1>2, <2>1, <2>2, <2>3, <2>4, <2>5 DEF ToMain
<1>5. Shape'
  BY <1>1, <1>2, <1>3, <1>4 DEF Shape
<1> QED  BY <1>1, <1>2, <1>3, <1>4, <1>5 DEF m

LEMMA Zero == 0 \in 0..Horizon
<1>1. Horizon \in Nat
  BY DeadlineAssumption
<1> QED  BY <1>1

LEMMA MoreMail ==
  ASSUME inbox \in Seq(ToWorker), NEW m \in ToWorker,
         inbox' = inbox \/ inbox' = Append(inbox, m)
  PROVE  inbox' \in Seq(ToWorker)
BY AppendItems

LEMMA SpawnDoes ==
  ASSUME Shape, Spawn, ~ logic.restart_requested
  PROVE  /\ Shape' /\ scene' = scene /\ Drained /\ ui'.phase = "send" /\ SameQueues
         /\ ui'.kill_in = ui.kill_in /\ ui'.idle = ui.idle /\ ui'.waited = ui.waited
         /\ ui'.killing = ui.killing /\ ui'.outstanding = ui.outstanding
         /\ ~ logic.spawned /\ Fresh(logic') /\ logic'.started = logic.started
         /\ ~ logic'.restart_requested
         /\ \/ /\ logic'.spawned /\ ~ logic'.gave_up /\ logic'.last_ping_time = 0
               /\ ui'.todo = scene.first
               /\ worker'.doing = "boot" /\ worker'.age = 0 /\ ~ worker'.hung
            \/ /\ ~ logic'.spawned /\ ui'.todo = ui.todo /\ worker' = worker
<1> DEFINE d == Sup!Update(logic, 0, Sup!Overdue(logic, 0))
           s == Sup!OnSpawned(d, 0)
           e == Sup!OnWorkerExit(s, 0)
<1>1. Verdict = "Spawn" /\ Drained /\ scene' = scene /\ SameQueues
  BY DEF Spawn, SameQueues
<1>2. /\ d \in Object /\ SameLife(logic, d) /\ ~ logic.gave_up /\ ~ logic.spawned
  BY <1>1, SpawnUpdate DEF Verdict, Shape
<1>3. /\ s \in Object /\ Fresh(s) /\ s.started = logic.started /\ s.spawned
      /\ ~ s.restart_requested /\ ~ s.gave_up /\ s.last_ping_time = 0
  <2> HIDE DEF d
  <2> QED  BY <1>2, SpawnedDoes DEF SameLife
<1>4. /\ e \in Object /\ Fresh(e) /\ e.started = logic.started /\ ~ e.spawned
      /\ ~ e.restart_requested
  <2> HIDE DEF s
  <2> QED  BY <1>3, ExitDoes
<1>5. CASE /\ logic' = s /\ faults' = faults
           /\ worker' = [Doing("boot") EXCEPT !.hung = FALSE]
           /\ ui' = [ui EXCEPT !.phase = "send", !.todo = scene.first]
  <2>1. /\ ui' \in UiType /\ ui'.phase = "send"
        /\ ui'.kill_in = ui.kill_in /\ ui'.idle = ui.idle /\ ui'.waited = ui.waited
        /\ ui'.killing = ui.killing /\ ui'.outstanding = ui.outstanding /\ ui'.todo = scene.first
    BY <1>5, SceneFacts DEF Shape, UiType
  <2>2. /\ worker' \in WorkerType
        /\ worker'.doing = "boot" /\ worker'.age = 0 /\ ~ worker'.hung
    BY <1>5 DEF Shape, WorkerType, Doing, Doings
  <2>3. Shape'
    <3> HIDE DEF s
    <3> QED  BY <1>1, <1>3, <1>5, <2>1, <2>2 DEF Shape, UiType, WorkerType, SameQueues
  <2> HIDE DEF s
  <2> QED  BY <1>1, <1>2, <1>3, <1>5, <2>1, <2>2, <2>3
<1>6. CASE /\ logic' = e /\ ui' = [ui EXCEPT !.phase = "send"] /\ worker' = worker
           /\ faults' = [faults EXCEPT !.crashes = @ + 1]
  <2>1. /\ ui' \in UiType /\ ui'.phase = "send"
        /\ ui'.kill_in = ui.kill_in /\ ui'.idle = ui.idle /\ ui'.waited = ui.waited
        /\ ui'.killing = ui.killing /\ ui'.outstanding = ui.outstanding /\ ui'.todo = ui.todo
    BY <1>6 DEF Shape, UiType
  <2>2. faults' \in [hangs : Nat, crashes : Nat]
    <3> DEFINE n == faults.crashes + 1
    <3>1. faults \in [hangs : Nat, crashes : Nat] /\ faults' = [faults EXCEPT !.crashes = n]
      BY <1>6 DEF Shape
    <3>2. n \in Nat
      BY <3>1
    <3> HIDE DEF n
    <3> QED  BY <3>1, <3>2
  <2>3. Shape'
    <3> HIDE DEF e
    <3> QED  BY <1>1, <1>4, <1>6, <2>1, <2>2 DEF Shape, UiType, SameQueues
  <2> HIDE DEF e
  <2> QED  BY <1>1, <1>2, <1>4, <1>6, <2>1, <2>3
<1>7. \/ /\ logic' = s /\ faults' = faults
         /\ worker' = [Doing("boot") EXCEPT !.hung = FALSE]
         /\ ui' = [ui EXCEPT !.phase = "send", !.todo = scene.first]
      \/ /\ logic' = e /\ ui' = [ui EXCEPT !.phase = "send"] /\ worker' = worker
         /\ faults' = [faults EXCEPT !.crashes = @ + 1]
  BY DEF Spawn, Decided
<1> QED  BY <1>5, <1>6, <1>7

LEMMA KillDoes ==
  ASSUME Shape, Kill
  PROVE  /\ Shape' /\ scene' = scene /\ Drained /\ ui'.phase = "send" /\ SameQueues
         /\ logic.spawned /\ ~ logic.killing /\ (logic.restart_requested \/ Sup!Overdue(logic, 0))
         /\ logic'.started = logic.started /\ logic'.spawned /\ logic'.gave_up = logic.gave_up
         /\ logic'.killing /\ ~ logic'.restart_requested
         /\ SamePing(logic, logic') /\ SameFrame(logic, logic') /\ SameCompile(logic, logic')
         /\ ui'.killing /\ ui'.kill_in = KillGrace /\ ui'.todo = ui.todo
         /\ ui'.outstanding = ui.outstanding /\ ui'.idle = ui.idle /\ ui'.waited = ui.waited
         /\ worker'.age = worker.age /\ worker'.hung = worker.hung
         /\ worker'.doing = IF scene.deaf \/ ~ Alive THEN worker.doing ELSE "dead"
<1>1. /\ Verdict = "Kill" /\ Drained /\ scene' = scene /\ SameQueues /\ faults' = faults
      /\ logic' = Decided
      /\ ui' = [ui EXCEPT !.phase = "send", !.killing = TRUE, !.kill_in = KillGrace]
      /\ worker' = IF scene.deaf \/ ~ Alive THEN worker ELSE [worker EXCEPT !.doing = "dead"]
  BY DEF Kill, SameQueues, Killed
<1>2. /\ logic' \in Object /\ logic'.started = logic.started /\ logic'.spawned = logic.spawned
      /\ logic'.gave_up = logic.gave_up
      /\ logic'.killing /\ ~ logic'.restart_requested
      /\ SamePing(logic, logic') /\ SameFrame(logic, logic') /\ SameCompile(logic, logic')
      /\ logic.spawned /\ ~ logic.killing
      /\ logic.restart_requested \/ Sup!Overdue(logic, 0)
  BY <1>1, KillUpdate DEF Verdict, Decided, Shape
<1>3. /\ ui' \in UiType /\ ui'.phase = "send" /\ ui'.killing /\ ui'.kill_in = KillGrace
      /\ ui'.todo = ui.todo /\ ui'.outstanding = ui.outstanding
      /\ ui'.idle = ui.idle /\ ui'.waited = ui.waited
  BY <1>1, Deadlines DEF Shape, UiType
<1>4. /\ worker' \in WorkerType
      /\ worker'.age = worker.age /\ worker'.hung = worker.hung
      /\ worker'.doing = IF scene.deaf \/ ~ Alive THEN worker.doing ELSE "dead"
  BY <1>1 DEF Shape, WorkerType, Doings
<1>5. Shape'
  BY <1>1, <1>2, <1>3, <1>4 DEF Shape, UiType, WorkerType, SameQueues
<1> QED  BY <1>1, <1>2, <1>3, <1>4, <1>5

LEMMA LeaveAloneDoes ==
  ASSUME Shape, LeaveAlone
  PROVE  /\ Shape' /\ scene' = scene /\ logic' = logic /\ worker' = worker /\ Drained /\ SameQueues
         /\ Verdict = "None"
         /\ logic.started /\ ~ logic.gave_up /\ logic.spawned /\ ~ logic.killing
              => ~ Sup!Overdue(logic, 0)
         /\ ui'.phase = IF Alive /\ Sup!ShouldPing(logic, 0) THEN "ping" ELSE "send"
         /\ ui'.kill_in = ui.kill_in /\ ui'.idle = ui.idle /\ ui'.waited = ui.waited
         /\ ui'.killing = ui.killing /\ ui'.outstanding = ui.outstanding
<1>1. /\ Verdict = "None" /\ Drained /\ scene' = scene /\ SameQueues /\ faults' = faults
      /\ worker' = worker /\ logic' = Decided
  BY DEF LeaveAlone, SameQueues
<1>2. PICK n \in 0..1 :
        ui' = [ui EXCEPT !.phase = IF Alive /\ Sup!ShouldPing(Decided, 0) THEN "ping" ELSE "send",
                         !.todo = n]
  BY DEF LeaveAlone
<1>3. /\ Decided = logic
      /\ logic.started /\ ~ logic.gave_up /\ logic.spawned /\ ~ logic.killing
           => ~ Sup!Overdue(logic, 0)
  BY <1>1, NoUpdate DEF Verdict, Decided, Shape
<1> DEFINE ph == IF Alive /\ Sup!ShouldPing(logic, 0) THEN "ping" ELSE "send"
<1>4. ui' = [ui EXCEPT !.phase = ph, !.todo = n] /\ ph \in {"ping", "send"} /\ n \in Nat
  BY <1>2, <1>3
<1> HIDE DEF ph
<1>5. /\ ui' \in UiType /\ ui'.phase = ph
      /\ ui'.kill_in = ui.kill_in /\ ui'.idle = ui.idle /\ ui'.waited = ui.waited
      /\ ui'.killing = ui.killing /\ ui'.outstanding = ui.outstanding
  BY <1>4 DEF Shape, UiType
<1>6. Shape'
  BY <1>1, <1>3, <1>5 DEF Shape, UiType, SameQueues
<1> QED  BY <1>1, <1>3, <1>5, <1>6 DEF ph

LEMMA PingStepDoes ==
  ASSUME Shape, Ping
  PROVE  /\ Shape' /\ scene' = scene /\ worker' = worker /\ queue' = queue /\ toMain' = toMain
         /\ ui.phase = "ping" /\ ui'.phase = "send" /\ (Room \/ ~ Alive)
         /\ ui'.kill_in = ui.kill_in /\ ui'.idle = ui.idle /\ ui'.waited \in {0, ui.waited}
         /\ ui'.killing = ui.killing /\ ui'.outstanding = ui.outstanding /\ ui'.todo = ui.todo
         /\ ~ Alive => inbox' = inbox /\ logic' = logic
         /\ Alive => /\ inbox' = Append(inbox, "ping")
                     /\ SameLife(logic, logic') /\ SameFrame(logic, logic')
                     /\ SameCompile(logic, logic')
                     /\ logic'.ping_outstanding /\ logic'.ping_sent = - ui.waited
                     /\ logic'.last_ping_time = - ui.waited
<1>1. /\ scene' = scene /\ worker' = worker /\ queue' = queue /\ toMain' = toMain /\ faults' = faults
      /\ ui.phase = "ping" /\ (Room \/ ~ Alive)
      /\ ~ Alive => inbox' = inbox /\ logic' = logic
      /\ Alive => inbox' = Append(inbox, "ping") /\ logic' = Sup!OnPingSent(logic, - ui.waited)
  BY DEF Ping, Sent
<1>2. PICK w \in {0, ui.waited} : ui' = [ui EXCEPT !.phase = "send", !.waited = w]
  BY DEF Ping
<1>3. /\ ui' \in UiType /\ ui'.phase = "send"
      /\ ui'.kill_in = ui.kill_in /\ ui'.idle = ui.idle /\ ui'.waited \in {0, ui.waited}
      /\ ui'.killing = ui.killing /\ ui'.outstanding = ui.outstanding /\ ui'.todo = ui.todo
  <2>1. w \in 0..Horizon
    <3>1. ui.waited \in 0..Horizon
      BY Fields
    <3> QED  BY <1>2, <3>1, Zero
  <2> QED  BY <1>2, <2>1 DEF Shape, UiType
<1>4. Alive => /\ logic' \in Object
               /\ SameLife(logic, logic') /\ SameFrame(logic, logic')
               /\ SameCompile(logic, logic')
               /\ logic'.ping_outstanding /\ logic'.ping_sent = - ui.waited
               /\ logic'.last_ping_time = - ui.waited
  <2>1. - ui.waited \in Past
    BY Fields, Deadlines DEF Past
  <2> QED  BY <1>1, <2>1, PingDoes DEF Shape
<1>5. inbox' \in Seq(ToWorker)
  <2>1. "ping" \in ToWorker /\ inbox \in Seq(ToWorker)
    BY DEF Shape, ToWorker
  <2> QED  BY <1>1, <2>1, MoreMail
<1>6. Shape'
  BY <1>1, <1>3, <1>4, <1>5 DEF Shape, UiType
<1> QED  BY <1>1, <1>3, <1>4, <1>6

LEMMA SubmitDoes ==
  ASSUME Shape, Submit
  PROVE  /\ Shape' /\ scene' = scene /\ worker' = worker /\ queue' = queue /\ toMain' = toMain
         /\ ui.phase = "send" /\ ui'.phase = "send" /\ ui.todo > 0 /\ (Room \/ ~ Alive)
         /\ ui'.kill_in = ui.kill_in /\ ui'.idle = ui.idle /\ ui'.waited = 0
         /\ ui'.killing = ui.killing /\ ui'.outstanding = ui.outstanding
         /\ ui'.todo = ui.todo - 1
         /\ ~ Alive => inbox' = inbox /\ logic' = logic
         /\ Alive => /\ inbox' = Append(inbox, "source")
                     /\ SameLife(logic, logic') /\ SameFrame(logic, logic')
                     /\ SamePing(logic, logic')
                     /\ logic'.compile_busy = logic.compile_busy
                     /\ logic'.busy_slide = logic.busy_slide
                     /\ logic'.compile_since = logic.compile_since
                     /\ logic'.compiles_pending = logic.compiles_pending + 1
                     /\ logic'.compile_wait_since =
                          IF logic.compiles_pending = 0 THEN - ui.waited
                          ELSE logic.compile_wait_since
<1>1. /\ scene' = scene /\ worker' = worker /\ queue' = queue /\ toMain' = toMain /\ faults' = faults
      /\ ui.phase = "send" /\ ui.todo > 0 /\ (Room \/ ~ Alive)
      /\ ~ Alive => inbox' = inbox /\ logic' = logic
      /\ Alive => inbox' = Append(inbox, "source") /\ logic' = Sup!OnCompileSubmitted(logic, - ui.waited)
      /\ ui' = [ui EXCEPT !.todo = ui.todo - 1, !.waited = 0]
  BY DEF Submit, Sent
<1>2. /\ ui' \in UiType /\ ui'.phase = "send"
      /\ ui'.kill_in = ui.kill_in /\ ui'.idle = ui.idle /\ ui'.waited = 0
      /\ ui'.killing = ui.killing /\ ui'.outstanding = ui.outstanding /\ ui'.todo = ui.todo - 1
  <2>1. ui.todo - 1 \in Nat /\ 0 \in 0..Horizon
    <3>1. ui.todo \in Nat
      BY Fields
    <3> QED  BY <1>1, <3>1, Zero
  <2> DEFINE t == ui.todo - 1
  <2>2. ui' = [ui EXCEPT !.todo = t, !.waited = 0] /\ t \in Nat
    BY <1>1, <2>1
  <2> HIDE DEF t
  <2>3. /\ ui' \in UiType /\ ui'.phase = "send"
        /\ ui'.kill_in = ui.kill_in /\ ui'.idle = ui.idle /\ ui'.waited = 0
        /\ ui'.killing = ui.killing /\ ui'.outstanding = ui.outstanding /\ ui'.todo = t
    BY <1>1, <2>1, <2>2 DEF Shape, UiType
  <2> QED  BY <2>3 DEF t
<1>3. Alive => /\ logic' \in Object
               /\ SameLife(logic, logic') /\ SameFrame(logic, logic')
               /\ SamePing(logic, logic')
               /\ logic'.compile_busy = logic.compile_busy
               /\ logic'.busy_slide = logic.busy_slide
               /\ logic'.compile_since = logic.compile_since
               /\ logic'.compiles_pending = logic.compiles_pending + 1
               /\ logic'.compile_wait_since =
                    IF logic.compiles_pending = 0 THEN - ui.waited
                    ELSE logic.compile_wait_since
  <2>1. - ui.waited \in Past
    BY Fields, Deadlines DEF Past
  <2> QED  BY <1>1, <2>1, SubmittedDoes DEF Shape
<1>4. inbox' \in Seq(ToWorker)
  <2>1. "source" \in ToWorker /\ inbox \in Seq(ToWorker)
    BY DEF Shape, ToWorker
  <2> QED  BY <1>1, <2>1, MoreMail
<1>5. Shape'
  BY <1>1, <1>2, <1>3, <1>4 DEF Shape, UiType
<1> QED  BY <1>1, <1>2, <1>3, <1>5

LEMMA EndFrameDoes ==
  ASSUME Shape, EndFrame
  PROVE  /\ Shape' /\ scene' = scene /\ worker' = worker /\ logic' = logic /\ SameQueues
         /\ ui.phase = "send" /\ ui.todo = 0 /\ ui'.todo = 0
         /\ ui'.kill_in = ui.kill_in /\ ui'.killing = ui.killing
         /\ ui'.outstanding = ui.outstanding
         /\ \/ ui'.phase = "reap" /\ ui'.idle = 0 /\ ui'.waited = 0
            \/ /\ ui'.phase = "begin" /\ ui'.idle = ui.idle /\ ui'.waited = ui.waited
               /\ Alive /\ ~ ui.outstanding
<1>1. /\ scene' = scene /\ worker' = worker /\ logic' = logic /\ SameQueues /\ faults' = faults
      /\ ui.phase = "send" /\ ui.todo = 0
      /\ \/ ui' = [ui EXCEPT !.phase = "reap", !.idle = 0, !.waited = 0]
         \/ /\ Alive /\ ~ ui.outstanding
            /\ ui' = [ui EXCEPT !.phase = "begin"]
  BY DEF EndFrame, SameQueues
<1>2. /\ ui' \in UiType
      /\ ui'.todo = 0 /\ ui'.kill_in = ui.kill_in /\ ui'.killing = ui.killing
      /\ ui'.outstanding = ui.outstanding
      /\ \/ ui'.phase = "reap" /\ ui'.idle = 0 /\ ui'.waited = 0
         \/ /\ ui'.phase = "begin" /\ ui'.idle = ui.idle /\ ui'.waited = ui.waited
            /\ Alive /\ ~ ui.outstanding
  BY <1>1, Zero DEF Shape, UiType
<1>3. Shape'
  BY <1>1, <1>2 DEF Shape, UiType, SameQueues
<1> QED  BY <1>1, <1>2, <1>3

LEMMA BeginStepDoes ==
  ASSUME Shape, Begin
  PROVE  /\ Shape' /\ scene' = scene /\ worker' = worker /\ queue' = queue /\ toMain' = toMain
         /\ ui.phase = "begin" /\ ui'.phase = "reap" /\ (Room \/ ~ Alive)
         /\ ui'.kill_in = ui.kill_in /\ ui'.idle = 0 /\ ui'.waited = 0
         /\ ui'.killing = ui.killing /\ ui'.todo = ui.todo
         /\ ui'.outstanding <=> Alive
         /\ ~ Alive => inbox' = inbox /\ logic' = logic
         /\ Alive => /\ inbox' = Append(inbox, "frame")
                     /\ SameLife(logic, logic') /\ SamePing(logic, logic')
                     /\ SameCompile(logic, logic')
                     /\ logic'.frame_outstanding /\ logic'.frame_sent = 0
<1>1. /\ scene' = scene /\ worker' = worker /\ queue' = queue /\ toMain' = toMain /\ faults' = faults
      /\ ui.phase = "begin" /\ (Room \/ ~ Alive)
      /\ ~ Alive => inbox' = inbox /\ logic' = logic
      /\ Alive => inbox' = Append(inbox, "frame") /\ logic' = Sup!OnFrameBeginSent(logic, 0)
      /\ ui' = [ui EXCEPT !.phase = "reap", !.idle = 0, !.waited = 0, !.outstanding = Alive]
  BY DEF Begin, Sent
<1>2. /\ ui' \in UiType /\ ui'.phase = "reap"
      /\ ui'.kill_in = ui.kill_in /\ ui'.idle = 0 /\ ui'.waited = 0
      /\ ui'.killing = ui.killing /\ ui'.todo = ui.todo
      /\ ui'.outstanding <=> Alive
  <2> DEFINE a == Alive
  <2>1. /\ ui' = [ui EXCEPT !.phase = "reap", !.idle = 0, !.waited = 0, !.outstanding = a]
        /\ a \in BOOLEAN
    BY <1>1 DEF Alive
  <2> HIDE DEF a
  <2>2. /\ ui' \in UiType /\ ui'.phase = "reap"
        /\ ui'.kill_in = ui.kill_in /\ ui'.idle = 0 /\ ui'.waited = 0
        /\ ui'.killing = ui.killing /\ ui'.outstanding = a /\ ui'.todo = ui.todo
    BY <2>1, Zero DEF Shape, UiType
  <2> QED  BY <2>2 DEF a
<1>3. Alive => /\ logic' \in Object
               /\ SameLife(logic, logic') /\ SamePing(logic, logic')
               /\ SameCompile(logic, logic')
               /\ logic'.frame_outstanding /\ logic'.frame_sent = 0
  <2>1. 0 \in Past
    BY Deadlines DEF Past
  <2> QED  BY <1>1, <2>1, BeginDoes DEF Shape
<1>4. inbox' \in Seq(ToWorker)
  <2>1. "frame" \in ToWorker /\ inbox \in Seq(ToWorker)
    BY DEF Shape, ToWorker
  <2> QED  BY <1>1, <2>1, MoreMail
<1>5. Shape'
  BY <1>1, <1>2, <1>3, <1>4 DEF Shape, UiType
<1> QED  BY <1>1, <1>2, <1>3, <1>5

SameLogicUi == logic' = logic /\ ui' = ui /\ scene' = scene

LEMMA AppendTyped ==
  ASSUME NEW M, NEW q \in Seq(M), NEW m \in M
  PROVE  Append(q, m) \in Seq(M)
OBVIOUS

LEMMA IORecvDoes ==
  ASSUME Shape, IORecv
  PROVE  /\ Shape' /\ SameLogicUi /\ worker' = worker /\ Listens
         /\ inbox # <<>> /\ inbox' = Tail(inbox) /\ Head(inbox) \in ToWorker
         /\ Head(inbox) = "ping" => queue' = queue /\ toMain' = Append(toMain, "pong")
         /\ Head(inbox) # "ping" => /\ Head(inbox) \in Tasks
                                    /\ queue' = Append(queue, Head(inbox)) /\ toMain' = toMain
<1>1. /\ SameLogicUi /\ worker' = worker /\ faults' = faults /\ Listens
      /\ inbox # <<>> /\ inbox' = Tail(inbox)
      /\ Head(inbox) = "ping" => queue' = queue /\ toMain' = Append(toMain, "pong")
      /\ Head(inbox) # "ping" => queue' = Append(queue, Head(inbox)) /\ toMain' = toMain
  BY DEF IORecv, SameLogicUi
<1>2. Head(inbox) \in ToWorker /\ inbox' \in Seq(ToWorker)
  BY <1>1, TailItems DEF Shape
<1>3. Head(inbox) # "ping" => Head(inbox) \in Tasks
  BY <1>2 DEF ToWorker, Tasks
<1>4. queue' \in Seq(Tasks) /\ toMain' \in Seq(ToMain)
  <2>1. CASE Head(inbox) = "ping"
    <3>1. "pong" \in ToMain
      BY DEF ToMain
    <3>2. toMain \in Seq(ToMain) /\ queue \in Seq(Tasks)
      BY DEF Shape
    <3> QED  BY Zenon, <1>1, <2>1, <3>1, <3>2, AppendTyped
  <2>2. CASE Head(inbox) # "ping"
    <3>1. toMain \in Seq(ToMain) /\ queue \in Seq(Tasks)
      BY DEF Shape
    <3> QED  BY Zenon, <1>1, <1>3, <2>2, <3>1, AppendTyped
  <2> QED  BY <2>1, <2>2
<1>5. Shape'
  BY <1>1, <1>2, <1>4 DEF Shape, SameLogicUi
<1> QED  BY <1>1, <1>2, <1>3, <1>5

LEMMA BootDoes ==
  ASSUME Shape, Boot
  PROVE  /\ Shape' /\ SameLogicUi /\ inbox' = inbox /\ queue' = queue
         /\ ~ worker.hung /\ worker.doing = "boot" /\ toMain' = Append(toMain, "ack")
         /\ ~ worker'.hung
         /\ \/ worker'.doing = "engine" /\ worker'.age = 0
            \/ worker'.doing = "dead" /\ worker'.age = worker.age
<1>1. /\ SameLogicUi /\ inbox' = inbox /\ queue' = queue /\ faults' = faults
      /\ ~ worker.hung /\ worker.doing = "boot" /\ toMain' = Append(toMain, "ack")
      /\ \/ worker' = [worker EXCEPT !.doing = "engine", !.age = 0]
         \/ worker' = [worker EXCEPT !.doing = "dead"]
  BY DEF Boot, Works, Doing, Killed, SameLogicUi
<1>2. /\ worker' \in WorkerType /\ ~ worker'.hung
      /\ \/ worker'.doing = "engine" /\ worker'.age = 0
         \/ worker'.doing = "dead" /\ worker'.age = worker.age
  <2>1. CASE worker' = [worker EXCEPT !.doing = "engine", !.age = 0]
    BY <1>1, <2>1 DEF Shape, WorkerType, Doings
  <2>2. CASE worker' = [worker EXCEPT !.doing = "dead"]
    BY <1>1, <2>2 DEF Shape, WorkerType, Doings
  <2> QED  BY <1>1, <2>1, <2>2
<1>3. toMain' \in Seq(ToMain)
  <2>1. "ack" \in ToMain
    BY DEF ToMain
  <2> QED  BY <1>1, <2>1, AppendItems DEF Shape
<1>4. Shape'
  BY <1>1, <1>2, <1>3 DEF Shape, WorkerType, SameLogicUi
<1> QED  BY <1>1, <1>2, <1>4

LEMMA EngineBuiltDoes ==
  ASSUME Shape, EngineBuilt
  PROVE  /\ Shape' /\ SameLogicUi /\ SameQueues
         /\ ~ worker.hung /\ worker.doing = "engine"
         /\ ~ worker'.hung /\ worker'.doing = "idle" /\ worker'.age = 0
<1>1. /\ SameLogicUi /\ SameQueues /\ faults' = faults
      /\ ~ worker.hung /\ worker.doing = "engine"
      /\ worker' = [worker EXCEPT !.doing = "idle", !.age = 0]
  BY DEF EngineBuilt, Works, Doing, SameLogicUi, SameQueues
<1>2. worker' \in WorkerType /\ ~ worker'.hung /\ worker'.doing = "idle" /\ worker'.age = 0
  BY <1>1 DEF Shape, WorkerType, Doings
<1>3. Shape'
  BY <1>1, <1>2 DEF Shape, WorkerType, SameLogicUi, SameQueues
<1> QED  BY <1>1, <1>2, <1>3

LEMMA TakeDoes ==
  ASSUME Shape, Take
  PROVE  /\ Shape' /\ SameLogicUi /\ inbox' = inbox
         /\ ~ worker.hung /\ worker.doing = "idle"
         /\ queue # <<>> /\ queue' = Tail(queue) /\ Head(queue) \in Tasks
         /\ ~ worker'.hung /\ worker'.age = 0
         /\ \/ /\ Head(queue) = "source" /\ worker'.doing = "compile"
               /\ toMain' = Append(toMain, "busy")
            \/ Head(queue) = "frame" /\ worker'.doing = "frame" /\ toMain' = toMain
<1>1. /\ SameLogicUi /\ inbox' = inbox /\ faults' = faults
      /\ ~ worker.hung /\ worker.doing = "idle" /\ queue # <<>> /\ queue' = Tail(queue)
      /\ IF Head(queue) = "source"
         THEN worker' = [worker EXCEPT !.doing = "compile", !.age = 0] /\ toMain' = Append(toMain, "busy")
         ELSE worker' = [worker EXCEPT !.doing = "frame", !.age = 0] /\ toMain' = toMain
  BY DEF Take, Works, Doing, SameLogicUi
<1>2. Head(queue) \in Tasks /\ queue' \in Seq(Tasks)
  BY <1>1, TailItems DEF Shape
<1>3. /\ worker' \in WorkerType /\ ~ worker'.hung /\ worker'.age = 0
      /\ worker'.doing = IF Head(queue) = "source" THEN "compile" ELSE "frame"
  <2>1. CASE worker' = [worker EXCEPT !.doing = "compile", !.age = 0] /\ Head(queue) = "source"
    BY <1>1, <2>1 DEF Shape, WorkerType, Doings
  <2>2. CASE worker' = [worker EXCEPT !.doing = "frame", !.age = 0] /\ Head(queue) # "source"
    BY <1>1, <2>2 DEF Shape, WorkerType, Doings
  <2> QED  BY <1>1, <2>1, <2>2
<1>4. toMain' \in Seq(ToMain)
  <2>1. "busy" \in ToMain /\ toMain \in Seq(ToMain)
    BY DEF ToMain, Shape
  <2> QED  BY Zenon, <1>1, <2>1, AppendTyped
<1>5. Shape'
  BY <1>1, <1>2, <1>3, <1>4 DEF Shape, WorkerType, SameLogicUi
<1>6. Head(queue) # "source" => Head(queue) = "frame"
  BY <1>2 DEF Tasks
<1> QED  BY <1>1, <1>2, <1>3, <1>5, <1>6

LEMMA FinishDoes ==
  ASSUME Shape, Finish
  PROVE  /\ Shape' /\ SameLogicUi /\ inbox' = inbox /\ queue' = queue
         /\ ~ worker.hung /\ worker'.doing = "idle" /\ ~ worker'.hung /\ worker'.age = 0
         /\ \/ worker.doing = "compile" /\ toMain' = Append(toMain, "result")
            \/ worker.doing = "frame" /\ toMain' = Append(toMain, "done")
<1>1. /\ SameLogicUi /\ inbox' = inbox /\ queue' = queue /\ faults' = faults
      /\ ~ worker.hung /\ worker' = [worker EXCEPT !.doing = "idle", !.age = 0]
      /\ \/ worker.doing = "compile" /\ toMain' = Append(toMain, "result")
         \/ worker.doing = "frame" /\ toMain' = Append(toMain, "done")
  BY DEF Finish, Works, Doing, SameLogicUi
<1>2. worker' \in WorkerType /\ ~ worker'.hung /\ worker'.doing = "idle" /\ worker'.age = 0
  BY <1>1 DEF Shape, WorkerType, Doings
<1>3. toMain' \in Seq(ToMain)
  <2>1. "result" \in ToMain /\ "done" \in ToMain /\ toMain \in Seq(ToMain)
    BY DEF ToMain, Shape
  <2> QED  BY Zenon, <1>1, <2>1, AppendTyped
<1>4. Shape'
  BY <1>1, <1>2, <1>3 DEF Shape, WorkerType, SameLogicUi
<1> QED  BY <1>1, <1>2, <1>4

LEMMA HangDoes ==
  ASSUME Shape, Hang
  PROVE  /\ Shape' /\ SameLogicUi /\ SameQueues /\ Alive /\ ~ worker.hung
         /\ worker.doing # "idle"
         /\ worker'.hung /\ worker'.doing = worker.doing /\ worker'.age = worker.age
<1>1. /\ SameLogicUi /\ SameQueues /\ Alive /\ ~ worker.hung /\ worker.doing # "idle"
      /\ worker' = [worker EXCEPT !.hung = TRUE]
      /\ faults' = [faults EXCEPT !.hangs = faults.hangs + 1]
  BY DEF Hang, Works, SameLogicUi, SameQueues
<1>2. /\ worker' \in WorkerType
      /\ worker'.hung /\ worker'.doing = worker.doing /\ worker'.age = worker.age
  BY <1>1 DEF Shape, WorkerType
<1>3. faults' \in [hangs : Nat, crashes : Nat]
  <2> DEFINE n == faults.hangs + 1
  <2>1. faults \in [hangs : Nat, crashes : Nat] /\ faults' = [faults EXCEPT !.hangs = n]
    BY <1>1 DEF Shape
  <2>2. n \in Nat
    BY <2>1
  <2> HIDE DEF n
  <2> QED  BY <2>1, <2>2
<1>4. Shape'
  BY <1>1, <1>2, <1>3 DEF Shape, WorkerType, SameLogicUi, SameQueues
<1> QED  BY <1>1, <1>2, <1>4

LEMMA CrashDoes ==
  ASSUME Shape, Crash
  PROVE  /\ Shape' /\ SameLogicUi /\ SameQueues /\ Alive
         /\ worker'.doing = "dead" /\ worker'.hung = worker.hung
<1>1. /\ SameLogicUi /\ SameQueues /\ Alive
      /\ worker' = [worker EXCEPT !.doing = "dead"]
      /\ faults' = [faults EXCEPT !.crashes = faults.crashes + 1]
  BY DEF Crash, Killed, SameLogicUi, SameQueues
<1>2. worker' \in WorkerType /\ worker'.doing = "dead" /\ worker'.hung = worker.hung
  BY <1>1 DEF Shape, WorkerType, Doings
<1>3. faults' \in [hangs : Nat, crashes : Nat]
  <2> DEFINE n == faults.crashes + 1
  <2>1. faults \in [hangs : Nat, crashes : Nat] /\ faults' = [faults EXCEPT !.crashes = n]
    BY <1>1 DEF Shape
  <2>2. n \in Nat
    BY <2>1
  <2> HIDE DEF n
  <2> QED  BY <2>1, <2>2
<1>4. Shape'
  BY <1>1, <1>2, <1>3 DEF Shape, WorkerType, SameLogicUi, SameQueues
<1> QED  BY <1>1, <1>2, <1>4

LEMMA TickDoes ==
  ASSUME Shape, Tick
  PROVE  /\ Shape' /\ scene' = scene /\ SameQueues
         /\ Blocked \/ (ui.phase = "reap" /\ ui.idle < scene.pause)
         /\ Prompt
         /\ ui'.phase = ui.phase /\ ui'.todo = ui.todo
         /\ ui'.killing = ui.killing /\ ui'.outstanding = ui.outstanding
         /\ ui'.idle = IF Blocked THEN ui.idle ELSE ui.idle + 1
         /\ ui'.waited = IF Blocked /\ ui.waited < Horizon THEN ui.waited + 1 ELSE ui.waited
         /\ ui'.kill_in = IF ui.kill_in > 0 THEN ui.kill_in - 1 ELSE 0
         /\ worker'.doing = worker.doing /\ worker'.hung = worker.hung
         /\ worker'.age = IF Works /\ worker.doing # "idle" THEN worker.age + 1 ELSE 0
         /\ SameLife(logic, logic')
         /\ logic'.ping_outstanding = logic.ping_outstanding
         /\ logic'.frame_outstanding = logic.frame_outstanding
         /\ logic'.compile_busy = logic.compile_busy /\ logic'.busy_slide = logic.busy_slide
         /\ logic'.compiles_pending = logic.compiles_pending
         /\ logic'.ping_sent = Older(logic.ping_sent)
         /\ logic'.last_ping_time = Older(logic.last_ping_time)
         /\ logic'.frame_sent = Older(logic.frame_sent)
         /\ logic'.compile_since = Older(logic.compile_since)
         /\ logic'.compile_wait_since = Older(logic.compile_wait_since)
<1> DEFINE idle == IF Blocked THEN ui.idle ELSE ui.idle + 1
           waited == IF Blocked /\ ui.waited < Horizon THEN ui.waited + 1 ELSE ui.waited
           kill == IF ui.kill_in > 0 THEN ui.kill_in - 1 ELSE 0
           age == IF Works /\ worker.doing # "idle" THEN worker.age + 1 ELSE 0
<1>1. /\ Blocked \/ (ui.phase = "reap" /\ ui.idle < scene.pause)
      /\ Prompt /\ scene' = scene /\ SameQueues /\ faults' = faults
      /\ logic' = Aged(logic)
      /\ ui' = [ui EXCEPT !.idle = idle, !.waited = waited, !.kill_in = kill]
      /\ worker' = [worker EXCEPT !.age = age]
  BY DEF Tick, SameQueues
<1>2. idle \in Nat /\ waited \in 0..Horizon /\ kill \in Nat /\ age \in Nat
  <2>1. /\ ui.idle \in Nat /\ ui.waited \in 0..Horizon /\ ui.kill_in \in Nat /\ worker.age \in Nat
        /\ Horizon \in Nat
    BY Fields, DeadlineAssumption
  <2> QED  BY <2>1
<1> HIDE DEF idle, waited, kill, age
<1>3. /\ ui' \in UiType
      /\ ui'.phase = ui.phase /\ ui'.todo = ui.todo
      /\ ui'.killing = ui.killing /\ ui'.outstanding = ui.outstanding
      /\ ui'.idle = idle /\ ui'.waited = waited /\ ui'.kill_in = kill
  BY <1>1, <1>2 DEF Shape, UiType
<1>4. /\ worker' \in WorkerType
      /\ worker'.doing = worker.doing /\ worker'.hung = worker.hung /\ worker'.age = age
  BY <1>1, <1>2 DEF Shape, WorkerType
<1>5. /\ logic' \in Object /\ SameLife(logic, logic')
      /\ logic'.ping_outstanding = logic.ping_outstanding
      /\ logic'.frame_outstanding = logic.frame_outstanding
      /\ logic'.compile_busy = logic.compile_busy /\ logic'.busy_slide = logic.busy_slide
      /\ logic'.compiles_pending = logic.compiles_pending
      /\ logic'.ping_sent = Older(logic.ping_sent)
      /\ logic'.last_ping_time = Older(logic.last_ping_time)
      /\ logic'.frame_sent = Older(logic.frame_sent)
      /\ logic'.compile_since = Older(logic.compile_since)
      /\ logic'.compile_wait_since = Older(logic.compile_wait_since)
  BY <1>1, AgedDoes DEF Shape
<1>6. Shape'
  BY <1>1, <1>3, <1>4, <1>5 DEF Shape, UiType, WorkerType, SameQueues
<1>7. /\ ui'.idle = IF Blocked THEN ui.idle ELSE ui.idle + 1
      /\ ui'.waited = IF Blocked /\ ui.waited < Horizon THEN ui.waited + 1 ELSE ui.waited
      /\ ui'.kill_in = IF ui.kill_in > 0 THEN ui.kill_in - 1 ELSE 0
      /\ worker'.age = IF Works /\ worker.doing # "idle" THEN worker.age + 1 ELSE 0
  BY <1>3, <1>4 DEF idle, waited, kill, age
<1> QED  BY <1>1, <1>3, <1>4, <1>5, <1>6, <1>7
-----------------------------------------------------------------------------
(* Base is kept. *)

(* The steps, without what they do to stuck.                               *)
LEMMA StepCases ==
  ASSUME Next
  PROVE  \/ Tick \/ Reap \/ Drain \/ Spawn \/ Kill \/ LeaveAlone \/ Ping \/ Submit \/ EndFrame
         \/ Begin \/ IORecv \/ Boot \/ EngineBuilt \/ Take \/ Finish \/ Hang \/ Crash
BY DEF Next, Steps, UIFrame, Work

LEMMA ShapeStep ==
  ASSUME Shape, Wired, [Next]_vars
  PROVE  Shape'
<1>1. logic.compile_busy => logic.busy_slide = 0
  BY DEF Wired
<1>2. ~ logic.restart_requested
  BY DEF Wired
<1>3. worker.doing = "dead" => logic.spawned
  BY DEF Wired
<1>4. CASE Next
  BY Zenon, <1>1, <1>2, <1>3, <1>4, StepCases, TickDoes, ReapDoes, DrainDoes, SpawnDoes, KillDoes, LeaveAloneDoes,
     PingStepDoes, SubmitDoes, EndFrameDoes, BeginStepDoes, IORecvDoes, BootDoes,
     EngineBuiltDoes, TakeDoes, FinishDoes, HangDoes, CrashDoes
<1>5. CASE UNCHANGED vars
  BY <1>5 DEF Shape, vars
<1> QED  BY <1>4, <1>5

LEMMA WiredUiStep ==
  ASSUME Shape, Wired, Shape', Reap \/ Drain \/ Spawn \/ Kill \/ LeaveAlone
  PROVE  Wired'
<1>1. CASE Reap
  <2>1. worker.doing = "dead" => logic.spawned
    BY DEF Wired
  <2> QED  BY <1>1, <2>1, ReapDoes DEF Wired, Fresh, SameUi, SameQueues
<1>2. CASE Drain
  <2>1. logic.compile_busy => logic.busy_slide = 0
    BY DEF Wired
  <2> QED  BY <1>2, <2>1, DrainDoes DEF Wired, SameLife
<1>3. CASE Spawn
  <2>1. ~ logic.restart_requested
    BY DEF Wired
  <2>2. CASE logic'.spawned
    BY <1>3, <2>1, <2>2, SpawnDoes DEF Wired, Fresh, SameQueues, Drained
  <2>3. CASE ~ logic'.spawned
    BY <1>3, <2>1, <2>3, SpawnDoes DEF Wired, Fresh, SameQueues, Drained
  <2> QED  BY <2>2, <2>3
<1>4. CASE Kill
  BY <1>4, KillDoes, Fields DEF Wired, SamePing, SameFrame, SameCompile, SameQueues, Drained, Alive
<1>5. CASE LeaveAlone
  <2>1. ui'.phase = "ping" => ~ logic.ping_outstanding /\ ~ logic.killing
    BY <1>5, LeaveAloneDoes DEF Sup!ShouldPing
  <2> QED  BY <1>5, <2>1, LeaveAloneDoes DEF Wired, SameQueues, Drained
<1> QED  BY <1>1, <1>2, <1>3, <1>4, <1>5

LEMMA WiredSendStep ==
  ASSUME Shape, Wired, Shape', Ping \/ Submit \/ EndFrame \/ Begin
  PROVE  Wired'
<1>1. CASE Ping
  BY <1>1, PingStepDoes DEF Wired, SameLife, SameFrame, SameCompile, Alive
<1>2. CASE Submit
  BY <1>2, SubmitDoes DEF Wired, SameLife, SameFrame, SamePing, Alive
<1>3. CASE EndFrame
  BY <1>3, EndFrameDoes, SceneFacts DEF Wired, SameQueues, Shape
<1>4. CASE Begin
  <2>1. scene.pause \in Nat
    BY SceneFacts DEF Shape
  <2>2. CASE Alive
    <3>1. worker' = worker /\ logic'.spawned = logic.spawned /\ logic.spawned
      BY <1>4, <2>2, BeginStepDoes DEF Wired, SameLife, Alive
    <3>2. /\ SameLife(logic, logic') /\ SameCompile(logic, logic')
          /\ logic'.frame_outstanding /\ ui'.outstanding
          /\ ui'.phase = "reap" /\ ui'.waited = 0 /\ ui'.idle = 0 /\ ui'.killing = ui.killing
          /\ scene' = scene
      BY <1>4, <2>2, BeginStepDoes
    <3> QED  BY <2>1, <3>1, <3>2 DEF Wired, SameLife, SameCompile
  <2>3. CASE ~ Alive
    BY <1>4, <2>1, <2>3, BeginStepDoes DEF Wired
  <2> QED  BY <2>2, <2>3
<1> QED  BY <1>1, <1>2, <1>3, <1>4

LEMMA WiredWorkerStep ==
  ASSUME Shape, Wired, Shape',
         IORecv \/ Boot \/ EngineBuilt \/ Take \/ Finish \/ Hang \/ Crash \/ Tick
  PROVE  Wired'
<1>1. CASE IORecv
  BY <1>1, IORecvDoes DEF Wired, SameLogicUi, Listens, Alive
<1>2. CASE Boot
  BY <1>2, BootDoes DEF Wired, SameLogicUi
<1>3. CASE EngineBuilt
  BY <1>3, EngineBuiltDoes DEF Wired, SameLogicUi, SameQueues
<1>4. CASE Take
  BY <1>4, TakeDoes DEF Wired, SameLogicUi
<1>5. CASE Finish
  BY <1>5, FinishDoes DEF Wired, SameLogicUi
<1>6. CASE Hang
  BY <1>6, HangDoes DEF Wired, SameLogicUi, SameQueues, Alive
<1>7. CASE Crash
  BY <1>7, CrashDoes DEF Wired, SameLogicUi, SameQueues, Alive
<1>8. CASE Tick
  <2>1. ui.idle \in Nat /\ scene.pause \in Nat
    BY Fields, SceneFacts DEF Shape
  <2>2. ui'.idle <= scene'.pause /\ (ui.phase \in {"reap", "drain"} => ~ Blocked)
    BY <1>8, <2>1, TickDoes DEF Wired, Blocked
  <2> QED  BY <1>8, <2>2, TickDoes DEF Wired, SameLife, SameQueues
<1> QED  BY <1>1, <1>2, <1>3, <1>4, <1>5, <1>6, <1>7, <1>8

LEMMA WiredStep ==
  ASSUME Shape, Wired, [Next]_vars
  PROVE  Shape' /\ Wired'
<1>1. Shape'
  BY ShapeStep
<1>2. CASE Next
  BY Zenon, <1>1, <1>2, StepCases, WiredUiStep, WiredSendStep, WiredWorkerStep
<1>3. CASE UNCHANGED vars
  <2>1. /\ logic' = logic /\ ui' = ui /\ worker' = worker /\ scene' = scene
        /\ inbox' = inbox /\ queue' = queue /\ toMain' = toMain
    BY <1>3 DEF vars
  <2> QED  BY <1>1, <2>1 DEF Wired
<1> QED  BY <1>1, <1>2, <1>3

LEMMA CountsNat ==
  ASSUME Shape
  PROVE  /\ Count(inbox, "frame") \in Nat /\ Count(queue, "frame") \in Nat
         /\ Count(toMain, "done") \in Nat
         /\ Count(inbox, "source") \in Nat /\ Count(queue, "source") \in Nat
         /\ Count(toMain, "result") \in Nat
BY CountFacts DEF Shape

LEMMA OwedReap == ASSUME Shape, Wired, Owed, Reap PROVE Owed'
<1>1. worker.doing = "dead" => logic.spawned
  BY DEF Wired
<1>2. CASE worker.doing = "dead"
  BY <1>1, <1>2, ReapDoes DEF Owed, Alive
<1>3. CASE worker.doing # "dead"
  BY <1>1, <1>3, ReapDoes DEF Owed, Alive, SameUi, SameQueues
<1> QED  BY <1>2, <1>3

LEMMA OwedDrain == ASSUME Shape, Wired, Owed, Drain PROVE Owed'
<1> DEFINE m == Head(toMain)
<1>1. logic.compile_busy => logic.busy_slide = 0
  BY DEF Wired
<1>2. SUFFICES ASSUME Alive' PROVE Owed'
  BY DEF Owed
<1>3. worker' = worker /\ Alive /\ inbox' = inbox /\ queue' = queue
  BY <1>1, <1>2, DrainDoes DEF Alive
<1>4. /\ toMain \in Seq(ToMain) /\ toMain # <<>> /\ toMain' = Tail(toMain) /\ toMain' \in Seq(ToMain)
      /\ m \in ToMain
  BY <1>1, DrainDoes DEF Shape
<1>5. /\ Count(toMain, "done") = Count(toMain', "done") + (IF m = "done" THEN 1 ELSE 0)
      /\ Count(toMain, "result") = Count(toMain', "result") + (IF m = "result" THEN 1 ELSE 0)
      /\ Count(toMain', "done") \in Nat /\ Count(toMain', "result") \in Nat
  BY <1>4, CountsTail, CountFacts
<1>6. BusyAfter(toMain, logic.compile_busy)
        <=> BusyAfter(toMain', m = "busy" \/ (m # "result" /\ logic.compile_busy))
  <2>1. logic.compile_busy \in BOOLEAN
    BY Fields
  <2> QED  BY <1>4, <2>1, BusyTail
<1> HIDE DEF m
<1>7. /\ ui'.outstanding <=> (ui.outstanding /\ m # "done")
      /\ SameLife(logic, logic')
      /\ logic'.ping_outstanding => logic.ping_outstanding
      /\ logic'.compile_busy <=> (m = "busy" \/ (m # "result" /\ logic.compile_busy))
      /\ logic'.compiles_pending = IF m = "result" /\ logic.compiles_pending > 0
                                   THEN logic.compiles_pending - 1 ELSE logic.compiles_pending
  BY <1>1, DrainDoes DEF m
<1>8. BusyAfter(toMain', logic'.compile_busy)
        <=> BusyAfter(toMain', m = "busy" \/ (m # "result" /\ logic.compile_busy))
  <2>1. logic'.compile_busy \in BOOLEAN
    BY <1>1, DrainDoes, ObjectFields DEF Shape
  <2>2. logic'.compile_busy = (m = "busy" \/ (m # "result" /\ logic.compile_busy))
    BY Zenon, <1>7, <2>1
  <2> QED  BY <2>2
<1>9. /\ Count(inbox, "frame") + Count(queue, "frame") + One(worker.doing = "frame")
         + Count(toMain', "done") = One(ui'.outstanding)
  BY <1>2, <1>3, <1>5, <1>7, CountsNat DEF Owed, One
<1>10. Count(inbox, "source") + Count(queue, "source") + One(worker.doing = "compile")
         + Count(toMain', "result") = logic'.compiles_pending
  <2>1. logic.compiles_pending \in Nat
    BY Fields
  <2>2. Count(inbox, "source") + Count(queue, "source") + One(worker.doing = "compile")
          + Count(toMain, "result") = logic.compiles_pending
    BY <1>3 DEF Owed
  <2>3. One(worker.doing = "compile") \in Nat
    BY DEF One
  <2>4. Count(inbox, "source") \in Nat /\ Count(queue, "source") \in Nat
    BY CountsNat
  <2> QED  BY <1>5, <1>7, <2>1, <2>2, <2>3, <2>4
<1>11. /\ BusyAfter(toMain', logic'.compile_busy) <=> worker.doing = "compile"
       /\ worker.hung => worker.doing # "idle"
       /\ worker.doing = "boot" =>
            queue = <<>> /\ toMain' = <<>>
            /\
         (~ logic.killing /\ logic.ping_outstanding => Has(inbox, "ping"))
  BY <1>3, <1>4, <1>6, <1>8 DEF Owed
<1> QED  BY <1>3, <1>7, <1>9, <1>10, <1>11 DEF Owed, SameLife

LEMMA OwedSpawn == ASSUME Shape, Wired, Owed, Spawn PROVE Owed'
<1>1. ~ logic.restart_requested
  BY DEF Wired
<1>2. /\ inbox' = <<>> /\ queue' = <<>> /\ toMain' = <<>>
      /\ ~ ui'.outstanding /\ Fresh(logic')
  BY <1>1, SpawnDoes DEF Wired, SameQueues
<1>3. SUFFICES ASSUME Alive' PROVE Owed'
  BY DEF Owed
<1>4. worker'.doing = "boot" /\ ~ worker'.hung
  BY <1>1, <1>3, SpawnDoes DEF Wired, Alive
<1>5. ~ BusyAfter(<<>>, FALSE)
  BY BusyNone
<1>6. logic'.compile_busy = FALSE
  BY <1>1, <1>2, SpawnDoes, ObjectFields DEF Fresh, Shape
<1>7. /\ Count(<<>>, "frame") = 0 /\ Count(<<>>, "source") = 0
      /\ Count(<<>>, "done") = 0 /\ Count(<<>>, "result") = 0
  BY CountsNone
<1>8. One(FALSE) = 0
  BY DEF One
<1>9. Count(inbox', "frame") + Count(queue', "frame") + One(worker'.doing = "frame")
         + Count(toMain', "done") = One(ui'.outstanding)
  BY <1>2, <1>4, <1>7 DEF One
<1>10. Count(inbox', "source") + Count(queue', "source") + One(worker'.doing = "compile")
         + Count(toMain', "result") = logic'.compiles_pending
  BY <1>2, <1>4, <1>7 DEF One, Fresh
<1>11. ~ BusyAfter(toMain', logic'.compile_busy)
  BY <1>2, <1>5, <1>6
<1> QED  BY <1>2, <1>4, <1>9, <1>10, <1>11 DEF Owed, Fresh

LEMMA OwedKill == ASSUME Shape, Wired, Owed, Kill PROVE Owed'
<1>1. SUFFICES ASSUME Alive' PROVE Owed'
  BY DEF Owed
<1>2. Alive /\ worker'.doing = worker.doing
  BY <1>1, KillDoes DEF Alive
<1> QED  BY <1>2, KillDoes DEF Owed, SameQueues, SameCompile

LEMMA OwedLeaveAlone == ASSUME Shape, Wired, Owed, LeaveAlone PROVE Owed'
BY LeaveAloneDoes DEF Owed, SameQueues, Alive

LEMMA OwedEndFrame == ASSUME Shape, Wired, Owed, EndFrame PROVE Owed'
BY EndFrameDoes DEF Owed, SameQueues, Alive

LEMMA OwedPing == ASSUME Shape, Wired, Owed, Ping PROVE Owed'
<1>1. SUFFICES ASSUME Alive' PROVE Owed'
  BY DEF Owed
<1>2. /\ Alive /\ worker' = worker /\ queue' = queue /\ toMain' = toMain
      /\ inbox' = Append(inbox, "ping") /\ SameCompile(logic, logic')
      /\ ui'.outstanding = ui.outstanding
  BY <1>1, PingStepDoes DEF Alive
<1>3. inbox \in Seq(ToWorker) /\ "ping" \in ToWorker
  BY DEF Shape, ToWorker
<1>4. /\ Count(inbox', "frame") = Count(inbox, "frame")
      /\ Count(inbox', "source") = Count(inbox, "source")
      /\ Has(inbox', "ping")
  <2>1. /\ Count(inbox', "frame") = Count(inbox, "frame") + 0
        /\ Count(inbox', "source") = Count(inbox, "source") + 0
    BY <1>2, <1>3, CountsAppend
  <2>2. Has(inbox', "ping")
    BY <1>2, <1>3, HasAppend
  <2> QED  BY <2>1, <2>2, CountsNat
<1> QED  BY <1>2, <1>4 DEF Owed, SameCompile

LEMMA OwedSubmit == ASSUME Shape, Wired, Owed, Submit PROVE Owed'
<1>1. SUFFICES ASSUME Alive' PROVE Owed'
  BY DEF Owed
<1>2. /\ Alive /\ worker' = worker /\ queue' = queue /\ toMain' = toMain
      /\ inbox' = Append(inbox, "source")
      /\ SameLife(logic, logic') /\ SamePing(logic, logic')
      /\ logic'.compile_busy = logic.compile_busy
      /\ logic'.compiles_pending = logic.compiles_pending + 1
      /\ ui'.outstanding = ui.outstanding
  BY <1>1, SubmitDoes DEF Alive
<1>3. inbox \in Seq(ToWorker) /\ "source" \in ToWorker
  BY DEF Shape, ToWorker
<1>4. /\ Count(inbox', "frame") = Count(inbox, "frame")
      /\ Count(inbox', "source") = Count(inbox, "source") + 1
      /\ Has(inbox, "ping") => Has(inbox', "ping")
  <2>1. /\ Count(inbox', "frame") = Count(inbox, "frame") + 0
        /\ Count(inbox', "source") = Count(inbox, "source") + 1
    BY <1>2, <1>3, CountsAppend
  <2>2. Has(inbox, "ping") => Has(inbox', "ping")
    BY <1>2, <1>3, HasAppend
  <2> QED  BY <2>1, <2>2, CountsNat
<1>5. Count(inbox', "source") + Count(queue', "source") + One(worker'.doing = "compile")
         + Count(toMain', "result") = logic'.compiles_pending
  BY <1>2, <1>4, CountsNat DEF Owed, One
<1> QED  BY <1>2, <1>4, <1>5 DEF Owed, SameLife, SamePing

LEMMA OwedBegin == ASSUME Shape, Wired, Owed, Begin PROVE Owed'
<1>1. SUFFICES ASSUME Alive' PROVE Owed'
  BY DEF Owed
<1>2. Alive
  BY <1>1, BeginStepDoes DEF Alive
<1>3. /\ worker' = worker /\ queue' = queue /\ toMain' = toMain
      /\ inbox' = Append(inbox, "frame")
      /\ SameLife(logic, logic') /\ SamePing(logic, logic') /\ SameCompile(logic, logic')
      /\ ui'.outstanding /\ ui.phase = "begin"
  BY <1>2, BeginStepDoes
<1>4. ~ ui.outstanding
  BY <1>3 DEF Wired
<1>5. inbox \in Seq(ToWorker) /\ "frame" \in ToWorker
  BY DEF Shape, ToWorker
<1>6. /\ Count(inbox', "frame") = Count(inbox, "frame") + 1
      /\ Count(inbox', "source") = Count(inbox, "source")
      /\ Has(inbox, "ping") => Has(inbox', "ping")
  <2>1. /\ Count(inbox', "frame") = Count(inbox, "frame") + 1
        /\ Count(inbox', "source") = Count(inbox, "source") + 0
    BY <1>3, <1>5, CountsAppend
  <2>2. Has(inbox, "ping") => Has(inbox', "ping")
    BY <1>3, <1>5, HasAppend
  <2> QED  BY <2>1, <2>2, CountsNat
<1>7. Count(inbox', "frame") + Count(queue', "frame") + One(worker'.doing = "frame")
         + Count(toMain', "done") = One(ui'.outstanding)
  <2>1. Count(inbox, "frame") + Count(queue, "frame") + One(worker.doing = "frame")
          + Count(toMain, "done") = 0
    BY <1>2, <1>4 DEF Owed, One
  <2>2. One(ui'.outstanding) = 1
    BY <1>3 DEF One
  <2>3. One(worker.doing = "frame") \in Nat
    BY DEF One
  <2>4. Count(inbox, "frame") + 1 + Count(queue, "frame") + One(worker.doing = "frame")
          + Count(toMain, "done") = 1
    BY <2>1, <2>3, CountsNat
  <2>5. worker'.doing = worker.doing /\ queue' = queue /\ toMain' = toMain
    BY <1>3
  <2> QED  BY <1>6, <2>2, <2>4, <2>5
<1> QED  BY <1>2, <1>3, <1>6, <1>7 DEF Owed, SameLife, SamePing, SameCompile

LEMMA OwedIORecv == ASSUME Shape, Wired, Owed, IORecv PROVE Owed'
<1> DEFINE m == Head(inbox)
<1>1. /\ SameLogicUi /\ worker' = worker /\ Alive /\ worker.doing # "boot"
      /\ inbox # <<>> /\ inbox' = Tail(inbox) /\ m \in ToWorker
      /\ m = "ping" => queue' = queue /\ toMain' = Append(toMain, "pong")
      /\ m # "ping" => m \in Tasks /\ queue' = Append(queue, m) /\ toMain' = toMain
  BY IORecvDoes DEF Listens
<1>2. /\ inbox \in Seq(ToWorker) /\ queue \in Seq(Tasks) /\ toMain \in Seq(ToMain)
      /\ "pong" \in ToMain /\ inbox' \in Seq(ToWorker)
  BY IORecvDoes DEF Shape, ToMain
<1>3. /\ Count(inbox, "frame") = Count(inbox', "frame") + (IF m = "frame" THEN 1 ELSE 0)
      /\ Count(inbox, "source") = Count(inbox', "source") + (IF m = "source" THEN 1 ELSE 0)
      /\ Count(inbox', "frame") \in Nat /\ Count(inbox', "source") \in Nat
  BY <1>1, <1>2, CountsTail, CountFacts
<1> HIDE DEF m
<1>4. /\ Count(queue', "frame") = Count(queue, "frame") + (IF m = "frame" THEN 1 ELSE 0)
      /\ Count(queue', "source") = Count(queue, "source") + (IF m = "source" THEN 1 ELSE 0)
  <2>1. CASE m = "ping"
    BY <1>1, <2>1, CountsNat
  <2>2. CASE m # "ping"
    <3>1. queue \in Seq(Tasks) /\ m \in Tasks /\ queue' = Append(queue, m)
      BY <1>1, <1>2, <2>2
    <3> QED  BY <3>1, CountsAppend
  <2> QED  BY <2>1, <2>2
<1>5. /\ Count(toMain', "done") = Count(toMain, "done")
      /\ Count(toMain', "result") = Count(toMain, "result")
      /\ BusyAfter(toMain', logic.compile_busy) <=> BusyAfter(toMain, logic.compile_busy)
  <2>1. CASE m = "ping"
    <3>1. toMain \in Seq(ToMain) /\ "pong" \in ToMain /\ toMain' = Append(toMain, "pong")
      BY <1>1, <1>2, <2>1
    <3>2. /\ Count(toMain', "done") = Count(toMain, "done") + 0
          /\ Count(toMain', "result") = Count(toMain, "result") + 0
      BY <3>1, CountsAppend
    <3>3. logic.compile_busy \in BOOLEAN
      BY Fields
    <3>4. BusyAfter(toMain', logic.compile_busy) <=> BusyAfter(toMain, logic.compile_busy)
      BY <3>1, <3>3, BusyAppend
    <3> QED  BY <3>2, <3>4, CountsNat
  <2>2. CASE m # "ping"
    BY <1>1, <2>2
  <2> QED  BY <2>1, <2>2
<1>6. Count(inbox', "frame") + Count(queue', "frame") + One(worker.doing = "frame")
         + Count(toMain', "done") = One(ui.outstanding)
  BY <1>1, <1>3, <1>4, <1>5, CountsNat DEF Owed, One
<1>7. Count(inbox', "source") + Count(queue', "source") + One(worker.doing = "compile")
         + Count(toMain', "result") = logic.compiles_pending
  BY <1>1, <1>3, <1>4, <1>5, CountsNat DEF Owed, One
<1> QED  BY <1>1, <1>5, <1>6, <1>7 DEF Owed, SameLogicUi

LEMMA OwedBoot == ASSUME Shape, Wired, Owed, Boot PROVE Owed'
<1>1. SUFFICES ASSUME Alive' PROVE Owed'
  BY DEF Owed
<1>2. /\ SameLogicUi /\ inbox' = inbox /\ queue' = queue
      /\ worker.doing = "boot" /\ toMain' = Append(toMain, "ack")
      /\ ~ worker'.hung /\ worker'.doing = "engine" /\ Alive
  BY <1>1, BootDoes DEF Alive
<1>3. toMain \in Seq(ToMain) /\ "ack" \in ToMain /\ logic.compile_busy \in BOOLEAN
  BY Fields DEF Shape, ToMain
<1>4. /\ Count(toMain', "done") = Count(toMain, "done")
      /\ Count(toMain', "result") = Count(toMain, "result")
  <2>1. /\ Count(toMain', "done") = Count(toMain, "done") + 0
        /\ Count(toMain', "result") = Count(toMain, "result") + 0
    BY <1>2, <1>3, CountsAppend
  <2> QED  BY <2>1, CountsNat
<1>5. BusyAfter(toMain', logic.compile_busy) <=> BusyAfter(toMain, logic.compile_busy)
  BY <1>2, <1>3, BusyAppend
<1> QED  BY <1>2, <1>4, <1>5 DEF Owed, SameLogicUi, One

LEMMA OwedEngineBuilt == ASSUME Shape, Wired, Owed, EngineBuilt PROVE Owed'
BY EngineBuiltDoes DEF Owed, SameLogicUi, SameQueues, One, Alive

LEMMA OwedTake == ASSUME Shape, Wired, Owed, Take PROVE Owed'
<1> DEFINE m == Head(queue)
<1>1. /\ SameLogicUi /\ inbox' = inbox /\ Alive /\ worker.doing = "idle" /\ ~ worker'.hung
      /\ queue # <<>> /\ queue' = Tail(queue) /\ m \in Tasks
      /\ \/ m = "source" /\ worker'.doing = "compile" /\ toMain' = Append(toMain, "busy")
         \/ m = "frame" /\ worker'.doing = "frame" /\ toMain' = toMain
  BY TakeDoes DEF Alive
<1>2. /\ queue \in Seq(Tasks) /\ toMain \in Seq(ToMain) /\ "busy" \in ToMain
      /\ queue' \in Seq(Tasks) /\ logic.compile_busy \in BOOLEAN
  BY TakeDoes, Fields DEF Shape, ToMain
<1>3. /\ Count(queue, "frame") = Count(queue', "frame") + (IF m = "frame" THEN 1 ELSE 0)
      /\ Count(queue, "source") = Count(queue', "source") + (IF m = "source" THEN 1 ELSE 0)
      /\ Count(queue', "frame") \in Nat /\ Count(queue', "source") \in Nat
  BY <1>1, <1>2, CountsTail, CountFacts
<1> HIDE DEF m
<1>4. CASE m = "source" /\ worker'.doing = "compile" /\ toMain' = Append(toMain, "busy")
  <2>1. /\ Count(toMain', "done") = Count(toMain, "done") + 0
        /\ Count(toMain', "result") = Count(toMain, "result") + 0
    BY <1>2, <1>4, CountsAppend
  <2>2. BusyAfter(toMain', logic.compile_busy)
    BY <1>2, <1>4, BusyAppend
  <2>3. /\ Count(inbox', "frame") + Count(queue', "frame") + One(worker'.doing = "frame")
           + Count(toMain', "done") = One(ui'.outstanding)
        /\ Count(inbox', "source") + Count(queue', "source") + One(worker'.doing = "compile")
           + Count(toMain', "result") = logic'.compiles_pending
    BY <1>1, <1>3, <1>4, <2>1, CountsNat DEF Owed, One, SameLogicUi
  <2> QED  BY <1>1, <1>4, <2>2, <2>3 DEF Owed, SameLogicUi
<1>5. CASE m = "frame" /\ worker'.doing = "frame" /\ toMain' = toMain
  <2>1. /\ Count(inbox', "frame") + Count(queue', "frame") + One(worker'.doing = "frame")
           + Count(toMain', "done") = One(ui'.outstanding)
        /\ Count(inbox', "source") + Count(queue', "source") + One(worker'.doing = "compile")
           + Count(toMain', "result") = logic'.compiles_pending
    BY <1>1, <1>3, <1>5, CountsNat DEF Owed, One, SameLogicUi
  <2> QED  BY <1>1, <1>5, <2>1 DEF Owed, SameLogicUi
<1> QED  BY <1>1, <1>4, <1>5

LEMMA OwedFinish == ASSUME Shape, Wired, Owed, Finish PROVE Owed'
<1>1. /\ SameLogicUi /\ inbox' = inbox /\ queue' = queue /\ Alive
      /\ worker'.doing = "idle" /\ ~ worker'.hung
      /\ \/ worker.doing = "compile" /\ toMain' = Append(toMain, "result")
         \/ worker.doing = "frame" /\ toMain' = Append(toMain, "done")
  BY FinishDoes DEF Alive
<1>2. /\ toMain \in Seq(ToMain) /\ {"done", "result"} \subseteq ToMain
      /\ logic.compile_busy \in BOOLEAN
  BY Fields DEF Shape, ToMain
<1>3. CASE worker.doing = "compile" /\ toMain' = Append(toMain, "result")
  <2>1. /\ Count(toMain', "done") = Count(toMain, "done") + 0
        /\ Count(toMain', "result") = Count(toMain, "result") + 1
    BY <1>2, <1>3, CountsAppend
  <2>2. ~ BusyAfter(toMain', logic.compile_busy)
    BY <1>2, <1>3, BusyAppend
  <2>3. /\ Count(inbox', "frame") + Count(queue', "frame") + One(worker'.doing = "frame")
           + Count(toMain', "done") = One(ui'.outstanding)
        /\ Count(inbox', "source") + Count(queue', "source") + One(worker'.doing = "compile")
           + Count(toMain', "result") = logic'.compiles_pending
    BY <1>1, <1>3, <2>1, CountsNat DEF Owed, One, SameLogicUi
  <2> QED  BY <1>1, <2>2, <2>3 DEF Owed, SameLogicUi
<1>4. CASE worker.doing = "frame" /\ toMain' = Append(toMain, "done")
  <2>1. /\ Count(toMain', "done") = Count(toMain, "done") + 1
        /\ Count(toMain', "result") = Count(toMain, "result") + 0
    BY <1>2, <1>4, CountsAppend
  <2>2. BusyAfter(toMain', logic.compile_busy) <=> BusyAfter(toMain, logic.compile_busy)
    BY <1>2, <1>4, BusyAppend
  <2>3. /\ Count(inbox', "frame") + Count(queue', "frame") + One(worker'.doing = "frame")
           + Count(toMain', "done") = One(ui'.outstanding)
        /\ Count(inbox', "source") + Count(queue', "source") + One(worker'.doing = "compile")
           + Count(toMain', "result") = logic'.compiles_pending
    BY <1>1, <1>4, <2>1, CountsNat DEF Owed, One, SameLogicUi
  <2> QED  BY <1>1, <1>4, <2>2, <2>3 DEF Owed, SameLogicUi
<1> QED  BY <1>1, <1>3, <1>4

LEMMA OwedHang == ASSUME Shape, Wired, Owed, Hang PROVE Owed'
BY HangDoes DEF Owed, SameLogicUi, SameQueues, Alive

LEMMA OwedCrash == ASSUME Shape, Wired, Owed, Crash PROVE Owed'
BY CrashDoes DEF Owed, Alive

LEMMA OwedTick == ASSUME Shape, Wired, Owed, Tick PROVE Owed'
BY TickDoes DEF Owed, SameLife, SameQueues, Alive

Base == Shape /\ Wired /\ Owed

(* Base is inductive by itself.                                            *)
LEMMA BaseStep == ASSUME Base, [Next]_vars PROVE Base'
<1>1. Shape' /\ Wired'
  BY WiredStep DEF Base
<1>2. CASE Next
  BY Zenon, <1>1, <1>2, StepCases, OwedReap, OwedDrain, OwedSpawn, OwedKill, OwedLeaveAlone,
     OwedPing, OwedSubmit, OwedEndFrame, OwedBegin, OwedIORecv, OwedBoot, OwedEngineBuilt,
     OwedTake, OwedFinish, OwedHang, OwedCrash, OwedTick DEF Base
<1>3. CASE UNCHANGED vars
  <2>1. /\ logic' = logic /\ ui' = ui /\ worker' = worker
        /\ inbox' = inbox /\ queue' = queue /\ toMain' = toMain
    BY <1>3 DEF vars
  <2> QED  BY <1>1, <2>1 DEF Base, Owed, Alive
<1> QED  BY <1>2, <1>3
-----------------------------------------------------------------------------
(* A hang is noticed. *)

(* Numbers that the bounds are made of.                                    *)
LEMMA Bounds ==
  ASSUME Base
  PROVE  /\ scene.pause \in Nat \ {0} /\ KillGrace \in Nat \ {0} /\ PingInterval \in Nat \ {0}
         /\ PongTimeout \in Nat /\ FrameTimeout \in Nat /\ CompileTimeout \in Nat /\ Horizon \in Nat
         /\ PingInterval < Horizon /\ PongTimeout < Horizon /\ FrameTimeout < Horizon
         /\ CompileTimeout < Horizon
         /\ ui.kill_in \in Nat /\ ui.idle \in Nat /\ ui.idle <= scene.pause
         /\ Extra \in Nat /\ Extra <= scene.pause
         /\ Late \in Nat /\ Late = FrameTimeout + CompileTimeout + 2 * scene.pause
         /\ Patience = Late + KillGrace + scene.pause
<1>1. scene.pause \in Nat \ {0}
  BY SceneFacts DEF Base, Shape
<1>2. /\ KillGrace \in Nat \ {0} /\ PingInterval \in Nat \ {0}
      /\ PongTimeout \in Nat /\ FrameTimeout \in Nat /\ CompileTimeout \in Nat /\ Horizon \in Nat
      /\ PingInterval < Horizon /\ PongTimeout < Horizon /\ FrameTimeout < Horizon
      /\ CompileTimeout < Horizon
  BY Deadlines
<1>3. ui.kill_in \in Nat /\ ui.idle \in Nat /\ ui.idle <= scene.pause
  BY Fields DEF Base, Wired
<1>4. Extra \in Nat /\ Extra <= scene.pause
  BY <1>1, <1>3 DEF Extra
<1>5. Late \in Nat /\ Late = FrameTimeout + CompileTimeout + 2 * scene.pause
  BY <1>1, <1>2 DEF Late
<1>6. Patience = Late + KillGrace + scene.pause
  BY <1>1, <1>2, <1>5 DEF Patience
<1> QED  BY <1>1, <1>2, <1>3, <1>4, <1>5, <1>6

LEMMA Stamps ==
  ASSUME Shape
  PROVE  \A t \in {logic.ping_sent, logic.last_ping_time, logic.frame_sent, logic.compile_since,
                   logic.compile_wait_since} : Age(t) \in 0..Horizon /\ t = - Age(t) /\ t \in Int
<1>1. {logic.ping_sent, logic.last_ping_time, logic.frame_sent, logic.compile_since,
       logic.compile_wait_since} \subseteq (-Horizon)..0 /\ Horizon \in Nat
  BY Fields, Deadlines
<1>2. \A t \in (-Horizon)..0 : Age(t) \in 0..Horizon /\ t = - Age(t) /\ t \in Int
  BY <1>1 DEF Age
<1> QED  BY <1>1, <1>2

(* A clock that has just been started is no older than anything.           *)
LEMMA SinceZero ==
  ASSUME Base, stuck = 0, NEW start \in Nat, NEW limit \in Nat, NEW t \in (-Horizon)..0
  PROVE  Since(start, t, limit)
<1>1. Age(t) \in Nat /\ Extra \in Nat
  BY Bounds DEF Age
<1> QED  BY <1>1 DEF Since

LEMMA NotStuck ==
  ASSUME Base, stuck = 0, ui.kill_in <= KillGrace
  PROVE  HungLate
<1>1. /\ {logic.ping_sent, logic.last_ping_time, logic.frame_sent, logic.compile_since,
          logic.compile_wait_since} \subseteq (-Horizon)..0
  BY Fields DEF Base
<1>2. /\ PingInterval - 1 \in Nat /\ PingInterval - 1 + scene.pause \in Nat
      /\ scene.pause + FrameTimeout \in Nat /\ scene.pause \in Nat /\ 0 \in Nat
      /\ PongTimeout \in Nat /\ CompileTimeout \in Nat /\ FrameTimeout \in Nat
  BY Bounds
<1>3. /\ Since(PingInterval - 1 + scene.pause, logic.ping_sent, PongTimeout)
      /\ Since(0, logic.last_ping_time, PingInterval - 1)
      /\ Since(scene.pause, logic.compile_since, CompileTimeout)
      /\ Since(scene.pause + FrameTimeout, logic.compile_wait_since, CompileTimeout)
      /\ Since(scene.pause, logic.frame_sent, FrameTimeout)
  BY Zenon, <1>1, <1>2, SinceZero
<1>4. ui.kill_in > 0 => stuck + ui.kill_in <= Late + KillGrace
  BY Bounds
<1>5. stuck < Late + KillGrace + (IF ui.phase = "reap" THEN ui.idle ELSE 0)
  BY Bounds
<1>6. stuck <= Extra /\ stuck <= PingInterval - 1 + scene.pause
  BY Bounds
<1> QED  BY Zenon, <1>3, <1>4, <1>5, <1>6 DEF HungLate

(* A worker that hangs, and owes neither a compile nor a handshake, owes   *)
(* the frame.                                                              *)
LEMMA FrameIsOwed ==
  ASSUME Base, Owes, worker.doing # "boot", worker.doing # "compile", logic.compiles_pending = 0
  PROVE  ui.outstanding /\ logic.frame_outstanding /\ ~ Has(toMain, "done")
<1>1. Alive /\ worker.hung /\ worker.doing \in {"engine", "frame"}
  BY Fields DEF Owes, Base, Owed, Alive, Doings
<1>2. /\ Count(inbox, "source") = 0 /\ Count(queue, "source") = 0
  <2>1. Count(inbox, "source") + Count(queue, "source") + One(worker.doing = "compile")
          + Count(toMain, "result") = 0
    BY <1>1 DEF Base, Owed
  <2>2. One(worker.doing = "compile") \in Nat
    BY DEF One
  <2> QED  BY <2>1, <2>2, CountsNat DEF Base
<1>3. inbox \in Seq(ToWorker) /\ queue \in Seq(Tasks) /\ toMain \in Seq(ToMain)
  BY DEF Base, Shape
<1>4. ~ Has(inbox, "source") /\ ~ Has(queue, "source")
  <2>1. Has(inbox, "source") <=> Count(inbox, "source") > 0
    BY <1>3, HasCounts
  <2>2. Has(queue, "source") <=> Count(queue, "source") > 0
    BY <1>3, HasCounts
  <2> QED  BY <1>2, <2>1, <2>2
<1>5. worker.doing = "frame" \/ Has(queue, "frame") \/ Has(inbox, "frame")
  <2>1. CASE worker.doing = "engine" /\ queue # <<>>
    <3>1. 1 \in DOMAIN queue /\ queue[1] \in Tasks
      BY <1>3, <2>1
    <3> QED  BY <1>4, <3>1 DEF Has, Tasks
  <2>2. CASE \E k \in DOMAIN inbox : inbox[k] # "ping"
    <3>1. PICK k \in DOMAIN inbox : inbox[k] # "ping"
      BY <2>2
    <3>2. inbox[k] \in ToWorker
      BY <1>3, <3>1
    <3> QED  BY <1>4, <3>1, <3>2 DEF Has, ToWorker
  <2> QED  BY <1>1, <2>1, <2>2 DEF Owes
<1>6. One(worker.doing = "frame") + Count(queue, "frame") + Count(inbox, "frame") > 0
  <2>1. Has(inbox, "frame") <=> Count(inbox, "frame") > 0
    BY <1>3, HasCounts
  <2>2. Has(queue, "frame") <=> Count(queue, "frame") > 0
    BY <1>3, HasCounts
  <2>3. Count(inbox, "frame") \in Nat /\ Count(queue, "frame") \in Nat
    BY CountsNat DEF Base
  <2> QED  BY <1>5, <2>1, <2>2, <2>3 DEF One
<1>7. ui.outstanding /\ Count(toMain, "done") = 0
  <2>1. Count(inbox, "frame") + Count(queue, "frame") + One(worker.doing = "frame")
          + Count(toMain, "done") = One(ui.outstanding)
    BY <1>1 DEF Base, Owed
  <2>2. One(worker.doing = "frame") \in Nat /\ One(ui.outstanding) \in {0, 1}
        /\ (One(ui.outstanding) = 1 => ui.outstanding)
    BY DEF One
  <2>3. Count(inbox, "frame") \in Nat /\ Count(queue, "frame") \in Nat /\ Count(toMain, "done") \in Nat
    BY CountsNat DEF Base
  <2> DEFINE a == Count(inbox, "frame")
             b == Count(queue, "frame")
             c == One(worker.doing = "frame")
             d == Count(toMain, "done")
             o == One(ui.outstanding)
  <2>4. a \in Nat /\ b \in Nat /\ c \in Nat /\ d \in Nat /\ o \in {0, 1}
    BY <2>2, <2>3
  <2>5. a + b + c + d = o /\ c + b + a > 0
    BY <1>6, <2>1
  <2> HIDE DEF a, b, c, d, o
  <2>6. o = 1 /\ d = 0
    BY <2>4, <2>5
  <2> QED  BY <2>2, <2>6 DEF o, d
<1>8. ~ Has(toMain, "done")
  <2>1. Has(toMain, "done") <=> Count(toMain, "done") > 0
    BY <1>3, HasCounts
  <2> QED  BY <1>7, <2>1
<1> QED  BY <1>7, <1>8 DEF Base, Wired

(* Before a kill, no worker has been stuck for too long.                   *)
LEMMA KilledInTime ==
  ASSUME Base, stuck \in Nat, Overlong, Owes, ~ Lost, ~ logic.killing,
         PingInterval + PongTimeout <= FrameTimeout + CompileTimeout + 1
  PROVE  stuck <= Late
<1>1. HungLate
  BY DEF Overlong
<1>2. \/ stuck <= PingInterval - 1 + scene.pause + PongTimeout + Extra
      \/ stuck <= PingInterval - 1 + scene.pause
      \/ stuck <= 0 + (PingInterval - 1) + Extra
      \/ stuck <= Extra
      \/ stuck <= scene.pause + CompileTimeout + Extra
      \/ stuck <= scene.pause + FrameTimeout + CompileTimeout + Extra
      \/ stuck <= scene.pause + FrameTimeout + Extra
  BY <1>1 DEF HungLate, Since
<1> QED  BY <1>2, Bounds

LEMMA InTimeAnyway ==
  ASSUME Base, stuck \in Nat, Overlong,
         PingInterval + PongTimeout <= FrameTimeout + CompileTimeout + 1
  PROVE  HangIsKilled
<1>1. CASE ~ Owes
  BY <1>1, Bounds DEF Overlong, HangIsKilled
<1>2. CASE Lost
  BY <1>2 DEF Lost, HangIsKilled
<1>3. CASE Owes /\ ~ Lost /\ ~ logic.killing
  BY <1>3, KilledInTime, Bounds DEF HangIsKilled
<1>4. CASE Owes /\ ~ Lost /\ logic.killing
  <2>1. \/ ui.kill_in > 0 /\ stuck + ui.kill_in <= Late + KillGrace
        \/ stuck < Late + KillGrace + (IF ui.phase = "reap" THEN ui.idle ELSE 0)
    BY <1>4 DEF Overlong, HungLate
  <2>2. stuck <= Patience
    BY <2>1, Bounds
  <2> QED  BY <2>2 DEF HangIsKilled
<1> QED  BY <1>1, <1>2, <1>3, <1>4

LEMMA NotStuckFact == Base /\ stuck = 0 /\ ui.kill_in <= KillGrace => HungLate
BY NotStuck

LEMMA NotStuckNext ==
  ASSUME Base', stuck' = 0, ui'.kill_in <= KillGrace
  PROVE  HungLate'
<1>1. (Base /\ stuck = 0 /\ ui.kill_in <= KillGrace => HungLate)'
  BY NotStuckFact, PTL
<1> QED  BY <1>1

(* What a step must show: a hung worker that owes an answer goes on owing  *)
(* it, and is no later.                                                    *)
StillLate == Owes /\ Owes' /\ ~ Lost /\ HungLate /\ stuck' = stuck /\ stuck \in Nat

LEMMA ByStep ==
  ASSUME Base, Base', stuck \in Nat, Overlong, ui'.kill_in <= KillGrace,
         stuck' = IF Owes' THEN stuck ELSE 0,
         Owes /\ Owes' /\ Lost => Lost',
         StillLate => HungLate'
  PROVE  Overlong'
<1>1. CASE ~ Owes'
  BY <1>1 DEF Overlong
<1>2. CASE Owes' /\ ~ Owes
  <2>1. stuck' = 0
    BY <1>2 DEF Overlong
  <2> QED  BY <1>2, <2>1, NotStuckNext DEF Overlong
<1>3. CASE Owes' /\ Owes /\ Lost
  BY <1>3 DEF Overlong
<1>4. CASE Owes' /\ Owes /\ ~ Lost
  BY <1>4 DEF Overlong, StillLate
<1> QED  BY <1>1, <1>2, <1>3, <1>4

(* Nothing that the bound reads has changed.                               *)
SameClocks ==
  /\ SamePing(logic, logic') /\ SameFrame(logic, logic') /\ SameCompile(logic, logic')
  /\ logic'.killing = logic.killing

LEMMA Unmoved ==
  ASSUME Base, Base', StillLate, SameClocks, scene' = scene,
         ui'.kill_in = ui.kill_in, worker'.doing = worker.doing,
         CompileMail' <=> CompileMail, Extra' = Extra,
         logic.killing => ui.kill_in > 0 \/ ui.phase # "reap",
         ui.phase # "ping", ui'.phase # "ping"
  PROVE  HungLate'
<1>1. Late' = Late /\ scene'.pause = scene.pause /\ stuck' = stuck
  BY DEF Late, StillLate
<1>2. CASE logic.killing
  <2>1. ui'.idle \in Nat
    BY Fields DEF Base, Shape, UiType, WorkerType
  <2>2. CASE ui.kill_in > 0
    BY <1>1, <1>2, <2>2 DEF HungLate, StillLate, SameClocks
  <2>3. CASE ~ (ui.kill_in > 0)
    <3>1. stuck < Late + KillGrace + 0
      BY <1>2, <2>3 DEF HungLate, StillLate
    <3>2. stuck < Late + KillGrace + (IF ui'.phase = "reap" THEN ui'.idle ELSE 0)
      BY <2>1, <3>1, Bounds DEF StillLate, Overlong
    <3> QED  BY <1>1, <1>2, <2>3, <3>2 DEF HungLate, SameClocks
  <2> QED  BY <2>2, <2>3
<1>3. CASE ~ logic.killing
  BY <1>1, <1>3 DEF HungLate, StillLate, SameClocks, SamePing, SameFrame, SameCompile, Since
<1> QED  BY <1>2, <1>3

LEMMA OverReap ==
  ASSUME Base, Base', Reap, StillLate
  PROVE  HungLate'
<1>1. worker.doing # "dead" /\ worker'.doing # "dead"
  BY DEF StillLate, Owes, Alive
<1>2. /\ scene' = scene /\ ui.phase = "reap" /\ ui'.phase = "drain"
      /\ logic' = logic /\ SameUi /\ SameQueues
      /\ worker'.doing = IF ui.killing /\ Alive /\ ui.kill_in = 0 THEN "dead" ELSE worker.doing
  BY <1>1, ReapDoes DEF Base
<1>3. worker'.doing = worker.doing /\ (logic.killing => ui.kill_in > 0)
  <2>1. ~ (ui.killing /\ Alive /\ ui.kill_in = 0)
    BY <1>1, <1>2
  <2>2. Alive /\ ui.kill_in \in Nat /\ (ui.killing <=> logic.killing)
    BY Bounds DEF StillLate, Owes, Base, Wired
  <2> QED  BY <1>2, <2>1, <2>2
<1>4. SameClocks /\ (CompileMail' <=> CompileMail) /\ Extra' = Extra
  BY <1>2 DEF SameClocks, SamePing, SameFrame, SameCompile, CompileMail, Extra, SameUi, SameQueues
<1> QED  BY <1>2, <1>3, <1>4, Unmoved DEF SameUi

LEMMA OverIORecv ==
  ASSUME Base, Base', IORecv, StillLate
  PROVE  HungLate'
<1>1. /\ SameLogicUi /\ worker' = worker
      /\ toMain' = toMain \/ toMain' = Append(toMain, "pong")
  BY IORecvDoes DEF Base
<1>2. CompileMail' <=> CompileMail
  <2>1. CASE toMain' = toMain
    BY <2>1 DEF CompileMail
  <2>2. CASE toMain' = Append(toMain, "pong")
    <3>1. toMain \in Seq(ToMain) /\ "pong" \in ToMain
      BY DEF Base, Shape, ToMain
    <3>2. \A x : Has(toMain', x) <=> Has(toMain, x) \/ "pong" = x
      BY <2>2, <3>1, HasAppend
    <3> QED  BY <3>2 DEF CompileMail
  <2> QED  BY <1>1, <2>1, <2>2
<1>3. stuck' = stuck
  BY DEF StillLate
<1> QED  BY <1>1, <1>2, <1>3 DEF HungLate, StillLate, SameLogicUi, Since, Late, Extra

LEMMA FrameIsOwedFact ==
  Base /\ Owes /\ worker.doing # "boot" /\ worker.doing # "compile" /\ logic.compiles_pending = 0
    => ui.outstanding /\ logic.frame_outstanding /\ ~ Has(toMain, "done")
BY FrameIsOwed

LEMMA FrameIsOwedNext ==
  ASSUME Base', Owes', worker'.doing # "boot", worker'.doing # "compile", logic'.compiles_pending = 0
  PROVE  logic'.frame_outstanding
<1>1. (Base /\ Owes /\ worker.doing # "boot" /\ worker.doing # "compile" /\ logic.compiles_pending = 0
         => ui.outstanding /\ logic.frame_outstanding /\ ~ Has(toMain, "done"))'
  BY FrameIsOwedFact, PTL
<1> QED  BY <1>1

(* Whether the worker compiles is known to whoever has heard all of it.    *)
LEMMA AllHeard ==
  Base /\ Alive /\ ~ CompileMail => (logic.compile_busy <=> worker.doing = "compile")
<1> SUFFICES ASSUME Base, Alive, ~ CompileMail
             PROVE  logic.compile_busy <=> worker.doing = "compile"
  OBVIOUS
<1>1. logic.compile_busy \in BOOLEAN
  BY Fields DEF Base
<1>2. BusyAfter(toMain, logic.compile_busy) <=> logic.compile_busy
  BY <1>1, BusyHeard DEF CompileMail
<1> QED  BY <1>2 DEF Base, Owed

LEMMA AllHeardNext ==
  ASSUME Base', Alive', ~ CompileMail'
  PROVE  logic'.compile_busy <=> worker'.doing = "compile"
<1>1. (Base /\ Alive /\ ~ CompileMail => (logic.compile_busy <=> worker.doing = "compile"))'
  BY AllHeard, PTL
<1> QED  BY <1>1

LEMMA OverDrain ==
  ASSUME Base, Base', Drain, StillLate
  PROVE  HungLate'
<1> DEFINE m == Head(toMain)
<1>1. /\ scene' = scene /\ ui.phase = "drain" /\ ui'.phase = "drain"
      /\ toMain # <<>> /\ toMain' = Tail(toMain) /\ m \in ToMain
      /\ worker' = worker
      /\ ui'.kill_in = ui.kill_in /\ ui'.idle = ui.idle
      /\ logic'.killing = logic.killing
      /\ logic'.frame_outstanding <=> (logic.frame_outstanding /\ m # "done")
      /\ logic'.frame_sent = IF m = "result" /\ logic.frame_outstanding THEN 0 ELSE logic.frame_sent
      /\ logic'.compile_busy <=> (m = "busy" \/ (m # "result" /\ logic.compile_busy))
      /\ logic'.compile_since = IF m = "busy" THEN 0 ELSE logic.compile_since
      /\ logic'.compiles_pending = IF m = "result" /\ logic.compiles_pending > 0
                                   THEN logic.compiles_pending - 1 ELSE logic.compiles_pending
      /\ logic'.compile_wait_since = IF m \in {"busy", "result"} THEN 0 ELSE logic.compile_wait_since
  <2>1. logic.compile_busy => logic.busy_slide = 0
    BY DEF Base, Wired
  <2> QED  BY <2>1, DrainDoes DEF Base, SameLife
<1>2. worker.doing # "boot" /\ Alive' /\ Alive
  BY <1>1 DEF Base, Owed, StillLate, Owes
<1>3. CompileMail <=> (CompileMail' \/ m = "busy" \/ m = "result")
  <2>1. toMain \in Seq(ToMain)
    BY DEF Base, Shape
  <2>2. \A x : Has(toMain, x) <=> Has(toMain', x) \/ m = x
    BY <1>1, <2>1, HasTail
  <2> HIDE DEF m
  <2> QED  BY <2>2 DEF CompileMail
<1> HIDE DEF m
<1>4. Late' = Late /\ scene'.pause = scene.pause /\ stuck' = stuck /\ Extra' = Extra
  BY <1>1 DEF Late, StillLate, Extra
<1>5. CASE logic.killing
  BY <1>1, <1>4, <1>5 DEF HungLate, StillLate
<1>6. CASE ~ logic.killing /\ CompileMail'
  BY <1>1, <1>2, <1>3, <1>4, <1>6 DEF HungLate, StillLate
<1>7. CASE ~ logic.killing /\ ~ CompileMail' /\ (m = "busy" \/ m = "result")
  <2>1. stuck <= Extra /\ Extra \in Nat /\ Extra <= scene.pause /\ stuck \in Nat
    BY <1>2, <1>3, <1>7, Bounds DEF HungLate, StillLate
  <2>2. /\ Since(scene.pause, 0, CompileTimeout)' /\ Since(scene.pause, 0, FrameTimeout)'
        /\ Since(scene.pause + FrameTimeout, 0, CompileTimeout)'
    BY <1>4, <2>1, Bounds DEF Since, Age
  <2>3. logic'.compile_busy <=> worker.doing = "compile"
    BY <1>1, <1>2, <1>7, AllHeardNext
  <2>4. CASE worker.doing = "compile"
    <3>1. logic'.compile_since = 0
      BY <1>1, <1>7, <2>3, <2>4
    <3> QED  BY <1>1, <1>2, <1>7, <2>2, <2>4, <3>1 DEF HungLate
  <2>5. CASE worker.doing # "compile"
    <3>1. m = "result" /\ logic'.compile_wait_since = 0
      BY <1>1, <1>7, <2>3, <2>5
    <3>2. CASE logic'.compiles_pending > 0
      BY <1>1, <1>2, <1>7, <2>2, <2>5, <3>1, <3>2 DEF HungLate
    <3>3. CASE ~ (logic'.compiles_pending > 0)
      <4>1. logic'.compiles_pending = 0
        <5>1. logic'.compiles_pending \in Nat
          BY ObjectFields DEF Base, Shape
        <5> QED  BY <3>3, <5>1
      <4>2. logic'.frame_outstanding
        BY <1>1, <1>2, <2>5, <4>1, FrameIsOwedNext DEF StillLate
      <4>3. logic'.frame_sent = 0
        BY <1>1, <3>1, <4>2
      <4> QED  BY <1>1, <1>2, <1>7, <2>2, <2>5, <3>3, <4>3 DEF HungLate
    <3> QED  BY <3>2, <3>3
  <2> QED  BY <2>4, <2>5
<1>8. CASE ~ logic.killing /\ ~ CompileMail' /\ m # "busy" /\ m # "result"
  <2>1. /\ ~ CompileMail
        /\ logic'.frame_sent = logic.frame_sent /\ logic'.compile_since = logic.compile_since
        /\ logic'.compiles_pending = logic.compiles_pending
        /\ logic'.compile_wait_since = logic.compile_wait_since
    BY <1>1, <1>3, <1>8
  <2> QED  BY <1>1, <1>2, <1>4, <1>8, <2>1 DEF HungLate, StillLate, Since
<1> QED  BY <1>5, <1>6, <1>7, <1>8

LEMMA OverKill ==
  ASSUME Base, Base', Kill, StillLate, Overlong,
         PingInterval + PongTimeout <= FrameTimeout + CompileTimeout + 1
  PROVE  HungLate'
<1>1. /\ ~ logic.killing /\ logic'.killing /\ ui'.kill_in = KillGrace /\ scene' = scene
  BY KillDoes DEF Base
<1>2. stuck <= Late /\ stuck \in Nat
  BY <1>1, KilledInTime DEF StillLate
<1>3. Late' = Late /\ stuck' = stuck
  BY <1>1 DEF Late, StillLate
<1>4. KillGrace \in Nat \ {0} /\ Late \in Nat
  BY Bounds
<1> QED  BY <1>1, <1>2, <1>3, <1>4 DEF HungLate

LEMMA OverLeaveAlone ==
  ASSUME Base, Base', LeaveAlone, StillLate
  PROVE  HungLate'
<1>1. /\ scene' = scene /\ logic' = logic /\ worker' = worker /\ toMain' = <<>> /\ toMain = <<>>
      /\ ui.phase = "drain"
      /\ logic.started /\ ~ logic.gave_up /\ logic.spawned /\ ~ logic.killing
           => ~ Sup!Overdue(logic, 0)
      /\ ui'.phase = IF Alive /\ Sup!ShouldPing(logic, 0) THEN "ping" ELSE "send"
      /\ ui'.kill_in = ui.kill_in /\ ui'.idle = ui.idle
  BY LeaveAloneDoes DEF Base, SameQueues, Drained
<1>2. Late' = Late /\ scene'.pause = scene.pause /\ stuck' = stuck /\ stuck \in Nat /\ Extra' = 0
  BY <1>1 DEF Late, StillLate, Extra
<1>3. CASE logic.killing
  BY <1>1, <1>2, <1>3 DEF HungLate, StillLate
<1>4. CASE ~ logic.killing
  <2>1. ~ CompileMail /\ ~ CompileMail'
    BY <1>1, CountsNone DEF CompileMail
  <2>2. Alive /\ logic.spawned /\ logic.started /\ ~ logic.gave_up
    BY DEF StillLate, Owes, Alive, Base, Wired
  <2>3. ~ Sup!Overdue(logic, 0)
    BY <1>1, <1>4, <2>2
  <2>4. logic.compile_busy <=> worker.doing = "compile"
    BY <2>1, <2>2, AllHeard
  <2>5. /\ logic.ping_outstanding => Age(logic.ping_sent) <= PongTimeout
        /\ logic.compile_busy => Age(logic.compile_since) <= CompileTimeout
        /\ ~ logic.compile_busy /\ logic.compiles_pending > 0
             => Age(logic.compile_wait_since) <= CompileTimeout
        /\ logic.frame_outstanding /\ ~ logic.compile_busy /\ ~ (logic.compiles_pending > 0)
             => Age(logic.frame_sent) <= FrameTimeout
    <3>1. /\ Age(logic.ping_sent) \in 0..Horizon /\ Age(logic.ping_sent) = 0 - logic.ping_sent
          /\ Age(logic.compile_since) \in 0..Horizon
          /\ Age(logic.compile_since) = 0 - logic.compile_since
          /\ Age(logic.compile_wait_since) \in 0..Horizon
          /\ Age(logic.compile_wait_since) = 0 - logic.compile_wait_since
          /\ Age(logic.frame_sent) \in 0..Horizon /\ Age(logic.frame_sent) = 0 - logic.frame_sent
      BY Stamps DEF Base, Age
    <3>2. /\ ~ (logic.ping_outstanding /\ 0 - logic.ping_sent > PongTimeout)
          /\ ~ (logic.compile_busy /\ 0 - logic.compile_since > CompileTimeout)
          /\ ~ (~ logic.compile_busy /\ logic.compiles_pending > 0
                 /\ 0 - logic.compile_wait_since > CompileTimeout)
          /\ ~ (logic.frame_outstanding /\ ~ (logic.compile_busy \/ logic.compiles_pending > 0)
                 /\ 0 - logic.frame_sent > FrameTimeout)
      BY <2>3 DEF Sup!Overdue, Sup!Armed, Sup!Compiling
    <3>3. PongTimeout \in Nat /\ CompileTimeout \in Nat /\ FrameTimeout \in Nat /\ Horizon \in Nat
      BY Bounds
    <3> QED  BY <3>1, <3>2, <3>3
  <2>6. \A start \in Nat, limit \in Nat :
          \A t \in {logic.ping_sent, logic.frame_sent, logic.compile_since, logic.compile_wait_since} :
            Since(start, t, limit) /\ Age(t) <= limit /\ limit < Horizon => Since(start, t, limit)'
    <3> TAKE start \in Nat, limit \in Nat
    <3> TAKE t \in {logic.ping_sent, logic.frame_sent, logic.compile_since, logic.compile_wait_since}
    <3> HAVE Since(start, t, limit) /\ Age(t) <= limit /\ limit < Horizon
    <3>1. Age(t) \in Nat
      BY Stamps DEF Base
    <3>2. Age(t) < Horizon
      BY <3>1, Bounds
    <3>3. stuck <= start + Age(t)
      BY <3>2 DEF Since
    <3>4. stuck <= start + limit + 0
      BY <1>2, <3>1, <3>3
    <3> HIDE DEF Age
    <3> QED  BY <1>2, <3>3, <3>4 DEF Since
  <2>7. CASE worker.doing = "boot" /\ logic.ping_outstanding
    <3>1. Since(PingInterval - 1 + scene.pause, logic.ping_sent, PongTimeout)
      BY <1>4, <2>7 DEF HungLate, StillLate
    <3>2. PingInterval - 1 + scene.pause \in Nat /\ PongTimeout \in Nat /\ PongTimeout < Horizon
      BY Bounds
    <3>3. Since(PingInterval - 1 + scene.pause, logic.ping_sent, PongTimeout)'
      BY <1>1, <2>5, <2>6, <2>7, <3>1, <3>2
    <3> QED  BY <1>1, <1>4, <2>7, <3>3 DEF HungLate
  <2>8. CASE worker.doing = "boot" /\ ~ logic.ping_outstanding
    <3>1. Since(0, logic.last_ping_time, PingInterval - 1)
      BY <1>1, <1>4, <2>8 DEF HungLate, StillLate
    <3>2. Age(logic.last_ping_time) \in Nat /\ Age(logic.last_ping_time) = 0 - logic.last_ping_time
      BY Stamps DEF Base, Age
    <3>3. CASE ui'.phase = "ping"
      <4>1. stuck <= 0 + (PingInterval - 1) + Extra
        BY <3>1 DEF Since
      <4>2. stuck <= PingInterval - 1 + scene.pause
        BY <1>2, <4>1, Bounds
      <4> QED  BY <1>1, <1>2, <1>4, <2>8, <3>3, <4>2 DEF HungLate
    <3>4. CASE ui'.phase # "ping"
      <4>1. Age(logic.last_ping_time) < PingInterval
        <5>1. ~ (0 - logic.last_ping_time >= PingInterval)
          BY <1>1, <1>4, <2>2, <2>8, <3>4 DEF Sup!ShouldPing
        <5> QED  BY <3>2, <5>1, Bounds
      <4>2. stuck <= Age(logic.last_ping_time)
        BY <3>1, <3>2, <4>1, Bounds DEF Since
      <4>3. Since(0, logic.last_ping_time, PingInterval - 1)'
        <5>1. stuck <= 0 + Age(logic.last_ping_time) /\ stuck <= 0 + (PingInterval - 1) + 0
          BY <1>2, <3>2, <4>1, <4>2, Bounds
        <5> QED  BY <1>1, <1>2, <5>1 DEF Since
      <4> QED  BY <1>1, <1>4, <2>8, <3>4, <4>3 DEF HungLate
    <3> QED  BY <3>3, <3>4
  <2>9. CASE worker.doing = "compile"
    <3>1. Since(scene.pause, logic.compile_since, CompileTimeout)
      BY <1>4, <2>1, <2>9 DEF HungLate, StillLate
    <3>2. scene.pause \in Nat /\ CompileTimeout \in Nat /\ CompileTimeout < Horizon
      BY Bounds
    <3>3. Since(scene.pause, logic.compile_since, CompileTimeout)'
      BY <1>1, <2>4, <2>5, <2>6, <2>9, <3>1, <3>2
    <3> QED  BY <1>1, <1>4, <2>1, <2>9, <3>3 DEF HungLate
  <2>10. CASE worker.doing \notin {"boot", "compile"} /\ logic.compiles_pending > 0
    <3>1. Since(scene.pause + FrameTimeout, logic.compile_wait_since, CompileTimeout)
      BY <1>4, <2>1, <2>10 DEF HungLate, StillLate
    <3>2. scene.pause + FrameTimeout \in Nat /\ CompileTimeout \in Nat /\ CompileTimeout < Horizon
      BY Bounds
    <3>3. Since(scene.pause + FrameTimeout, logic.compile_wait_since, CompileTimeout)'
      BY <1>1, <2>4, <2>5, <2>6, <2>10, <3>1, <3>2
    <3> QED  BY <1>1, <1>4, <2>1, <2>10, <3>3 DEF HungLate
  <2>11. CASE worker.doing \notin {"boot", "compile"} /\ ~ (logic.compiles_pending > 0)
    <3>1. Since(scene.pause, logic.frame_sent, FrameTimeout)
      BY <1>4, <2>1, <2>11 DEF HungLate, StillLate
    <3>2. scene.pause \in Nat /\ FrameTimeout \in Nat /\ FrameTimeout < Horizon
      BY Bounds
    <3>3. logic.frame_outstanding
      <4>1. logic.compiles_pending = 0
        <5>1. logic.compiles_pending \in Nat
          BY Fields DEF Base
        <5> QED  BY <2>11, <5>1
      <4> QED  BY <2>11, <4>1, FrameIsOwed DEF StillLate
    <3>4. Since(scene.pause, logic.frame_sent, FrameTimeout)'
      BY <1>1, <2>4, <2>5, <2>6, <2>11, <3>1, <3>2, <3>3
    <3> QED  BY <1>1, <1>4, <2>1, <2>11, <3>4 DEF HungLate
  <2> QED  BY <2>7, <2>8, <2>9, <2>10, <2>11
<1> QED  BY <1>3, <1>4

LEMMA OverPing ==
  ASSUME Base, Base', Ping, StillLate
  PROVE  HungLate'
<1>1. Alive
  BY DEF StillLate, Owes
<1>2. /\ scene' = scene /\ worker' = worker /\ toMain' = toMain
      /\ ui.phase = "ping" /\ ui'.phase = "send"
      /\ ui'.kill_in = ui.kill_in /\ ui'.idle = ui.idle
      /\ SameLife(logic, logic') /\ SameFrame(logic, logic') /\ SameCompile(logic, logic')
      /\ logic'.ping_outstanding /\ logic'.ping_sent = - ui.waited
  BY <1>1, PingStepDoes DEF Base
<1>3. /\ Late' = Late /\ scene'.pause = scene.pause /\ stuck' = stuck /\ Extra' = 0 /\ Extra = 0
      /\ stuck \in Nat
      /\ CompileMail' <=> CompileMail
  BY <1>2 DEF Late, StillLate, Extra, CompileMail
<1>4. ~ logic.killing /\ ~ logic.ping_outstanding /\ ~ logic'.killing
  BY <1>2 DEF Base, Wired, SameLife
<1>5. CASE worker.doing = "boot"
  <2>1. stuck <= PingInterval - 1 + scene.pause
    BY <1>2, <1>4, <1>5 DEF HungLate, StillLate
  <2>2. Age(logic'.ping_sent) \in Nat
    BY <1>2, Fields, Deadlines DEF Base, Age
  <2>3. Since(PingInterval - 1 + scene.pause, logic.ping_sent, PongTimeout)'
    BY <1>3, <2>1, <2>2, Bounds DEF Since
  <2> QED  BY <1>2, <1>4, <1>5, <2>3 DEF HungLate
<1>6. CASE worker.doing # "boot"
  BY <1>2, <1>3, <1>4, <1>6 DEF HungLate, StillLate, Since, SameFrame, SameCompile
<1> QED  BY <1>5, <1>6

LEMMA OverSubmit ==
  ASSUME Base, Base', Submit, StillLate
  PROVE  HungLate'
<1>1. Alive
  BY DEF StillLate, Owes
<1>2. /\ scene' = scene /\ worker' = worker /\ toMain' = toMain
      /\ ui.phase = "send" /\ ui'.phase = "send"
      /\ ui'.kill_in = ui.kill_in /\ ui'.idle = ui.idle
      /\ SameLife(logic, logic') /\ SameFrame(logic, logic') /\ SamePing(logic, logic')
      /\ logic'.compile_since = logic.compile_since
      /\ logic'.compiles_pending = logic.compiles_pending + 1
      /\ logic'.compile_wait_since = IF logic.compiles_pending = 0 THEN - ui.waited
                                     ELSE logic.compile_wait_since
  BY <1>1, SubmitDoes DEF Base
<1>3. /\ Late' = Late /\ scene'.pause = scene.pause /\ stuck' = stuck /\ Extra' = 0 /\ Extra = 0
      /\ stuck \in Nat
      /\ CompileMail' <=> CompileMail
  BY <1>2 DEF Late, StillLate, Extra, CompileMail
<1>4. logic.compiles_pending \in Nat
  BY Fields DEF Base
<1>5. CASE logic.killing \/ worker.doing = "boot" \/ CompileMail \/ worker.doing = "compile"
           \/ logic.compiles_pending > 0
  <2>1. logic.compiles_pending > 0
          => logic'.compiles_pending > 0 /\ logic'.compile_wait_since = logic.compile_wait_since
    BY <1>2, <1>4
  <2> QED  BY <1>2, <1>3, <1>5, <2>1 DEF HungLate, StillLate, Since, SameLife, SamePing
<1>6. CASE ~ (logic.killing \/ worker.doing = "boot" \/ CompileMail \/ worker.doing = "compile"
              \/ logic.compiles_pending > 0)
  <2>1. Since(scene.pause, logic.frame_sent, FrameTimeout)
    BY <1>6 DEF HungLate, StillLate
  <2>2. stuck <= scene.pause + FrameTimeout
    BY <1>3, <2>1, Bounds DEF Since
  <2>3. Age(logic'.compile_wait_since) \in Nat /\ logic'.compiles_pending > 0
    BY <1>2, <1>4, <1>6, Fields, Deadlines DEF Base, Age
  <2>4. Since(scene.pause + FrameTimeout, logic.compile_wait_since, CompileTimeout)'
    BY <1>3, <2>2, <2>3, Bounds DEF Since
  <2> QED  BY <1>2, <1>3, <1>6, <2>3, <2>4 DEF HungLate, SameLife
<1> QED  BY <1>5, <1>6

LEMMA OverEndFrame ==
  ASSUME Base, Base', EndFrame, StillLate
  PROVE  HungLate'
<1>1. /\ scene' = scene /\ worker' = worker /\ logic' = logic /\ toMain' = toMain
      /\ ui.phase = "send" /\ ui'.kill_in = ui.kill_in
      /\ (ui'.phase = "reap" /\ ui'.idle = 0) \/ ui'.phase = "begin"
  BY EndFrameDoes DEF Base, SameQueues
<1>2. SameClocks /\ (CompileMail' <=> CompileMail) /\ Extra' = Extra
  BY <1>1 DEF SameClocks, SamePing, SameFrame, SameCompile, CompileMail, Extra
<1> QED  BY <1>1, <1>2, Unmoved

LEMMA OverBegin ==
  ASSUME Base, Base', Begin, StillLate
  PROVE  HungLate'
<1>1. Alive
  BY DEF StillLate, Owes
<1>2. /\ scene' = scene /\ worker' = worker /\ toMain' = toMain
      /\ ui.phase = "begin" /\ ui'.phase = "reap"
      /\ ui'.kill_in = ui.kill_in /\ ui'.idle = 0
      /\ SameLife(logic, logic') /\ SamePing(logic, logic') /\ SameCompile(logic, logic')
      /\ logic'.frame_sent = 0
  BY <1>1, BeginStepDoes DEF Base
<1>3. /\ Late' = Late /\ scene'.pause = scene.pause /\ stuck' = stuck /\ Extra' = 0 /\ Extra = 0
      /\ stuck \in Nat
      /\ CompileMail' <=> CompileMail
  BY <1>2 DEF Late, StillLate, Extra, CompileMail
<1>4. logic.killing \/ worker.doing = "boot" \/ CompileMail \/ worker.doing = "compile"
        \/ logic.compiles_pending > 0
  <2>1. ~ ui.outstanding
    BY <1>2 DEF Base, Wired
  <2>2. logic.compiles_pending \in Nat
    BY Fields DEF Base
  <2> QED  BY <2>1, <2>2, FrameIsOwed DEF StillLate
<1>5. KillGrace \in Nat /\ Late \in Nat
  BY Bounds
<1>6. CASE logic.killing
  BY <1>2, <1>3, <1>5, <1>6 DEF HungLate, StillLate, SameLife
<1>7. CASE ~ logic.killing
  BY <1>2, <1>3, <1>4, <1>7 DEF HungLate, StillLate, Since, SameLife, SamePing, SameCompile
<1> QED  BY <1>6, <1>7

(* Time passes: every age grows with the time that the worker is stuck.    *)
LEMMA OlderIsLater ==
  ASSUME Base, ui.phase = "reap", ui'.phase = "reap", ui'.idle = ui.idle + 1,
         stuck \in Nat, stuck' \in Nat, stuck' <= stuck + 1,
         NEW start \in Nat, NEW limit \in Nat, NEW t \in (-Horizon)..0, NEW u, u = Older(t),
         Since(start, t, limit)
  PROVE  /\ Age(u) < Horizon => stuck' <= start + Age(u)
         /\ stuck' <= start + limit + Extra'
<1>1. Extra' = Extra + 1 /\ Extra \in Nat /\ Horizon \in Nat
  BY Bounds DEF Extra
<1>2. Age(t) \in 0..Horizon /\ t = - Age(t)
  BY <1>1 DEF Age
<1>3. u = (IF t > -Horizon THEN t - 1 ELSE t)
  BY DEF Older
<1>4. Age(u) < Horizon => Age(u) = Age(t) + 1 /\ Age(t) < Horizon
  BY <1>1, <1>3 DEF Age
<1> QED  BY <1>1, <1>2, <1>4 DEF Since

LEMMA OverTick ==
  ASSUME Base, Base', Tick, Owes, ~ Lost, HungLate, stuck \in Nat, stuck' \in Nat, stuck' <= stuck + 1
  PROVE  HungLate'
<1>1. ~ Blocked
  <2>1. CASE Listens
    <3>1. inbox = <<>>
      BY <2>1, TickDoes DEF Base, Prompt
    <3>2. Len(inbox) = 0
      BY <3>1
    <3>3. scene.room > 0
      <4>1. scene \in Scenes
        BY DEF Base, Shape
      <4> QED  BY <4>1, SceneFacts
    <3> QED  BY <3>2, <3>3 DEF Blocked, Room
  <2>2. CASE ~ Listens
    BY <2>2 DEF Lost, Blocked, Listens
  <2> QED  BY <2>1, <2>2
<1>2. /\ scene' = scene /\ toMain' = toMain
      /\ ui.phase = "reap" /\ ui'.phase = "reap" /\ ui'.idle = ui.idle + 1
      /\ ui'.kill_in = IF ui.kill_in > 0 THEN ui.kill_in - 1 ELSE 0
      /\ worker'.doing = worker.doing
      /\ logic'.killing = logic.killing
      /\ logic'.ping_outstanding = logic.ping_outstanding
      /\ logic'.compiles_pending = logic.compiles_pending
      /\ logic'.ping_sent = Older(logic.ping_sent)
      /\ logic'.last_ping_time = Older(logic.last_ping_time)
      /\ logic'.frame_sent = Older(logic.frame_sent)
      /\ logic'.compile_since = Older(logic.compile_since)
      /\ logic'.compile_wait_since = Older(logic.compile_wait_since)
  BY <1>1, TickDoes DEF Base, SameLife, SameQueues
<1>3. /\ Late' = Late /\ scene'.pause = scene.pause /\ Extra' = Extra + 1
      /\ CompileMail' <=> CompileMail
  BY <1>2 DEF Late, Extra, CompileMail
<1>4. CASE logic.killing
  <2>1. CASE ui.kill_in > 1
    <3>1. stuck + ui.kill_in <= Late + KillGrace /\ ui'.kill_in = ui.kill_in - 1 /\ ui'.kill_in > 0
      BY <1>2, <1>4, <2>1, Bounds DEF HungLate
    <3>2. stuck' + ui'.kill_in <= Late + KillGrace
      BY <3>1, Bounds
    <3> QED  BY <1>2, <1>3, <1>4, <3>1, <3>2 DEF HungLate
  <2>2. CASE ~ (ui.kill_in > 1)
    <3>1. /\ ui'.kill_in = 0
          /\ \/ stuck + 1 <= Late + KillGrace
             \/ stuck < Late + KillGrace + ui.idle
      BY <1>2, <1>4, <2>2, Bounds DEF HungLate
    <3>2. stuck' < Late + KillGrace + ui'.idle
      BY <1>2, <3>1, Bounds
    <3> QED  BY <1>2, <1>3, <1>4, <3>1, <3>2 DEF HungLate
  <2> QED  BY <2>1, <2>2
<1>5. CASE ~ logic.killing /\ CompileMail /\ worker.doing # "boot"
  <2>1. stuck <= Extra
    BY <1>5 DEF HungLate
  <2>2. stuck' <= Extra'
    BY <1>3, <2>1, Bounds
  <2> QED  BY <1>2, <1>3, <1>5, <2>2 DEF HungLate
<1>6. CASE ~ logic.killing /\ ~ (CompileMail /\ worker.doing # "boot")
  <2>1. {logic.ping_sent, logic.last_ping_time, logic.frame_sent, logic.compile_since,
         logic.compile_wait_since} \subseteq (-Horizon)..0
    BY Fields DEF Base
  <2>2. /\ PingInterval - 1 + scene.pause \in Nat /\ PongTimeout \in Nat /\ PingInterval - 1 \in Nat
        /\ scene.pause \in Nat /\ CompileTimeout \in Nat /\ FrameTimeout \in Nat
        /\ scene.pause + FrameTimeout \in Nat
    BY Bounds
  <2>3. CASE worker.doing = "boot" /\ logic.ping_outstanding
    <3>1. Since(PingInterval - 1 + scene.pause, logic.ping_sent, PongTimeout)
      BY <1>6, <2>3 DEF HungLate
    <3>2. Since(PingInterval - 1 + scene.pause, logic.ping_sent, PongTimeout)'
      BY <1>2, <1>3, <2>1, <2>2, <3>1, OlderIsLater DEF Since
    <3> QED  BY <1>2, <1>6, <2>3, <3>2 DEF HungLate
  <2>4. CASE worker.doing = "boot" /\ ~ logic.ping_outstanding
    <3>1. Since(0, logic.last_ping_time, PingInterval - 1)
      BY <1>2, <1>6, <2>4 DEF HungLate
    <3>2. Since(0, logic.last_ping_time, PingInterval - 1)'
      BY <1>2, <1>3, <2>1, <2>2, <3>1, OlderIsLater DEF Since
    <3> QED  BY <1>2, <1>6, <2>4, <3>2 DEF HungLate
  <2>5. CASE worker.doing = "compile"
    <3>1. Since(scene.pause, logic.compile_since, CompileTimeout) /\ ~ CompileMail
      BY <1>6, <2>5 DEF HungLate
    <3>2. Since(scene.pause, logic.compile_since, CompileTimeout)'
      BY <1>2, <1>3, <2>1, <2>2, <3>1, OlderIsLater DEF Since
    <3> QED  BY <1>2, <1>3, <1>6, <2>5, <3>1, <3>2 DEF HungLate
  <2>6. CASE worker.doing \notin {"boot", "compile"} /\ logic.compiles_pending > 0
    <3>1. Since(scene.pause + FrameTimeout, logic.compile_wait_since, CompileTimeout) /\ ~ CompileMail
      BY <1>6, <2>6 DEF HungLate
    <3>2. Since(scene.pause + FrameTimeout, logic.compile_wait_since, CompileTimeout)'
      BY <1>2, <1>3, <2>1, <2>2, <3>1, OlderIsLater DEF Since
    <3> QED  BY <1>2, <1>3, <1>6, <2>6, <3>1, <3>2 DEF HungLate
  <2>7. CASE worker.doing \notin {"boot", "compile"} /\ ~ (logic.compiles_pending > 0)
    <3>1. Since(scene.pause, logic.frame_sent, FrameTimeout) /\ ~ CompileMail
      BY <1>6, <2>7 DEF HungLate
    <3>2. Since(scene.pause, logic.frame_sent, FrameTimeout)'
      BY <1>2, <1>3, <2>1, <2>2, <3>1, OlderIsLater DEF Since
    <3> QED  BY <1>2, <1>3, <1>6, <2>7, <3>1, <3>2 DEF HungLate
  <2> QED  BY <2>3, <2>4, <2>5, <2>6, <2>7
<1> QED  BY <1>4, <1>5, <1>6

(* While the UI waits for a worker that hangs before it listens, nothing   *)
(* can happen but that the worker dies.                                    *)
LEMMA NothingElse ==
  ASSUME Base, Steps, Owes, Owes', Lost
  PROVE  FALSE
<1>1. /\ Alive /\ worker.hung /\ worker.doing = "boot" /\ ~ Room
      /\ ui.phase \in {"ping", "begin"} \/ (ui.phase = "send" /\ ui.todo > 0)
  BY DEF Owes, Lost, Blocked
<1>2. worker'.doing # "dead"
  BY DEF Owes, Alive
<1>3. CASE Reap \/ Drain \/ Spawn \/ Kill \/ LeaveAlone
  BY <1>1, <1>3 DEF Reap, Drain, Spawn, Kill, LeaveAlone, Drained
<1>4. CASE Ping \/ Submit \/ EndFrame \/ Begin
  <2>1. CASE EndFrame
    BY <1>1, <2>1 DEF EndFrame
  <2>2. CASE Ping \/ Submit \/ Begin
    BY <1>1, <2>2 DEF Ping, Submit, Begin, Sent
  <2> QED  BY <1>4, <2>1, <2>2
<1>5. CASE IORecv \/ Work
  BY <1>1, <1>5 DEF IORecv, Listens, Work, Boot, EngineBuilt, Take, Finish, Works
<1>6. CASE Hang
  BY <1>1, <1>6 DEF Hang, Works
<1>7. CASE Crash
  BY <1>2, <1>7, CrashDoes DEF Base
<1> QED  BY <1>3, <1>4, <1>5, <1>6, <1>7 DEF Steps, UIFrame

LEMMA KillTimer ==
  ASSUME Base, Next, ui.kill_in <= KillGrace
  PROVE  ui'.kill_in <= KillGrace
<1>1. ui.kill_in \in Nat /\ KillGrace \in Nat
  BY Bounds
<1>2. worker.doing = "dead" => logic.spawned
  BY DEF Base, Wired
<1>3. logic.compile_busy => logic.busy_slide = 0
  BY DEF Base, Wired
<1>4. ~ logic.restart_requested
  BY DEF Base, Wired
<1>5. CASE Kill
  BY <1>1, <1>5, KillDoes DEF Base
<1>6. CASE Tick
  <2>1. ui'.kill_in = IF ui.kill_in > 0 THEN ui.kill_in - 1 ELSE 0
    BY <1>6, TickDoes DEF Base
  <2> QED  BY <1>1, <2>1
<1>7. CASE Reap
  BY <1>2, <1>7, ReapDoes DEF Base, SameUi
<1>8. CASE Drain
  BY <1>3, <1>8, DrainDoes DEF Base
<1>9. CASE Spawn
  BY <1>4, <1>9, SpawnDoes DEF Base
<1>10. CASE LeaveAlone \/ Ping \/ Submit
  BY <1>10, LeaveAloneDoes, PingStepDoes, SubmitDoes DEF Base
<1>11. CASE EndFrame \/ Begin
  BY <1>11, EndFrameDoes, BeginStepDoes DEF Base
<1>12. CASE IORecv \/ Boot \/ EngineBuilt \/ Take \/ Finish \/ Hang \/ Crash
  <2>1. ui' = ui
    BY <1>12, IORecvDoes, BootDoes, EngineBuiltDoes, TakeDoes, FinishDoes, HangDoes, CrashDoes
       DEF Base, SameLogicUi
  <2> QED  BY <2>1
<1> QED  BY Zenon, StepCases, <1>5, <1>6, <1>7, <1>8, <1>9, <1>10, <1>11, <1>12

(* Overlong is kept, action by action.                                     *)
LEMMA OverlongStep ==
  ASSUME Base, Base', stuck \in Nat, Overlong, [Next]_vars,
         PingInterval + PongTimeout <= FrameTimeout + CompileTimeout + 1
  PROVE  stuck' \in Nat /\ Overlong'
<1>1. CASE Steps /\ stuck' = (IF Owes' THEN stuck ELSE 0)
  <2>1. Next
    BY <1>1 DEF Next
  <2>2. ui'.kill_in <= KillGrace
    BY <2>1, KillTimer DEF Overlong
  <2>3. Owes /\ Owes' /\ Lost => Lost'
    BY <1>1, NothingElse
  <2>4. ASSUME StillLate PROVE HungLate'
    <3>1. Alive /\ worker.hung /\ Alive' /\ worker'.hung
      BY <2>4 DEF StillLate, Owes
    <3>2. CASE Reap \/ Drain \/ LeaveAlone
      BY <2>4, <3>2, OverReap, OverDrain, OverLeaveAlone
    <3>3. CASE Spawn
      <4>1. ~ logic.spawned
        BY <3>3, SpawnDoes DEF Base, Wired
      <4> QED  BY <3>1, <4>1 DEF Base, Wired, Alive
    <3>4. CASE Kill
      BY <2>4, <3>4, OverKill
    <3>5. CASE Ping \/ Submit \/ EndFrame \/ Begin
      BY <2>4, <3>5, OverPing, OverSubmit, OverEndFrame, OverBegin
    <3>6. CASE IORecv
      BY <2>4, <3>6, OverIORecv
    <3>7. CASE Work \/ Hang
      BY <3>1, <3>7 DEF Work, Boot, EngineBuilt, Take, Finish, Works, Hang
    <3>8. CASE Crash
      BY <3>1, <3>8, CrashDoes DEF Base, Alive
    <3> QED  BY <1>1, <3>2, <3>3, <3>4, <3>5, <3>6, <3>7, <3>8 DEF Steps, UIFrame
  <2> QED  BY <1>1, <2>2, <2>3, <2>4, ByStep
<1>2. CASE Tick /\ stuck' = (IF ~ Owes THEN 0 ELSE IF stuck <= Patience THEN stuck + 1 ELSE stuck)
  <2>1. Next
    BY <1>2 DEF Next
  <2>2. ui'.kill_in <= KillGrace
    BY <2>1, KillTimer DEF Overlong
  <2>3. /\ scene' = scene /\ SameQueues /\ ui'.phase = ui.phase /\ ui'.todo = ui.todo
        /\ worker'.doing = worker.doing /\ worker'.hung = worker.hung
    BY <1>2, TickDoes DEF Base
  <2>4. (Owes' <=> Owes) /\ (Lost' <=> Lost)
    BY <2>3 DEF Owes, Lost, Blocked, Room, Alive, SameQueues
  <2>5. stuck' \in Nat /\ stuck' <= stuck + 1
    BY <1>2
  <2>6. CASE ~ Owes
    BY <1>2, <2>2, <2>4, <2>6, <2>5 DEF Overlong
  <2>7. CASE Lost
    BY <2>2, <2>4, <2>5, <2>7, <1>2 DEF Overlong
  <2>8. CASE Owes /\ ~ Lost
    <3>1. HungLate'
      BY <1>2, <2>5, <2>8, OverTick DEF Overlong
    <3> QED  BY <2>2, <2>4, <2>5, <2>8, <3>1 DEF Overlong
  <2> QED  BY <2>6, <2>7, <2>8
<1>3. CASE UNCHANGED vars
  <2>1. /\ logic' = logic /\ ui' = ui /\ worker' = worker /\ scene' = scene
        /\ inbox' = inbox /\ queue' = queue /\ toMain' = toMain /\ stuck' = stuck
    BY <1>3 DEF vars
  <2>2. Extra' = Extra /\ Late' = Late /\ (CompileMail' <=> CompileMail)
    BY <2>1 DEF Extra, Late, CompileMail
  <2>3. (Owes' <=> Owes) /\ (Lost' <=> Lost)
    BY <2>1 DEF Owes, Lost, Blocked, Room, Alive
  <2>4. HungLate' <=> HungLate
    BY <2>1, <2>2 DEF HungLate, Since
  <2> QED  BY <2>1, <2>3, <2>4 DEF Overlong
<1> QED  BY <1>1, <1>2, <1>3 DEF Next

(* It holds at the start.                                                  *)
LEMMA StartBase == Init => Base /\ stuck \in Nat /\ Overlong
<1> SUFFICES ASSUME Init PROVE Base /\ stuck \in Nat /\ Overlong
  OBVIOUS
<1>1. /\ scene \in Scenes /\ inbox = <<>> /\ queue = <<>> /\ toMain = <<>> /\ stuck = 0
      /\ worker = [doing |-> "none", age |-> 0, hung |-> FALSE]
      /\ ui = [phase |-> "reap", todo |-> 0, outstanding |-> FALSE,
               killing |-> FALSE, kill_in |-> 0, idle |-> 0, waited |-> 0]
      /\ faults = [hangs |-> 0, crashes |-> 0]
      /\ logic = Sup!Start(Sup!InitialLogic, 0)
  BY DEF Init, NoWorker
<1>2. ~ Alive /\ ~ Owes
  BY <1>1 DEF Alive, Owes
<1>3. logic = [Sup!InitialLogic EXCEPT !.started = TRUE, !.spawn_pending = TRUE, !.spawn_time = 0]
  BY <1>1 DEF Sup!Start, Sup!InitialLogic
<1>4. /\ logic \in Object /\ logic.started /\ ~ logic.restart_requested /\ ~ logic.spawned
      /\ ~ logic.gave_up /\ Fresh(logic)
  <2> DEFINE none == -1
             b == Sup!InitialLogic
  <2>1. 0 \in Past /\ none \in Slide /\ <<>> \in Seq(Int) /\ 0 \in Int
    BY Deadlines DEF Slide
  <2>2. b = [started |-> FALSE, spawned |-> FALSE, handshake |-> FALSE,
             killing |-> FALSE, restart_requested |-> FALSE, gave_up |-> FALSE,
             spawn_pending |-> TRUE, spawn_time |-> 0, spawned_at |-> 0,
             backoff_index |-> 0, crash_times |-> <<>>,
             ping_outstanding |-> FALSE, ping_sent |-> 0, last_ping_time |-> 0,
             frame_outstanding |-> FALSE, frame_sent |-> 0,
             compile_busy |-> FALSE, busy_slide |-> none, compile_since |-> 0,
             compiles_pending |-> 0, compile_wait_since |-> 0,
             poisoned_slide |-> none]
    BY DEF Sup!InitialLogic
  <2> HIDE DEF none, b
  <2>3. /\ b \in Object /\ ~ b.restart_requested /\ ~ b.spawned /\ ~ b.gave_up /\ Fresh(b)
    BY <2>1, <2>2 DEF Object, Fresh
  <2>4. logic = [b EXCEPT !.started = TRUE, !.spawn_pending = TRUE, !.spawn_time = 0]
    BY <1>3 DEF b
  <2> QED  BY <2>1, <2>3, <2>4 DEF Object, Fresh
<1>5. Shape
  BY <1>1, <1>4, Zero DEF Shape, Doings, UiType, WorkerType
<1>6. scene.pause \in Nat
  BY <1>1, SceneFacts
<1>7. Wired /\ Owed
  <2>1. Owed
    BY <1>2 DEF Owed
  <2>2. /\ ui.phase = "reap" /\ ~ ui.outstanding /\ ~ ui.killing /\ ui.idle = 0 /\ ui.waited = 0
        /\ worker.doing = "none" /\ ui.idle <= scene.pause
    BY <1>1, <1>6
  <2> QED  BY <1>1, <1>4, <2>1, <2>2 DEF Wired, Fresh
<1>8. Overlong /\ stuck \in Nat
  BY <1>1, <1>2, DeadlineAssumption DEF Overlong
<1> QED  BY <1>5, <1>7, <1>8 DEF Base

(* HangIsKilled: a worker that hangs and owes main an answer is dead       *)
(* within a frame timeout, a compile timeout, the grace period and three   *)
(* pauses of the UI, whatever the user executes meanwhile; but for a UI    *)
(* that waits for room in the socket of a worker that never listened. The  *)
(* hypothesis: a ping is due and its pong overdue before the other         *)
(* deadlines together have passed, as with the defaults of Config (0.5 s   *)
(* and 2 s against 1 s and 30 s).                                          *)
THEOREM HangIsKilledInTime ==
  ASSUME PingInterval + PongTimeout <= FrameTimeout + CompileTimeout + 1
  PROVE  Spec => []HangIsKilled
<1> DEFINE Inv == Base /\ stuck \in Nat /\ Overlong
<1>1. Init => Inv
  BY StartBase
<1>2. Inv /\ [Next]_vars => Inv'
  BY BaseStep, OverlongStep
<1>3. Inv => HangIsKilled
  BY InTimeAnyway
<1> QED  BY <1>1, <1>2, <1>3, PTL DEF Spec
-----------------------------------------------------------------------------
(* A worker that keeps within its times. *)

LEMMA JoinedItems ==
  ASSUME NEW M, NEW p \in Seq(M), NEW q \in Seq(M)
  PROVE  /\ Len(p) \in Nat /\ Len(q) \in Nat
         /\ DOMAIN p = 1..Len(p) /\ DOMAIN q = 1..Len(q) /\ DOMAIN (p \o q) = 1..(Len(p) + Len(q))
         /\ \A i \in 1..Len(p) : (p \o q)[i] = p[i]
         /\ \A i \in 1..Len(q) : (p \o q)[Len(p) + i] = q[i]
         /\ \A i \in 1..(Len(p) + Len(q)) :
              i > Len(p) => i - Len(p) \in 1..Len(q) /\ (p \o q)[i] = q[i - Len(p)]
OBVIOUS

LEMMA HasJoined ==
  ASSUME NEW M, NEW p \in Seq(M), NEW q \in Seq(M)
  PROVE  \A x : Has(p \o q, x) <=> Has(p, x) \/ Has(q, x)
<1> DEFINE r == p \o q
           m == Len(p)
           n == Len(q)
<1>1. /\ m \in Nat /\ n \in Nat
      /\ DOMAIN p = 1..m /\ DOMAIN q = 1..n /\ DOMAIN r = 1..(m + n)
      /\ \A i \in 1..m : r[i] = p[i]
      /\ \A i \in 1..n : r[m + i] = q[i]
      /\ \A i \in 1..(m + n) : i > m => i - m \in 1..n /\ r[i] = q[i - m]
  BY JoinedItems
<1> HIDE DEF r, m, n
<1>2. ASSUME NEW x PROVE Has(r, x) <=> Has(p, x) \/ Has(q, x)
  <2>1. Has(p, x) => Has(r, x)
    BY <1>1 DEF Has
  <2>2. ASSUME Has(q, x) PROVE Has(r, x)
    <3>1. PICK i \in 1..n : q[i] = x
      BY <1>1, <2>2 DEF Has
    <3>2. m + i \in 1..(m + n) /\ r[m + i] = x
      BY <1>1, <3>1
    <3> QED  BY <1>1, <3>2 DEF Has
  <2>3. ASSUME Has(r, x) PROVE Has(p, x) \/ Has(q, x)
    <3>1. PICK i \in 1..(m + n) : r[i] = x
      BY <1>1, <2>3 DEF Has
    <3>2. CASE i <= m
      BY <1>1, <3>1, <3>2 DEF Has
    <3>3. CASE i > m
      BY <1>1, <3>1, <3>3 DEF Has
    <3> QED  BY <1>1, <3>1, <3>2, <3>3
  <2> QED  BY <2>1, <2>2, <2>3
<1> QED  BY <1>2 DEF r

(* The first task of two queues in a row.                                  *)
LEMMA FirstJoined ==
  ASSUME NEW M, NEW p \in Seq(M), NEW q \in Seq(M)
  PROVE  FrameFirst(p \o q) <=> FrameFirst(p) \/ (~ Has(p, "source") /\ FrameFirst(q))
<1> DEFINE r == p \o q
           m == Len(p)
           n == Len(q)
<1>1. /\ m \in Nat /\ n \in Nat
      /\ DOMAIN p = 1..m /\ DOMAIN q = 1..n /\ DOMAIN r = 1..(m + n)
      /\ \A i \in 1..m : r[i] = p[i]
      /\ \A i \in 1..n : r[m + i] = q[i]
      /\ \A i \in 1..(m + n) : i > m => i - m \in 1..n /\ r[i] = q[i - m]
  BY JoinedItems
<1> HIDE DEF r, m, n
<1>2. ASSUME FrameFirst(p) PROVE FrameFirst(r)
  <2>1. PICK i \in 1..m : p[i] = "frame" /\ \A j \in 1..m : j < i => p[j] # "source"
    BY <1>1, <1>2 DEF FrameFirst
  <2>2. i \in 1..(m + n) /\ r[i] = "frame"
    BY <1>1, <2>1
  <2>3. \A j \in 1..(m + n) : j < i => r[j] # "source"
    BY <1>1, <2>1
  <2> QED  BY <1>1, <2>2, <2>3 DEF FrameFirst
<1>3. ASSUME ~ Has(p, "source"), FrameFirst(q) PROVE FrameFirst(r)
  <2>1. PICK i \in 1..n : q[i] = "frame" /\ \A j \in 1..n : j < i => q[j] # "source"
    BY <1>1, <1>3 DEF FrameFirst
  <2>2. m + i \in 1..(m + n) /\ r[m + i] = "frame"
    BY <1>1, <2>1
  <2>3. ASSUME NEW j \in 1..(m + n), j < m + i PROVE r[j] # "source"
    <3>1. CASE j <= m
      BY <1>1, <1>3, <3>1 DEF Has
    <3>2. CASE j > m
      <4>1. j - m \in 1..n /\ r[j] = q[j - m] /\ j - m < i
        BY <1>1, <2>3, <3>2
      <4> QED  BY <2>1, <4>1
    <3> QED  BY <1>1, <3>1, <3>2
  <2> QED  BY <1>1, <2>2, <2>3 DEF FrameFirst
<1>4. ASSUME FrameFirst(r), ~ FrameFirst(p) PROVE ~ Has(p, "source") /\ FrameFirst(q)
  <2>1. PICK i \in 1..(m + n) : r[i] = "frame" /\ \A j \in 1..(m + n) : j < i => r[j] # "source"
    BY <1>1, <1>4 DEF FrameFirst
  <2>2. i > m
    <3>1. SUFFICES ASSUME i <= m PROVE FALSE
      BY <1>1, <2>1
    <3>2. i \in 1..m /\ p[i] = "frame"
      BY <1>1, <2>1, <3>1
    <3>3. \A j \in 1..m : j < i => p[j] # "source"
      BY <1>1, <2>1
    <3> QED  BY <1>1, <1>4, <3>2, <3>3 DEF FrameFirst
  <2>3. ~ Has(p, "source")
    BY <1>1, <2>1, <2>2 DEF Has
  <2>4. i - m \in 1..n /\ q[i - m] = "frame"
    BY <1>1, <2>1, <2>2
  <2>5. ASSUME NEW j \in 1..n, j < i - m PROVE q[j] # "source"
    <3>1. m + j \in 1..(m + n) /\ m + j < i /\ r[m + j] = q[j]
      BY <1>1, <2>5
    <3> QED  BY <2>1, <3>1
  <2> QED  BY <1>1, <2>3, <2>4, <2>5 DEF FrameFirst
<1> QED  BY <1>2, <1>3, <1>4 DEF r

(* What waits for the work thread, by where it waits.                      *)
LEMMA LineFacts ==
  Shape => /\ Has(Line, "source") <=> (Has(queue, "source") \/ Has(inbox, "source"))
           /\ FrameFirst(Line)
                <=> (FrameFirst(queue) \/ (~ Has(queue, "source") /\ FrameFirst(inbox)))
<1> SUFFICES ASSUME Shape
             PROVE  /\ Has(Line, "source") <=> (Has(queue, "source") \/ Has(inbox, "source"))
                    /\ FrameFirst(Line)
                         <=> (FrameFirst(queue) \/ (~ Has(queue, "source") /\ FrameFirst(inbox)))
  OBVIOUS
<1>1. queue \in Seq(ToWorker) /\ inbox \in Seq(ToWorker)
  BY DEF Shape, Tasks, ToWorker
<1> QED  BY <1>1, HasJoined, FirstJoined DEF Line

LEMMA LineFactsNext ==
  ASSUME Shape'
  PROVE  /\ Has(Line', "source") <=> (Has(queue', "source") \/ Has(inbox', "source"))
         /\ FrameFirst(Line')
              <=> (FrameFirst(queue') \/ (~ Has(queue', "source") /\ FrameFirst(inbox')))
<1>1. (Shape => /\ Has(Line, "source") <=> (Has(queue, "source") \/ Has(inbox, "source"))
                /\ FrameFirst(Line)
                     <=> (FrameFirst(queue) \/ (~ Has(queue, "source") /\ FrameFirst(inbox))))'
  BY LineFacts, PTL
<1> QED  BY <1>1

(* What KeepsWithinTimes says of the scene at hand.                        *)
LEMMA Times ==
  ASSUME Shape, KeepsWithinTimes(scene)
  PROVE  /\ scene.boot \in Nat /\ scene.engine \in Nat /\ scene.compile \in Nat
         /\ scene.frame \in Nat /\ scene.first \in Nat /\ Before \in Nat
         /\ scene.boot <= PongTimeout /\ scene.compile <= CompileTimeout
         /\ scene.boot + scene.engine <= CompileTimeout
         /\ Before + scene.frame <= FrameTimeout /\ Before + scene.frame <= CompileTimeout
         /\ scene.first = 0 => Before = scene.boot + scene.engine
         /\ scene.first > 0 => Before = 0
         /\ PongTimeout \in Nat /\ CompileTimeout \in Nat /\ FrameTimeout \in Nat
<1>1. scene \in Scenes
  BY DEF Shape
<1>2. /\ scene.boot \in Nat /\ scene.engine \in Nat /\ scene.compile \in Nat
      /\ scene.frame \in Nat /\ scene.first \in Nat
  BY <1>1, SceneFacts
<1> QED  BY <1>2, Deadlines DEF KeepsWithinTimes, HeldUp, Before

LEMMA ElapsedIs ==
  /\ worker.doing = "boot" => Elapsed = worker.age
  /\ worker.doing = "engine" => Elapsed = scene.boot + worker.age
  /\ worker.doing = "frame" => Elapsed = Before + worker.age
  /\ worker.doing \notin {"boot", "engine", "frame"} => Elapsed = Before
BY DEF Elapsed

LEMMA ElapsedNext ==
  /\ worker'.doing = "boot" => Elapsed' = worker'.age
  /\ worker'.doing = "engine" => Elapsed' = scene'.boot + worker'.age
  /\ worker'.doing = "frame" => Elapsed' = Before' + worker'.age
  /\ worker'.doing \notin {"boot", "engine", "frame"} => Elapsed' = Before'
BY DEF Elapsed, Before

LEMMA AgeIs ==
  AgeOK <=> /\ worker.doing = "boot" => worker.age <= scene.boot
            /\ worker.doing = "engine" => worker.age <= scene.engine
            /\ worker.doing = "compile" => worker.age <= scene.compile
            /\ worker.doing = "frame" => worker.age <= scene.frame
BY DEF AgeOK, Takes

LEMMA AgeNext ==
  AgeOK' <=> /\ worker'.doing = "boot" => worker'.age <= scene'.boot
             /\ worker'.doing = "engine" => worker'.age <= scene'.engine
             /\ worker'.doing = "compile" => worker'.age <= scene'.compile
             /\ worker'.doing = "frame" => worker'.age <= scene'.frame
BY DEF AgeOK, Takes

(* Where the tasks are that main waits for.                                *)
LEMMA SourceIsThere ==
  ASSUME Base, Alive, Waits
  PROVE  worker.doing # "compile" /\ Has(Line, "source")
<1>1. worker.doing # "compile"
  BY AllHeard DEF Waits
<1>2. inbox \in Seq(ToWorker) /\ queue \in Seq(Tasks) /\ toMain \in Seq(ToMain)
  BY DEF Base, Shape
<1>3. /\ Has(toMain, "result") <=> Count(toMain, "result") > 0
      /\ Has(inbox, "source") <=> Count(inbox, "source") > 0
      /\ Has(queue, "source") <=> Count(queue, "source") > 0
  BY <1>2, HasCounts
<1>4. /\ Count(inbox, "source") + Count(queue, "source") + One(worker.doing = "compile")
           + Count(toMain, "result") = logic.compiles_pending
      /\ logic.compiles_pending > 0 /\ ~ Has(toMain, "result")
  BY DEF Base, Owed, Waits, CompileMail
<1>5. One(worker.doing = "compile") = 0
  BY <1>1 DEF One
<1>6. Has(inbox, "source") \/ Has(queue, "source")
  BY <1>3, <1>4, <1>5, CountsNat DEF Base
<1> QED  BY <1>1, <1>6, LineFacts DEF Base

LEMMA SourceIsOwed ==
  ASSUME Base, Alive, Has(Line, "source")
  PROVE  logic.compiles_pending > 0
<1>1. inbox \in Seq(ToWorker) /\ queue \in Seq(Tasks)
  BY DEF Base, Shape
<1>2. /\ Has(inbox, "source") <=> Count(inbox, "source") > 0
      /\ Has(queue, "source") <=> Count(queue, "source") > 0
  BY <1>1, HasCounts
<1>3. Count(inbox, "source") + Count(queue, "source") + One(worker.doing = "compile")
        + Count(toMain, "result") = logic.compiles_pending
  BY DEF Base, Owed
<1>4. One(worker.doing = "compile") \in Nat
  BY DEF One
<1>5. Has(inbox, "source") \/ Has(queue, "source")
  BY LineFacts DEF Base
<1> QED  BY <1>2, <1>3, <1>4, <1>5, CountsNat DEF Base

LEMMA FrameIsThere ==
  ASSUME Base, Alive, FrameWaits
  PROVE  worker.doing = "frame" \/ Has(queue, "frame") \/ Has(inbox, "frame")
<1>1. inbox \in Seq(ToWorker) /\ queue \in Seq(Tasks) /\ toMain \in Seq(ToMain)
  BY DEF Base, Shape
<1>2. /\ Has(toMain, "done") <=> Count(toMain, "done") > 0
      /\ Has(inbox, "frame") <=> Count(inbox, "frame") > 0
      /\ Has(queue, "frame") <=> Count(queue, "frame") > 0
  BY <1>1, HasCounts
<1>3. /\ Count(inbox, "frame") + Count(queue, "frame") + One(worker.doing = "frame")
           + Count(toMain, "done") = One(ui.outstanding)
      /\ ui.outstanding /\ ~ Has(toMain, "done")
  BY DEF Base, Owed, FrameWaits
<1>4. One(ui.outstanding) = 1
  BY <1>3 DEF One
<1>5. worker.doing # "frame" => One(worker.doing = "frame") = 0
  BY DEF One
<1>6. SUFFICES ASSUME worker.doing # "frame" PROVE Has(queue, "frame") \/ Has(inbox, "frame")
  OBVIOUS
<1>7. Count(inbox, "frame") + Count(queue, "frame") + 0 + 0 = 1
  <2>1. Count(toMain, "done") = 0
    BY <1>2, <1>3, CountsNat DEF Base
  <2>2. One(worker.doing = "frame") = 0
    BY <1>5, <1>6
  <2> QED  BY <1>3, <1>4, <2>1, <2>2
<1>8. Count(inbox, "frame") > 0 \/ Count(queue, "frame") > 0
  BY <1>7, CountsNat DEF Base
<1> QED  BY <1>2, <1>8

LEMMA OneFrame ==
  ASSUME Base, Alive, worker.doing = "frame"
  PROVE  ~ FrameFirst(Line)
<1>1. inbox \in Seq(ToWorker) /\ queue \in Seq(Tasks)
  BY DEF Base, Shape
<1>2. /\ Has(inbox, "frame") <=> Count(inbox, "frame") > 0
      /\ Has(queue, "frame") <=> Count(queue, "frame") > 0
  BY <1>1, HasCounts
<1>3. Count(inbox, "frame") + Count(queue, "frame") + One(worker.doing = "frame")
        + Count(toMain, "done") = One(ui.outstanding)
  BY DEF Base, Owed
<1>4. One(worker.doing = "frame") = 1 /\ One(ui.outstanding) \in {0, 1}
  BY DEF One
<1>5. ~ Has(inbox, "frame") /\ ~ Has(queue, "frame")
  BY <1>2, <1>3, <1>4, CountsNat DEF Base
<1>6. ~ FrameFirst(inbox) /\ ~ FrameFirst(queue)
  BY <1>5 DEF FrameFirst, Has
<1> QED  BY <1>6, LineFacts DEF Base

LEMMA NothingInLine ==
  ASSUME Base, queue = <<>>, inbox = <<>>
  PROVE  ~ Has(Line, "source") /\ ~ FrameFirst(Line) /\ ~ Has(queue, "frame") /\ ~ Has(inbox, "frame")
<1>1. ~ Has(queue, "source") /\ ~ Has(inbox, "source") /\ ~ Has(queue, "frame") /\ ~ Has(inbox, "frame")
  BY CountsNone
<1>2. ~ FrameFirst(queue) /\ ~ FrameFirst(inbox)
  BY FirstNone
<1> QED  BY <1>1, <1>2, LineFacts DEF Base

(* Where sources go first, no frame is waited for before the engine is     *)
(* built.                                                                  *)
LEMMA NotYet ==
  ASSUME Base, Alive, FirstSources, scene.first > 0, FrameWaits
  PROVE  worker.doing \notin {"boot", "engine"}
<1>1. SUFFICES ASSUME worker.doing \in {"boot", "engine"} PROVE FALSE
  OBVIOUS
<1>2. CASE Has(Line, "source")
  <2>1. logic.compiles_pending > 0
    BY <1>2, SourceIsOwed
  <2> QED  BY <2>1 DEF FrameWaits, Sup!Compiling
<1>3. CASE queue = <<>> /\ inbox = <<>>
  BY <1>1, <1>3, FrameIsThere, NothingInLine
<1> QED  BY <1>1, <1>2, <1>3 DEF FirstSources

LEMMA OneMoreInLine ==
  ASSUME Shape, Shape', NEW m \in ToWorker, queue' = queue, inbox' = Append(inbox, m)
  PROVE  /\ Has(Line', "source") <=> (Has(Line, "source") \/ m = "source")
         /\ FrameFirst(Line') <=> (FrameFirst(Line) \/ (m = "frame" /\ ~ Has(Line, "source")))
<1>1. inbox \in Seq(ToWorker)
  BY DEF Shape
<1>2. /\ Has(inbox', "source") <=> (Has(inbox, "source") \/ m = "source")
      /\ FrameFirst(inbox') <=> (FrameFirst(inbox) \/ (m = "frame" /\ ~ Has(inbox, "source")))
  BY <1>1, HasAppend, FirstAppend
<1> QED  BY <1>2, LineFacts, LineFactsNext

LEMMA Measured ==
  ASSUME Shape, KeepsWithinTimes(scene)
  PROVE  worker.age \in Nat /\ BootTime \in Nat /\ Elapsed \in Nat /\ ui.waited \in Nat
<1>1. worker.age \in Nat /\ scene.boot \in Nat /\ Before \in Nat /\ ui.waited \in Nat
  BY Times, Fields, Deadlines
<1>2. BootTime \in Nat
  BY <1>1 DEF BootTime
<1>3. Elapsed \in Nat
  BY <1>1, Times, ElapsedIs
<1> QED  BY <1>1, <1>2, <1>3

(* Nothing that the times are measured by has changed.                     *)
LEMMA InTimeKept ==
  ASSUME Shape, KeepsWithinTimes(scene), InTime, scene' = scene, SameWorker, SameQueues,
         SamePing(logic, logic'), SameFrame(logic, logic'), SameCompile(logic, logic'),
         ui'.outstanding = ui.outstanding, ui'.waited \in {0, ui.waited},
         ~ (ui.phase = "send" /\ ui.todo > 0)
  PROVE  InTime'
<1>1. BootTime' = BootTime /\ Before' = Before /\ Line' = Line /\ (CompileMail' <=> CompileMail)
  BY DEF BootTime, Before, Line, CompileMail, SameWorker, SameQueues
<1>2. Elapsed' = Elapsed
  BY <1>1, ElapsedIs, ElapsedNext DEF SameWorker
<1>3. (Waits' <=> Waits) /\ (FrameWaits' <=> FrameWaits)
  BY <1>1 DEF Waits, FrameWaits, SameCompile, SameQueues, Sup!Compiling
<1>4. AgeOK' /\ UiInTime'
  BY <1>1, AgeIs, AgeNext, Measured DEF InTime, UiInTime, SameWorker
<1>5. PingInTime' /\ CompileInTime'
  BY <1>1 DEF InTime, PingInTime, CompileInTime, SamePing, SameCompile, SameQueues, SameWorker
<1>6. QueueInTime' /\ FrameInTime'
  BY <1>1, <1>2, <1>3 DEF InTime, QueueInTime, FrameInTime, SameCompile, SameFrame, SameWorker
<1>7. FirstSources'
  BY <1>1, Measured DEF InTime, FirstSources, SameCompile, SameQueues, SameWorker
<1> QED  BY <1>4, <1>5, <1>6, <1>7 DEF InTime

LEMMA InTimeReap ==
  ASSUME Base, Reap, KeepsWithinTimes(scene), InTime, Alive'
  PROVE  InTime'
<1>1. worker.doing = "dead" => logic.spawned
  BY DEF Base, Wired
<1>2. worker.doing # "dead"
  BY <1>1, ReapDoes DEF Base, Alive
<1>3. /\ scene' = scene /\ logic' = logic /\ SameUi /\ SameQueues /\ ui.phase = "reap"
      /\ worker'.age = worker.age /\ worker'.hung = worker.hung
      /\ worker'.doing = IF ui.killing /\ Alive /\ ui.kill_in = 0 THEN "dead" ELSE worker.doing
  BY <1>1, <1>2, ReapDoes DEF Base
<1>4. SameWorker
  BY <1>3 DEF SameWorker, Alive
<1> QED  BY <1>3, <1>4, InTimeKept DEF Base, SameUi, SamePing, SameFrame, SameCompile

LEMMA InTimeKill ==
  ASSUME Base, Kill, KeepsWithinTimes(scene), InTime, Alive'
  PROVE  InTime'
<1>1. /\ scene' = scene /\ Drained /\ SameQueues
      /\ SamePing(logic, logic') /\ SameFrame(logic, logic') /\ SameCompile(logic, logic')
      /\ ui'.outstanding = ui.outstanding /\ ui'.waited = ui.waited
      /\ worker'.age = worker.age /\ worker'.hung = worker.hung
      /\ worker'.doing = IF scene.deaf \/ ~ Alive THEN worker.doing ELSE "dead"
  BY KillDoes DEF Base
<1>2. SameWorker /\ ui.phase # "send"
  BY <1>1 DEF SameWorker, Alive, Drained
<1> QED  BY <1>1, <1>2, InTimeKept DEF Base

LEMMA InTimeLeaveAlone ==
  ASSUME Base, LeaveAlone, KeepsWithinTimes(scene), InTime
  PROVE  InTime'
<1>1. /\ scene' = scene /\ logic' = logic /\ worker' = worker /\ Drained /\ SameQueues
      /\ ui'.outstanding = ui.outstanding /\ ui'.waited = ui.waited
  BY LeaveAloneDoes DEF Base
<1> QED  BY <1>1, InTimeKept DEF Base, SameWorker, Drained, SamePing, SameFrame, SameCompile

LEMMA InTimeEndFrame ==
  ASSUME Base, EndFrame, KeepsWithinTimes(scene), InTime
  PROVE  InTime'
<1>1. /\ scene' = scene /\ logic' = logic /\ worker' = worker /\ SameQueues /\ ui.todo = 0
      /\ ui'.outstanding = ui.outstanding /\ ui'.waited \in {0, ui.waited}
  BY EndFrameDoes DEF Base
<1> QED  BY <1>1, InTimeKept DEF Base, SameWorker, SamePing, SameFrame, SameCompile

LEMMA InTimeSpawn ==
  ASSUME Base, Base', Spawn, KeepsWithinTimes(scene), Alive'
  PROVE  InTime'
<1>1. ~ logic.restart_requested /\ (~ logic.spawned => inbox = <<>> /\ queue = <<>> /\ toMain = <<>>)
  BY DEF Base, Wired
<1>2. /\ scene' = scene /\ ui'.waited = ui.waited /\ Drained /\ SameQueues /\ ~ logic.spawned
      /\ Fresh(logic') /\ ui'.phase = "send"
  BY <1>1, SpawnDoes DEF Base
<1>3. /\ ui'.todo = scene.first
      /\ worker'.doing = "boot" /\ worker'.age = 0 /\ ~ worker'.hung
  <2>1. worker' # worker
    BY <1>2 DEF Base, Wired, Alive
  <2> QED  BY <1>1, <2>1, SpawnDoes DEF Base
<1>4. ui.waited = 0
  BY <1>2 DEF Base, Wired, Drained
<1>5. ~ ui'.outstanding
  BY <1>2 DEF Base, Wired, Fresh
<1>6. BootTime' = 0 /\ scene.boot \in Nat
  BY <1>3, Times DEF BootTime, Base
<1>7. AgeOK' /\ UiInTime'
  BY <1>2, <1>3, <1>4, <1>6, AgeNext DEF UiInTime
<1>8. PingInTime' /\ CompileInTime'
  BY <1>2 DEF PingInTime, CompileInTime, Fresh
<1>9. QueueInTime' /\ FrameInTime'
  BY <1>2, <1>5 DEF QueueInTime, FrameInTime, Fresh, Waits, FrameWaits
<1>10. FirstSources'
  BY <1>1, <1>2, <1>3, <1>4 DEF FirstSources, SameQueues
<1> QED  BY <1>7, <1>8, <1>9, <1>10 DEF InTime

LEMMA InTimePing ==
  ASSUME Base, Base', Ping, KeepsWithinTimes(scene), InTime, Alive
  PROVE  InTime'
<1>1. /\ scene' = scene /\ worker' = worker /\ queue' = queue /\ toMain' = toMain
      /\ ui.phase = "ping" /\ ui'.waited \in {0, ui.waited} /\ ui'.outstanding = ui.outstanding
      /\ inbox' = Append(inbox, "ping")
      /\ SameFrame(logic, logic') /\ SameCompile(logic, logic')
      /\ logic'.ping_sent = - ui.waited
  BY PingStepDoes DEF Base
<1>2. BootTime' = BootTime /\ Before' = Before /\ (CompileMail' <=> CompileMail)
  BY <1>1 DEF BootTime, Before, CompileMail
<1>3. Elapsed' = Elapsed
  BY <1>1, <1>2, ElapsedIs, ElapsedNext
<1>4. (Waits' <=> Waits) /\ (FrameWaits' <=> FrameWaits)
  BY <1>1, <1>2 DEF Waits, FrameWaits, SameCompile, Sup!Compiling
<1>5. "ping" \in ToWorker /\ inbox \in Seq(ToWorker)
  BY DEF ToWorker, Base, Shape
<1>6. /\ Has(Line', "source") <=> Has(Line, "source")
      /\ FrameFirst(Line') <=> FrameFirst(Line)
      /\ Has(inbox', "ping")
  BY <1>1, <1>5, OneMoreInLine, HasAppend DEF Base
<1>7. AgeOK' /\ UiInTime'
  BY <1>1, <1>2, AgeIs, AgeNext, Measured DEF InTime, UiInTime, Base
<1>8. PingInTime'
  <2>1. Age(logic'.ping_sent) = ui.waited
    BY <1>1, Measured DEF Age, Base
  <2> QED  BY <1>2, <1>6, <2>1 DEF InTime, UiInTime, PingInTime
<1>9. CompileInTime'
  BY <1>1, <1>2 DEF InTime, CompileInTime, SameCompile
<1>10. QueueInTime' /\ FrameInTime'
  BY <1>1, <1>2, <1>3, <1>4, <1>6 DEF InTime, QueueInTime, FrameInTime, SameCompile, SameFrame
<1>11. FirstSources'
  BY <1>1, <1>6, Measured DEF InTime, FirstSources, SameCompile, Base
<1> QED  BY <1>7, <1>8, <1>9, <1>10, <1>11 DEF InTime

LEMMA InTimeBegin ==
  ASSUME Base, Base', Begin, KeepsWithinTimes(scene), KeepsWithinTimes(scene'), InTime, Alive
  PROVE  InTime'
<1>1. /\ scene' = scene /\ worker' = worker /\ queue' = queue /\ toMain' = toMain
      /\ ui.phase = "begin" /\ ui'.waited = 0
      /\ inbox' = Append(inbox, "frame")
      /\ SamePing(logic, logic') /\ SameCompile(logic, logic')
      /\ logic'.frame_sent = 0
  BY BeginStepDoes DEF Base
<1>2. BootTime' = BootTime /\ Before' = Before /\ (CompileMail' <=> CompileMail)
  BY <1>1 DEF BootTime, Before, CompileMail
<1>3. Elapsed' = Elapsed
  BY <1>1, <1>2, ElapsedIs, ElapsedNext
<1>4. Waits' <=> Waits
  BY <1>1, <1>2 DEF Waits, SameCompile
<1>5. "frame" \in ToWorker /\ inbox \in Seq(ToWorker)
  BY DEF ToWorker, Base, Shape
<1>6. /\ Has(Line', "source") <=> Has(Line, "source")
      /\ FrameFirst(Line') <=> (FrameFirst(Line) \/ ~ Has(Line, "source"))
      /\ Has(inbox', "ping") <=> Has(inbox, "ping")
  BY <1>1, <1>5, OneMoreInLine, HasAppend DEF Base
<1>7. AgeOK' /\ UiInTime'
  BY <1>1, <1>2, AgeIs, AgeNext, Measured DEF InTime, UiInTime, Base
<1>8. PingInTime' /\ CompileInTime'
  BY <1>1, <1>2, <1>6 DEF InTime, PingInTime, CompileInTime, SamePing, SameCompile
<1>9. QueueInTime'
  <2>1. Waits => Has(Line, "source")
    BY SourceIsThere
  <2> QED  BY <1>1, <1>2, <1>3, <1>4, <1>6, <2>1 DEF InTime, QueueInTime, SameCompile
<1>10. FrameInTime'
  BY <1>1, <1>3, Measured DEF FrameInTime, Age, Base
<1>11. FirstSources'
  BY <1>1, <1>6 DEF InTime, FirstSources
<1> QED  BY <1>7, <1>8, <1>9, <1>10, <1>11 DEF InTime

LEMMA InTimeSubmit ==
  ASSUME Base, Base', Submit, KeepsWithinTimes(scene), InTime, Alive
  PROVE  InTime'
<1>1. /\ scene' = scene /\ worker' = worker /\ queue' = queue /\ toMain' = toMain
      /\ ui.phase = "send" /\ ui'.waited = 0 /\ ui'.outstanding = ui.outstanding
      /\ inbox' = Append(inbox, "source")
      /\ SameFrame(logic, logic') /\ SamePing(logic, logic')
      /\ logic'.compile_busy = logic.compile_busy
      /\ logic'.compile_since = logic.compile_since
      /\ logic'.compiles_pending = logic.compiles_pending + 1
      /\ logic'.compile_wait_since =
           IF logic.compiles_pending = 0 THEN - ui.waited ELSE logic.compile_wait_since
  BY SubmitDoes DEF Base
<1>2. BootTime' = BootTime /\ Before' = Before /\ (CompileMail' <=> CompileMail)
  BY <1>1 DEF BootTime, Before, CompileMail
<1>3. Elapsed' = Elapsed
  BY <1>1, <1>2, ElapsedIs, ElapsedNext
<1>4. logic.compiles_pending \in Nat
  BY Fields DEF Base
<1>5. "source" \in ToWorker /\ inbox \in Seq(ToWorker)
  BY DEF ToWorker, Base, Shape
<1>6. /\ Has(Line', "source")
      /\ FrameFirst(Line') <=> FrameFirst(Line)
      /\ Has(inbox', "ping") <=> Has(inbox, "ping")
  BY <1>1, <1>5, OneMoreInLine, HasAppend DEF Base
<1>7. AgeOK' /\ UiInTime'
  BY <1>1, <1>2, AgeIs, AgeNext, Measured DEF InTime, UiInTime, Base
<1>8. PingInTime' /\ CompileInTime'
  BY <1>1, <1>2, <1>6 DEF InTime, PingInTime, CompileInTime, SamePing
<1>9. QueueInTime'
  <2>1. CASE logic.compiles_pending = 0
    <3>1. Age(logic'.compile_wait_since) = ui.waited
      BY <1>1, <2>1, Measured DEF Age, Base
    <3>2. ui.waited <= BootTime /\ BootTime <= scene.boot
      BY AgeIs, Times DEF InTime, UiInTime, BootTime, Base
    <3>3. ui.waited <= Before
      <4>1. CASE scene.first > 0
        <5>1. ~ (ui.waited > 0)
          BY <2>1, <4>1 DEF InTime, FirstSources
        <5> QED  BY <5>1, Times, Measured DEF Base
      <4>2. CASE scene.first = 0
        BY <3>2, <4>2, Times, Measured DEF Base
      <4> QED  BY <4>1, <4>2, Times DEF Base
    <3>4. ui.waited <= CompileTimeout
      BY <3>2, Times, Measured DEF Base
    <3>5. worker.doing \in {"boot", "engine", "frame"} => ui.waited <= Elapsed
      <4>1. CASE worker.doing = "boot"
        BY <3>2, <4>1, ElapsedIs DEF BootTime
      <4>2. CASE worker.doing = "engine"
        BY <3>2, <4>2, ElapsedIs, Times, Measured DEF Base
      <4>3. CASE worker.doing = "frame"
        BY <3>3, <4>3, ElapsedIs, Times, Measured DEF Base
      <4> QED  BY <4>1, <4>2, <4>3
    <3> QED  BY <1>1, <1>2, <1>3, <3>1, <3>3, <3>4, <3>5 DEF QueueInTime
  <2>2. CASE logic.compiles_pending # 0
    <3>1. Waits' => Waits
      BY <1>1, <1>2, <1>4, <2>2 DEF Waits
    <3> QED  BY <1>1, <1>2, <1>3, <1>6, <2>2, <3>1 DEF InTime, QueueInTime
  <2> QED  BY <2>1, <2>2
<1>10. FrameInTime'
  BY <1>1, <1>4 DEF FrameInTime, FrameWaits, Sup!Compiling
<1>11. FirstSources'
  <2>1. queue = <<>> /\ inbox = <<>> => ~ FrameFirst(Line)
    BY NothingInLine
  <2> QED  BY <1>1, <1>6, <2>1 DEF InTime, FirstSources
<1> QED  BY <1>7, <1>8, <1>9, <1>10, <1>11 DEF InTime

LEMMA InTimeDrain ==
  ASSUME Base, Base', Drain, KeepsWithinTimes(scene), InTime
  PROVE  InTime'
<1> DEFINE m == Head(toMain)
<1>1. logic.compile_busy => logic.busy_slide = 0
  BY DEF Base, Wired
<1>2. /\ scene' = scene /\ ui.phase = "drain" /\ toMain # <<>> /\ toMain' = Tail(toMain)
      /\ inbox' = inbox /\ queue' = queue /\ worker' = worker
      /\ ui'.waited = ui.waited
      /\ ui'.outstanding <=> (ui.outstanding /\ m # "done")
      /\ logic'.ping_sent = logic.ping_sent
      /\ logic'.ping_outstanding <=> (logic.ping_outstanding /\ m # "pong")
      /\ logic'.frame_outstanding <=> (logic.frame_outstanding /\ m # "done")
      /\ logic'.frame_sent = IF m = "result" /\ logic.frame_outstanding THEN 0 ELSE logic.frame_sent
      /\ logic'.compile_busy <=> (m = "busy" \/ (m # "result" /\ logic.compile_busy))
      /\ logic'.compile_since = IF m = "busy" THEN 0 ELSE logic.compile_since
      /\ logic'.compiles_pending = IF m = "result" /\ logic.compiles_pending > 0
                                   THEN logic.compiles_pending - 1 ELSE logic.compiles_pending
      /\ logic'.compile_wait_since = IF m \in {"busy", "result"} THEN 0 ELSE logic.compile_wait_since
  BY <1>1, DrainDoes DEF Base
<1>3. \A x : Has(toMain, x) <=> Has(toMain', x) \/ m = x
  BY <1>2, HasTail DEF Base, Shape
<1> HIDE DEF m
<1>4. /\ BootTime' = BootTime /\ Before' = Before /\ Line' = Line
      /\ CompileMail <=> (CompileMail' \/ m \in {"busy", "result"})
  BY <1>2, <1>3 DEF BootTime, Before, Line, CompileMail
<1>5. Elapsed' = Elapsed
  BY <1>2, <1>4, ElapsedIs, ElapsedNext
<1>6. /\ worker.age \in Nat /\ Elapsed \in Nat /\ Before \in Nat /\ CompileTimeout \in Nat /\ Age(0) = 0
  <2>1. worker.age \in Nat /\ Elapsed \in Nat
    BY Measured DEF Base
  <2>2. Before \in Nat /\ CompileTimeout \in Nat
    BY Times DEF Base
  <2>3. Age(0) \in Nat /\ Age(0) <= 0
    BY DEF Age
  <2> QED  BY <2>1, <2>2, <2>3
<1>7. AgeOK' /\ UiInTime'
  BY <1>2, <1>4, AgeIs, AgeNext DEF InTime, UiInTime
<1>8. PingInTime'
  BY <1>2, <1>3, <1>4 DEF InTime, PingInTime
<1>9. CompileInTime'
  BY <1>2, <1>4, <1>6 DEF InTime, CompileInTime
<1>10. QueueInTime'
  <2>1. CASE m = "result"
    BY <1>2, <1>4, <1>5, <1>6, <2>1 DEF QueueInTime
  <2>2. CASE m = "busy"
    BY <1>2, <2>2 DEF QueueInTime, Waits
  <2>3. CASE m \notin {"busy", "result"}
    <3>1. Waits' => Waits
      BY <1>2, <1>4, <2>3 DEF Waits
    <3> QED  BY <1>2, <1>4, <1>5, <2>3, <3>1 DEF InTime, QueueInTime
  <2> QED  BY <2>1, <2>2, <2>3
<1>11. FrameInTime'
  <2>1. CASE m = "result"
    <3>1. FrameWaits' => logic'.frame_sent = 0
      BY <1>2, <2>1 DEF FrameWaits, Base, Wired
    <3> QED  BY <1>5, <1>6, <3>1 DEF FrameInTime
  <2>2. CASE m = "busy"
    BY <1>2, <2>2 DEF FrameInTime, FrameWaits, Sup!Compiling
  <2>3. CASE m \notin {"busy", "result"}
    <3>1. FrameWaits' => FrameWaits
      BY <1>2, <1>3, <1>4, <2>3 DEF FrameWaits, Sup!Compiling
    <3> QED  BY <1>2, <1>5, <2>3, <3>1 DEF InTime, FrameInTime
  <2> QED  BY <2>1, <2>2, <2>3
<1>12. FirstSources'
  <2>1. ui.waited = 0
    BY <1>2 DEF Base, Wired
  <2> QED  BY <1>2, <1>4, <2>1 DEF InTime, FirstSources
<1> QED  BY <1>7, <1>8, <1>9, <1>10, <1>11, <1>12 DEF InTime

LEMMA InTimeIORecv ==
  ASSUME Base, Base', IORecv, InTime
  PROVE  InTime'
<1> DEFINE m == Head(inbox)
<1>1. /\ SameLogicUi /\ worker' = worker /\ inbox # <<>> /\ inbox' = Tail(inbox) /\ m \in ToWorker
      /\ m = "ping" => queue' = queue /\ toMain' = Append(toMain, "pong")
      /\ m # "ping" => m \in Tasks /\ queue' = Append(queue, m) /\ toMain' = toMain
  BY IORecvDoes DEF Base
<1>2. inbox \in Seq(ToWorker) /\ queue \in Seq(Tasks) /\ toMain \in Seq(ToMain) /\ "pong" \in ToMain
  BY DEF Base, Shape, ToMain
<1>3. /\ \A x : Has(inbox, x) <=> Has(inbox', x) \/ m = x
      /\ FrameFirst(inbox) <=> m = "frame" \/ (m # "source" /\ FrameFirst(inbox'))
  BY <1>1, <1>2, HasTail, FirstTail
<1>4. m # "ping" => /\ \A x : Has(queue', x) <=> Has(queue, x) \/ m = x
                    /\ FrameFirst(queue') <=> FrameFirst(queue) \/ (m = "frame" /\ ~ Has(queue, "source"))
  <2>1. SUFFICES ASSUME m # "ping"
                 PROVE  /\ \A x : Has(queue', x) <=> Has(queue, x) \/ m = x
                        /\ FrameFirst(queue')
                             <=> FrameFirst(queue) \/ (m = "frame" /\ ~ Has(queue, "source"))
    OBVIOUS
  <2>2. m \in Tasks /\ queue' = Append(queue, m) /\ queue \in Seq(Tasks)
    BY <1>1, <1>2, <2>1
  <2> HIDE DEF m
  <2> QED  BY <2>2, HasAppend, FirstAppend
<1>5. /\ m = "ping" => Has(toMain', "pong")
      /\ \A x : x # "pong" => (Has(toMain', x) <=> Has(toMain, x))
      /\ Has(toMain, "pong") => Has(toMain', "pong")
  <2>1. CASE m = "ping"
    <3>1. \A x : Has(toMain', x) <=> Has(toMain, x) \/ "pong" = x
      <4>1. toMain' = Append(toMain, "pong") /\ toMain \in Seq(ToMain) /\ "pong" \in ToMain
        BY <1>1, <1>2, <2>1
      <4> HIDE DEF m
      <4> QED  BY <4>1, HasAppend
    <3> QED  BY <2>1, <3>1
  <2>2. CASE m # "ping"
    BY <1>1, <2>2
  <2> QED  BY <2>1, <2>2
<1> HIDE DEF m
<1>6. /\ Has(Line', "source") <=> Has(Line, "source")
      /\ FrameFirst(Line') <=> FrameFirst(Line)
  <2>1. CASE m = "ping"
    BY <1>1, <1>3, <2>1, LineFacts, LineFactsNext DEF Base
  <2>2. CASE m = "source"
    BY <1>1, <1>3, <1>4, <2>2, LineFacts, LineFactsNext DEF Base
  <2>3. CASE m = "frame"
    BY <1>1, <1>3, <1>4, <2>3, LineFacts, LineFactsNext DEF Base
  <2> QED  BY <1>1, <2>1, <2>2, <2>3 DEF ToWorker
<1>7. BootTime' = BootTime /\ Before' = Before /\ (CompileMail' <=> CompileMail)
  BY <1>1, <1>5 DEF BootTime, Before, CompileMail, SameLogicUi
<1>8. Elapsed' = Elapsed
  BY <1>1, <1>7, ElapsedIs, ElapsedNext DEF SameLogicUi
<1>9. (Waits' <=> Waits) /\ (FrameWaits' <=> FrameWaits)
  BY <1>1, <1>5, <1>7 DEF Waits, FrameWaits, SameLogicUi, Sup!Compiling
<1>10. AgeOK' /\ UiInTime'
  BY <1>1, <1>7, AgeIs, AgeNext DEF InTime, UiInTime, SameLogicUi
<1>11. PingInTime'
  BY <1>1, <1>3, <1>5, <1>7 DEF InTime, PingInTime, SameLogicUi
<1>12. CompileInTime' /\ QueueInTime' /\ FrameInTime'
  BY <1>1, <1>6, <1>7, <1>8, <1>9 DEF InTime, CompileInTime, QueueInTime, FrameInTime, SameLogicUi
<1>13. FirstSources'
  BY <1>1, <1>6 DEF InTime, FirstSources, SameLogicUi
<1> QED  BY <1>10, <1>11, <1>12, <1>13 DEF InTime

LEMMA InTimeBoot ==
  ASSUME Base, Boot, KeepsWithinTimes(scene), InTime, Alive, Alive'
  PROVE  InTime'
<1>1. /\ SameLogicUi /\ inbox' = inbox /\ queue' = queue
      /\ worker.doing = "boot" /\ toMain' = Append(toMain, "ack")
      /\ worker'.doing = "engine" /\ worker'.age = 0
  BY BootDoes DEF Base, Alive
<1>2. \A x : x # "ack" => (Has(toMain', x) <=> Has(toMain, x))
  <2>1. toMain' = Append(toMain, "ack") /\ toMain \in Seq(ToMain) /\ "ack" \in ToMain
    BY <1>1 DEF Base, Shape, ToMain
  <2>2. \A x : Has(toMain', x) <=> Has(toMain, x) \/ "ack" = x
    BY <2>1, HasAppend
  <2> QED  BY <2>2
<1>3. /\ Before' = Before /\ Line' = Line /\ (CompileMail' <=> CompileMail)
      /\ scene' = scene /\ (Waits' <=> Waits) /\ (FrameWaits' <=> FrameWaits)
  BY <1>1, <1>2 DEF Before, Line, CompileMail, Waits, FrameWaits, SameLogicUi, Sup!Compiling
<1>4. /\ worker.age <= scene.boot /\ worker.age \in Nat /\ scene.boot \in Nat /\ scene.engine \in Nat
      /\ BootTime = worker.age /\ BootTime' = scene.boot
  BY <1>1, <1>3, AgeIs, Times, Measured DEF InTime, BootTime, Base
<1>5. Elapsed = worker.age /\ Elapsed' = scene.boot
  BY <1>1, <1>3, <1>4, ElapsedIs, ElapsedNext
<1>6. AgeOK'
  BY <1>1, <1>3, <1>4, AgeNext
<1>7. UiInTime'
  BY <1>1, <1>4, Measured DEF InTime, UiInTime, SameLogicUi, Base
<1>8. PingInTime'
  <2>1. Age(logic.ping_sent) \in Int
    BY Stamps DEF Base
  <2> QED  BY <1>1, <1>2, <1>4, <2>1 DEF InTime, PingInTime, SameLogicUi
<1>9. CompileInTime'
  <2>1. ~ CompileMail => ~ logic.compile_busy
    BY <1>1, AllHeard
  <2> QED  BY <1>1, <1>3, <2>1 DEF CompileInTime, SameLogicUi
<1>10. QueueInTime'
  <2>1. Age(logic.compile_wait_since) \in Int
    BY Stamps DEF Base
  <2> QED  BY <1>1, <1>3, <1>4, <1>5, <2>1 DEF InTime, QueueInTime, SameLogicUi
<1>11. FrameInTime'
  <2>1. Age(logic.frame_sent) \in Int
    BY Stamps DEF Base
  <2> QED  BY <1>1, <1>3, <1>4, <1>5, <2>1 DEF InTime, FrameInTime, SameLogicUi
<1>12. FirstSources'
  BY <1>1, <1>3 DEF InTime, FirstSources, SameLogicUi
<1> QED  BY <1>6, <1>7, <1>8, <1>9, <1>10, <1>11, <1>12 DEF InTime

LEMMA InTimeEngineBuilt ==
  ASSUME Base, EngineBuilt, KeepsWithinTimes(scene), InTime, Alive
  PROVE  InTime'
<1>1. /\ SameLogicUi /\ SameQueues /\ worker.doing = "engine"
      /\ worker'.doing = "idle" /\ worker'.age = 0
  BY EngineBuiltDoes DEF Base
<1>2. /\ Before' = Before /\ Line' = Line /\ (CompileMail' <=> CompileMail)
      /\ scene' = scene /\ (Waits' <=> Waits) /\ (FrameWaits' <=> FrameWaits) /\ BootTime' = BootTime
  BY <1>1 DEF Before, Line, CompileMail, Waits, FrameWaits, BootTime, SameLogicUi, SameQueues, Sup!Compiling
<1>3. worker.age <= scene.engine
  BY <1>1, AgeIs DEF InTime
<1>4. Elapsed = scene.boot + worker.age /\ Elapsed' = Before
  BY <1>1, <1>2, ElapsedIs, ElapsedNext
<1>5. scene.first = 0 => Elapsed <= Before
  BY <1>3, <1>4, Times, Measured DEF Base
<1>6. AgeOK' /\ UiInTime' /\ PingInTime'
  BY <1>1, <1>2, AgeNext DEF InTime, UiInTime, PingInTime, SameLogicUi, SameQueues
<1>7. CompileInTime'
  <2>1. ~ CompileMail => ~ logic.compile_busy
    BY <1>1, AllHeard
  <2> QED  BY <1>1, <1>2, <2>1 DEF CompileInTime, SameLogicUi
<1>8. QueueInTime'
  <2>1. Age(logic.compile_wait_since) \in Int /\ Elapsed \in Nat /\ Before \in Nat /\ scene.first \in Nat
    BY Stamps, Measured, Times DEF Base
  <2>2. scene.first > 0 => ~ FrameFirst(Line)
    <3>1. queue = <<>> /\ inbox = <<>> => ~ FrameFirst(Line)
      BY NothingInLine
    <3> QED  BY <1>1, <3>1 DEF InTime, FirstSources
  <2> QED  BY <1>1, <1>2, <1>5, <2>1, <2>2 DEF InTime, QueueInTime, SameLogicUi
<1>9. FrameInTime'
  <2>1. Age(logic.frame_sent) \in Int /\ Elapsed \in Nat /\ Before \in Nat /\ scene.first \in Nat
    BY Stamps, Measured, Times DEF Base
  <2>2. scene.first > 0 => ~ FrameWaits
    BY <1>1, NotYet DEF InTime
  <2> QED  BY <1>1, <1>2, <1>4, <1>5, <2>1, <2>2 DEF InTime, FrameInTime, SameLogicUi
<1>10. FirstSources'
  BY <1>1, <1>2 DEF InTime, FirstSources, SameLogicUi
<1> QED  BY <1>6, <1>7, <1>8, <1>9, <1>10 DEF InTime

LEMMA InTimeTake ==
  ASSUME Base, Base', Take, KeepsWithinTimes(scene), InTime, Alive
  PROVE  InTime'
<1>1. /\ SameLogicUi /\ inbox' = inbox /\ worker.doing = "idle" /\ queue # <<>>
      /\ worker'.age = 0
      /\ \/ /\ Head(queue) = "source" /\ worker'.doing = "compile"
            /\ toMain' = Append(toMain, "busy")
         \/ Head(queue) = "frame" /\ worker'.doing = "frame" /\ toMain' = toMain
  BY TakeDoes DEF Base
<1>2. /\ Has(toMain, "pong") => Has(toMain', "pong")
      /\ worker'.doing = "compile" => CompileMail'
  <2>1. CASE toMain' = Append(toMain, "busy")
    <3>1. toMain \in Seq(ToMain) /\ "busy" \in ToMain
      BY DEF Base, Shape, ToMain
    <3>2. \A x : Has(toMain', x) <=> Has(toMain, x) \/ "busy" = x
      BY <2>1, <3>1, HasAppend
    <3> QED  BY <3>2 DEF CompileMail
  <2>2. CASE toMain' = toMain /\ worker'.doing = "frame"
    BY <2>2
  <2> QED  BY <1>1, <2>1, <2>2
<1>3. /\ Before' = Before /\ scene' = scene /\ BootTime' = BootTime
  BY <1>1 DEF Before, BootTime, SameLogicUi
<1>4. Elapsed = Before
  BY <1>1, ElapsedIs
<1>5. AgeOK'
  BY <1>1, <1>3, AgeNext, Times DEF Base
<1>6. UiInTime' /\ PingInTime'
  BY <1>1, <1>2, <1>3 DEF InTime, UiInTime, PingInTime, SameLogicUi
<1>7. FirstSources'
  BY <1>1, <1>3 DEF InTime, FirstSources, SameLogicUi
<1>8. CASE worker'.doing = "compile"
  BY <1>2, <1>5, <1>6, <1>7, <1>8
     DEF InTime, CompileInTime, QueueInTime, FrameInTime, Waits, FrameWaits
<1>9. CASE Head(queue) = "frame" /\ worker'.doing = "frame" /\ toMain' = toMain
  <2>1. (CompileMail' <=> CompileMail) /\ (Waits' <=> Waits) /\ (FrameWaits' <=> FrameWaits)
    BY <1>1, <1>9 DEF CompileMail, Waits, FrameWaits, SameLogicUi, Sup!Compiling
  <2>2. FrameFirst(Line)
    <3>1. queue \in Seq(Tasks)
      BY DEF Base, Shape
    <3>2. FrameFirst(queue)
      BY <1>1, <1>9, <3>1, FirstTail
    <3> QED  BY <3>2, LineFacts DEF Base
  <2>3. Elapsed' = Before
    BY <1>1, <1>3, <1>9, ElapsedNext, Times DEF Base
  <2>4. CompileInTime'
    <3>1. ~ CompileMail => ~ logic.compile_busy
      BY <1>1, AllHeard
    <3> QED  BY <1>1, <2>1, <3>1 DEF CompileInTime, SameLogicUi
  <2>5. QueueInTime'
    BY <1>1, <1>3, <1>9, <2>1, <2>2, <2>3 DEF InTime, QueueInTime, SameLogicUi
  <2>6. FrameInTime'
    BY <1>1, <1>4, <2>1, <2>3 DEF InTime, FrameInTime, SameLogicUi
  <2> QED  BY <1>5, <1>6, <1>7, <2>4, <2>5, <2>6 DEF InTime
<1> QED  BY <1>1, <1>8, <1>9

LEMMA InTimeFinish ==
  ASSUME Base, Base', Finish, KeepsWithinTimes(scene), InTime, Alive
  PROVE  InTime'
<1>1. /\ SameLogicUi /\ inbox' = inbox /\ queue' = queue
      /\ worker'.doing = "idle" /\ worker'.age = 0
      /\ \/ worker.doing = "compile" /\ toMain' = Append(toMain, "result")
         \/ worker.doing = "frame" /\ toMain' = Append(toMain, "done")
  BY FinishDoes DEF Base
<1>2. toMain \in Seq(ToMain) /\ "result" \in ToMain /\ "done" \in ToMain
  BY DEF Base, Shape, ToMain
<1>3. /\ Before' = Before /\ Line' = Line /\ scene' = scene /\ BootTime' = BootTime
  BY <1>1 DEF Before, BootTime, Line, SameLogicUi
<1>4. AgeOK'
  BY <1>1, AgeNext
<1>5. FirstSources'
  BY <1>1, <1>3 DEF InTime, FirstSources, SameLogicUi
<1>6. CASE worker.doing = "compile"
  <2>1. \A x : Has(toMain', x) <=> Has(toMain, x) \/ "result" = x
    <3>1. toMain' = Append(toMain, "result")
      BY <1>1, <1>6
    <3> QED  BY <1>2, <3>1, HasAppend
  <2>2. CompileMail'
    BY <2>1 DEF CompileMail
  <2>3. UiInTime' /\ PingInTime'
    BY <1>1, <1>3, <2>1 DEF InTime, UiInTime, PingInTime, SameLogicUi
  <2> QED  BY <1>4, <1>5, <2>2, <2>3
           DEF InTime, CompileInTime, QueueInTime, FrameInTime, Waits, FrameWaits
<1>7. CASE worker.doing = "frame"
  <2>1. \A x : Has(toMain', x) <=> Has(toMain, x) \/ "done" = x
    <3>1. toMain' = Append(toMain, "done")
      BY <1>1, <1>7
    <3> QED  BY <1>2, <3>1, HasAppend
  <2>2. (CompileMail' <=> CompileMail) /\ (Waits' <=> Waits) /\ ~ FrameWaits'
    BY <1>1, <2>1 DEF CompileMail, Waits, FrameWaits, SameLogicUi
  <2>3. UiInTime' /\ PingInTime'
    BY <1>1, <1>3, <2>1 DEF InTime, UiInTime, PingInTime, SameLogicUi
  <2>4. CompileInTime'
    <3>1. ~ CompileMail => ~ logic.compile_busy
      BY <1>7, AllHeard
    <3> QED  BY <1>1, <2>2, <3>1 DEF CompileInTime, SameLogicUi
  <2>5. QueueInTime'
    <3>1. ~ FrameFirst(Line)
      BY <1>7, OneFrame
    <3> QED  BY <1>1, <1>3, <2>2, <3>1 DEF InTime, QueueInTime, SameLogicUi
  <2> QED  BY <1>4, <1>5, <2>2, <2>3, <2>4, <2>5 DEF InTime, FrameInTime
<1> QED  BY <1>1, <1>6, <1>7

LEMMA OneOlder ==
  ASSUME NEW t \in (-Horizon)..0
  PROVE  Age(t) \in Nat /\ Age(Older(t)) \in Nat /\ Age(Older(t)) <= Age(t) + 1
<1>1. Horizon \in Nat
  BY Deadlines
<1> QED  BY <1>1 DEF Age, Older

(* A tick: what waits for a prompt thread does not wait.                   *)
LEMMA InTimeTick ==
  ASSUME Base, Base', Tick, KeepsWithinTimes(scene), InTime, Alive, ~ worker.hung
  PROVE  InTime'
<1>1. /\ scene' = scene /\ SameQueues
      /\ Blocked \/ (ui.phase = "reap" /\ ui.idle < scene.pause)
      /\ Prompt
      /\ ui'.outstanding = ui.outstanding
      /\ ui'.waited = IF Blocked /\ ui.waited < Horizon THEN ui.waited + 1 ELSE ui.waited
      /\ worker'.doing = worker.doing
      /\ worker'.age = IF Works /\ worker.doing # "idle" THEN worker.age + 1 ELSE 0
      /\ logic'.ping_outstanding = logic.ping_outstanding
      /\ logic'.frame_outstanding = logic.frame_outstanding
      /\ logic'.compile_busy = logic.compile_busy
      /\ logic'.compiles_pending = logic.compiles_pending
      /\ logic'.ping_sent = Older(logic.ping_sent)
      /\ logic'.frame_sent = Older(logic.frame_sent)
      /\ logic'.compile_since = Older(logic.compile_since)
      /\ logic'.compile_wait_since = Older(logic.compile_wait_since)
  BY TickDoes DEF Base
<1>2. /\ Before' = Before /\ Line' = Line /\ (CompileMail' <=> CompileMail)
      /\ (Waits' <=> Waits) /\ (FrameWaits' <=> FrameWaits)
  BY <1>1 DEF Before, Line, CompileMail, Waits, FrameWaits, SameQueues, Sup!Compiling
<1>3. worker.doing \in {"boot", "engine", "idle", "compile", "frame"}
  BY Fields DEF Base, Alive, Doings
<1>4. /\ worker.doing # "boot" => inbox = <<>>
      /\ worker.doing = "idle" => queue = <<>>
      /\ worker.doing = "boot" => worker.age < scene.boot
      /\ worker.doing = "engine" => worker.age < scene.engine
      /\ worker.doing = "compile" => worker.age < scene.compile
      /\ worker.doing = "frame" => worker.age < scene.frame
  BY <1>1 DEF Prompt, Listens, Works, Takes
<1>5. worker.doing # "idle" => worker'.age = worker.age + 1
  BY <1>1 DEF Works
<1>6. /\ worker.age \in Nat /\ worker'.age \in Nat /\ scene.boot \in Nat /\ scene.engine \in Nat
      /\ scene.compile \in Nat /\ scene.frame \in Nat /\ Before \in Nat
      /\ ui.waited \in Nat /\ BootTime \in Nat /\ Elapsed \in Nat
  <2>1. worker.age \in Nat /\ ui.waited \in Nat /\ BootTime \in Nat /\ Elapsed \in Nat
    BY Measured DEF Base
  <2>2. scene.boot \in Nat /\ scene.engine \in Nat /\ scene.compile \in Nat
        /\ scene.frame \in Nat /\ Before \in Nat
    BY Times DEF Base
  <2>3. worker'.age \in Nat
    BY <1>1, <2>1
  <2> QED  BY <2>1, <2>2, <2>3
<1>7. Blocked => worker.doing = "boot" /\ inbox # <<>>
  <2>1. ~ Room => inbox # <<>>
    <3>1. scene.room \in Nat \ {0}
      BY SceneFacts DEF Base, Shape
    <3>2. inbox = <<>> => Len(inbox) = 0
      OBVIOUS
    <3> QED  BY <3>1, <3>2 DEF Room
  <2> QED  BY <1>4, <2>1 DEF Blocked
<1>8. /\ worker.doing = "boot" => BootTime' = BootTime + 1
      /\ worker.doing # "boot" => BootTime' = BootTime
  BY <1>1, <1>5 DEF BootTime
<1>9. worker.doing \in {"boot", "engine", "frame"} => Elapsed' = Elapsed + 1
  <2>1. CASE worker.doing = "boot"
    BY <1>1, <1>5, <1>6, <2>1, ElapsedIs, ElapsedNext
  <2>2. CASE worker.doing = "engine"
    BY <1>1, <1>5, <1>6, <2>2, ElapsedIs, ElapsedNext
  <2>3. CASE worker.doing = "frame"
    BY <1>1, <1>2, <1>5, <1>6, <2>3, ElapsedIs, ElapsedNext
  <2> QED  BY <2>1, <2>2, <2>3
<1>10. AgeOK'
  BY <1>1, <1>3, <1>4, <1>5, <1>6, AgeNext
<1>11. UiInTime'
  <2>1. ui.waited <= BootTime
    BY DEF InTime, UiInTime
  <2>2. Horizon \in Nat
    BY Deadlines
  <2> QED  BY <1>1, <1>6, <1>7, <1>8, <2>1, <2>2 DEF UiInTime
<1>12. PingInTime'
  <2>1. SUFFICES ASSUME logic'.ping_outstanding, ~ Has(toMain', "pong")
                 PROVE  Has(inbox', "ping") /\ Age(logic'.ping_sent) <= BootTime'
    BY DEF PingInTime
  <2>2. Has(inbox, "ping") /\ Age(logic.ping_sent) <= BootTime
    BY <1>1, <2>1 DEF InTime, PingInTime, SameQueues
  <2>3. worker.doing = "boot"
    BY <1>4, <2>2, CountsNone
  <2>4. logic.ping_sent \in (-Horizon)..0
    BY Fields DEF Base
  <2>5. Age(logic'.ping_sent) <= Age(logic.ping_sent) + 1
        /\ Age(logic'.ping_sent) \in Nat /\ Age(logic.ping_sent) \in Nat
    BY <1>1, <2>4, OneOlder
  <2>6. Age(logic'.ping_sent) <= BootTime'
    BY <1>6, <1>8, <2>2, <2>3, <2>5
  <2> QED  BY <1>1, <2>2, <2>6 DEF SameQueues
<1>13. CompileInTime'
  <2>1. SUFFICES ASSUME logic'.compile_busy, ~ CompileMail'
                 PROVE  Age(logic'.compile_since) <= worker'.age
    BY DEF CompileInTime
  <2>2. worker.doing = "compile"
    BY <1>1, <1>2, <2>1, AllHeard
  <2>3. Age(logic.compile_since) <= worker.age
    BY <1>1, <1>2, <2>1 DEF InTime, CompileInTime
  <2>4. logic.compile_since \in (-Horizon)..0
    BY Fields DEF Base
  <2>5. Age(logic'.compile_since) <= Age(logic.compile_since) + 1
        /\ Age(logic'.compile_since) \in Nat /\ Age(logic.compile_since) \in Nat
    BY <1>1, <2>4, OneOlder
  <2> QED  BY <1>5, <1>6, <2>2, <2>3, <2>5
<1>14. QueueInTime'
  <2>1. SUFFICES ASSUME Waits
                 PROVE  /\ Age(logic'.compile_wait_since) <= CompileTimeout
                        /\ worker.doing # "idle"
                        /\ Age(logic'.compile_wait_since) <= Elapsed'
    BY <1>1, <1>2 DEF QueueInTime
  <2>2. worker.doing # "compile" /\ Has(Line, "source")
    BY <2>1, SourceIsThere
  <2>3. worker.doing \in {"boot", "engine", "frame"}
    BY <1>3, <1>4, <2>2, NothingInLine
  <2>4. Age(logic.compile_wait_since) <= Elapsed
    BY <2>1, <2>3 DEF InTime, QueueInTime
  <2>5. logic.compile_wait_since \in (-Horizon)..0
    BY Fields DEF Base
  <2>6. Age(logic'.compile_wait_since) <= Age(logic.compile_wait_since) + 1
        /\ Age(logic'.compile_wait_since) \in Nat /\ Age(logic.compile_wait_since) \in Nat
    BY <1>1, <2>5, OneOlder
  <2>7. Age(logic'.compile_wait_since) <= Elapsed'
    BY <1>6, <1>9, <2>3, <2>4, <2>6
  <2>8. Elapsed' <= CompileTimeout
    <3>1. CASE worker.doing = "boot"
      BY <1>4, <1>6, <1>9, <3>1, ElapsedIs, Times DEF Base
    <3>2. CASE worker.doing = "engine"
      BY <1>4, <1>6, <1>9, <3>2, ElapsedIs, Times DEF Base
    <3>3. CASE worker.doing = "frame"
      BY <1>4, <1>6, <1>9, <3>3, ElapsedIs, Times DEF Base
    <3> QED  BY <2>3, <3>1, <3>2, <3>3
  <2>9. Elapsed' \in Nat /\ CompileTimeout \in Nat
    BY <1>6, <1>9, <2>3, Times DEF Base
  <2>10. Age(logic'.compile_wait_since) <= CompileTimeout
    BY <2>6, <2>7, <2>8, <2>9
  <2> QED  BY <2>3, <2>7, <2>10
<1>15. FrameInTime'
  <2>1. SUFFICES ASSUME FrameWaits PROVE Age(logic'.frame_sent) <= Elapsed'
    BY <1>2 DEF FrameInTime
  <2>2. worker.doing # "compile"
    BY <2>1, AllHeard DEF FrameWaits, Sup!Compiling
  <2>3. worker.doing \in {"boot", "engine", "frame"}
    BY <1>3, <1>4, <2>1, <2>2, FrameIsThere, NothingInLine
  <2>4. Age(logic.frame_sent) <= Elapsed
    BY <2>1 DEF InTime, FrameInTime
  <2>5. logic.frame_sent \in (-Horizon)..0
    BY Fields DEF Base
  <2>6. Age(logic'.frame_sent) <= Age(logic.frame_sent) + 1
        /\ Age(logic'.frame_sent) \in Nat /\ Age(logic.frame_sent) \in Nat
    BY <1>1, <2>5, OneOlder
  <2> QED  BY <1>6, <1>9, <2>3, <2>4, <2>6
<1>16. FirstSources'
  <2>1. SUFFICES ASSUME scene.first > 0
                 PROVE  /\ worker.doing \in {"boot", "engine"} =>
                             Has(Line, "source") /\ ~ FrameFirst(Line)
                        /\ ui'.waited > 0 => logic.compiles_pending > 0
    BY <1>1, <1>2 DEF FirstSources
  <2>2. worker.doing \in {"boot", "engine"} => Has(Line, "source") /\ ~ FrameFirst(Line)
    BY <1>1, <1>7, <2>1 DEF InTime, FirstSources
  <2>3. ui'.waited > 0 => logic.compiles_pending > 0
    <3>1. CASE Blocked
      <4>1. Has(Line, "source")
        BY <1>7, <2>2, <3>1
      <4> QED  BY <4>1, SourceIsOwed
    <3>2. CASE ~ Blocked
      BY <1>1, <2>1, <3>2 DEF InTime, FirstSources
    <3> QED  BY <3>1, <3>2
  <2> QED  BY <2>2, <2>3
<1> QED  BY <1>10, <1>11, <1>12, <1>13, <1>14, <1>15, <1>16 DEF InTime

LEMMA PunctualUiStep ==
  ASSUME Base, Base', Punctual, KeepsWithinTimes(scene), Alive', ~ worker'.hung,
         Reap \/ Drain \/ Spawn \/ Kill \/ LeaveAlone
  PROVE  InTime'
<1>1. (worker.doing = "dead" => logic.spawned) /\ (logic.compile_busy => logic.busy_slide = 0)
  BY DEF Base, Wired
<1>2. CASE Reap
  <2>1. Alive /\ ~ worker.hung
    <3>1. CASE worker.doing = "dead"
      BY <1>1, <1>2, <3>1, ReapDoes DEF Base, Alive
    <3>2. CASE worker.doing # "dead"
      <4>1. /\ worker'.hung = worker.hung
            /\ worker'.doing = IF ui.killing /\ Alive /\ ui.kill_in = 0 THEN "dead" ELSE worker.doing
        BY <1>1, <1>2, <3>2, ReapDoes DEF Base
      <4> QED  BY <4>1 DEF Alive
    <3> QED  BY <3>1, <3>2
  <2> QED  BY <1>2, <2>1, InTimeReap DEF Punctual
<1>3. CASE Drain
  <2>1. worker' = worker
    BY <1>1, <1>3, DrainDoes DEF Base
  <2>2. Alive /\ ~ worker.hung
    BY <2>1 DEF Alive
  <2> QED  BY <1>3, <2>2, InTimeDrain DEF Punctual
<1>4. CASE Spawn
  BY <1>4, InTimeSpawn
<1>5. CASE Kill
  <2>1. /\ worker'.hung = worker.hung
        /\ worker'.doing = IF scene.deaf \/ ~ Alive THEN worker.doing ELSE "dead"
    BY <1>5, KillDoes DEF Base
  <2>2. Alive /\ ~ worker.hung
    BY <2>1 DEF Alive
  <2> QED  BY <1>5, <2>2, InTimeKill DEF Punctual
<1>6. CASE LeaveAlone
  <2>1. worker' = worker
    BY <1>6, LeaveAloneDoes DEF Base
  <2>2. Alive /\ ~ worker.hung
    BY <2>1 DEF Alive
  <2> QED  BY <1>6, <2>2, InTimeLeaveAlone DEF Punctual
<1> QED  BY <1>2, <1>3, <1>4, <1>5, <1>6

LEMMA PunctualSendStep ==
  ASSUME Base, Base', Punctual, KeepsWithinTimes(scene), Alive', ~ worker'.hung,
         Ping \/ Submit \/ EndFrame \/ Begin \/ IORecv
  PROVE  InTime'
<1>1. worker' = worker /\ scene' = scene
  BY PingStepDoes, SubmitDoes, EndFrameDoes, BeginStepDoes, IORecvDoes DEF Base, SameLogicUi
<1>2. Alive /\ ~ worker.hung
  BY <1>1 DEF Alive
<1>3. InTime
  BY <1>2 DEF Punctual
<1>4. CASE Ping
  BY <1>2, <1>3, <1>4, InTimePing
<1>5. CASE Submit
  BY <1>2, <1>3, <1>5, InTimeSubmit
<1>6. CASE EndFrame
  BY <1>2, <1>3, <1>6, InTimeEndFrame
<1>7. CASE Begin
  BY <1>1, <1>2, <1>3, <1>7, InTimeBegin
<1>8. CASE IORecv
  BY <1>2, <1>3, <1>8, InTimeIORecv
<1> QED  BY <1>4, <1>5, <1>6, <1>7, <1>8

LEMMA PunctualWorkerStep ==
  ASSUME Base, Base', Punctual, KeepsWithinTimes(scene), Alive', ~ worker'.hung,
         Boot \/ EngineBuilt \/ Take \/ Finish \/ Hang \/ Crash \/ Tick
  PROVE  InTime'
<1>1. CASE Boot \/ EngineBuilt \/ Take \/ Finish
  <2>1. Alive /\ ~ worker.hung
    BY <1>1 DEF Boot, EngineBuilt, Take, Finish, Works
  <2>2. InTime
    BY <2>1 DEF Punctual
  <2>3. CASE Boot
    BY <2>1, <2>2, <2>3, InTimeBoot
  <2>4. CASE EngineBuilt
    BY <2>1, <2>2, <2>4, InTimeEngineBuilt
  <2>5. CASE Take
    BY <2>1, <2>2, <2>5, InTimeTake
  <2>6. CASE Finish
    BY <2>1, <2>2, <2>6, InTimeFinish
  <2> QED  BY <1>1, <2>3, <2>4, <2>5, <2>6
<1>2. CASE Hang
  BY <1>2, HangDoes DEF Base
<1>3. CASE Crash
  BY <1>3, CrashDoes DEF Base, Alive
<1>4. CASE Tick
  <2>1. worker'.doing = worker.doing /\ worker'.hung = worker.hung
    BY <1>4, TickDoes DEF Base
  <2>2. Alive /\ ~ worker.hung
    BY <2>1 DEF Alive
  <2> QED  BY <1>4, <2>2, InTimeTick DEF Punctual
<1> QED  BY <1>1, <1>2, <1>3, <1>4

(* In time is not overdue.                                                 *)
LEMMA InTimeIsBounded ==
  Base /\ Alive /\ KeepsWithinTimes(scene) /\ InTime => Bounded
<1> SUFFICES ASSUME Base, Alive, KeepsWithinTimes(scene), InTime PROVE Bounded
  OBVIOUS
<1>1. /\ worker.age \in Nat /\ BootTime \in Nat /\ Elapsed \in Nat
      /\ Age(logic.ping_sent) \in Nat /\ Age(logic.compile_since) \in Nat
      /\ Age(logic.compile_wait_since) \in Nat /\ Age(logic.frame_sent) \in Nat
  <2>1. /\ Age(logic.ping_sent) \in Nat /\ Age(logic.compile_since) \in Nat
        /\ Age(logic.compile_wait_since) \in Nat /\ Age(logic.frame_sent) \in Nat
    <3>1. /\ logic.ping_sent \in (-Horizon)..0 /\ logic.compile_since \in (-Horizon)..0
          /\ logic.compile_wait_since \in (-Horizon)..0 /\ logic.frame_sent \in (-Horizon)..0
      BY Fields DEF Base
    <3> QED  BY <3>1, OneOlder
  <2> QED  BY <2>1, Measured DEF Base
<1>2. logic.ping_outstanding /\ ~ Has(toMain, "pong") => Age(logic.ping_sent) <= PongTimeout
  <2>1. BootTime <= scene.boot
    BY AgeIs, Times DEF InTime, BootTime, Base
  <2> QED  BY <1>1, <2>1, Times DEF InTime, PingInTime, Base
<1>3. logic.compile_busy /\ ~ CompileMail => Age(logic.compile_since) <= CompileTimeout
  <2>1. SUFFICES ASSUME logic.compile_busy, ~ CompileMail
                 PROVE  Age(logic.compile_since) <= CompileTimeout
    OBVIOUS
  <2>2. worker.doing = "compile"
    BY <2>1, AllHeard
  <2>3. worker.age <= scene.compile /\ Age(logic.compile_since) <= worker.age
    BY <2>1, <2>2, AgeIs DEF InTime, CompileInTime
  <2> QED  BY <1>1, <2>3, Times DEF Base
<1>4. Waits => Age(logic.compile_wait_since) <= CompileTimeout
  BY DEF InTime, QueueInTime
<1>5. FrameWaits => Age(logic.frame_sent) <= FrameTimeout
  <2>1. SUFFICES ASSUME FrameWaits PROVE Age(logic.frame_sent) <= FrameTimeout
    OBVIOUS
  <2>2. Age(logic.frame_sent) <= Elapsed
    BY <2>1 DEF InTime, FrameInTime
  <2>3. scene.first > 0 => worker.doing \notin {"boot", "engine"}
    BY <2>1, NotYet DEF InTime
  <2>4. Elapsed <= Before + scene.frame
    <3>1. CASE worker.doing \in {"boot", "engine"}
      <4>1. Before = scene.boot + scene.engine
        BY <2>3, <3>1, Times DEF Base
      <4>2. CASE worker.doing = "boot"
        BY <1>1, <4>1, <4>2, AgeIs, ElapsedIs, Times DEF InTime, Base
      <4>3. CASE worker.doing = "engine"
        BY <1>1, <4>1, <4>3, AgeIs, ElapsedIs, Times DEF InTime, Base
      <4> QED  BY <3>1, <4>2, <4>3
    <3>2. CASE worker.doing = "frame"
      BY <1>1, <3>2, AgeIs, ElapsedIs, Times DEF InTime, Base
    <3>3. CASE worker.doing \notin {"boot", "engine", "frame"}
      BY <1>1, <3>3, ElapsedIs, Times DEF Base
    <3> QED  BY <3>1, <3>2, <3>3
  <2> QED  BY <1>1, <2>2, <2>4, Times DEF Base
<1> QED  BY <1>2, <1>3, <1>4, <1>5 DEF Bounded

LEMMA InTimeIsBoundedNext ==
  ASSUME Base', Alive', KeepsWithinTimes(scene'), InTime'
  PROVE  Bounded'
<1>1. (Base /\ Alive /\ KeepsWithinTimes(scene) /\ InTime => Bounded)'
  BY InTimeIsBounded, PTL
<1> QED  BY <1>1

(* A worker that died leaves its deadlines where they were.                *)
LEMMA BoundedKept ==
  ASSUME Bounded, SamePing(logic, logic'), SameFrame(logic, logic'), SameCompile(logic, logic'),
         ui'.outstanding = ui.outstanding,
         \A x \in {"pong", "busy", "result", "done"} : Has(toMain', x) <=> Has(toMain, x)
  PROVE  Bounded'
<1>1. (CompileMail' <=> CompileMail) /\ (Waits' <=> Waits) /\ (FrameWaits' <=> FrameWaits)
  BY DEF CompileMail, Waits, FrameWaits, SameCompile, Sup!Compiling
<1>2. Has(toMain', "pong") <=> Has(toMain, "pong")
  OBVIOUS
<1> QED  BY <1>1, <1>2 DEF Bounded, SamePing, SameFrame, SameCompile

LEMMA BoundedDrain ==
  ASSUME Base, Base', Drain, Bounded
  PROVE  Bounded'
<1> DEFINE m == Head(toMain)
<1>1. logic.compile_busy => logic.busy_slide = 0
  BY DEF Base, Wired
<1>2. /\ toMain # <<>> /\ toMain' = Tail(toMain)
      /\ ui'.outstanding <=> (ui.outstanding /\ m # "done")
      /\ logic'.ping_sent = logic.ping_sent
      /\ logic'.ping_outstanding <=> (logic.ping_outstanding /\ m # "pong")
      /\ logic'.frame_outstanding <=> (logic.frame_outstanding /\ m # "done")
      /\ logic'.frame_sent = IF m = "result" /\ logic.frame_outstanding THEN 0 ELSE logic.frame_sent
      /\ logic'.compile_busy <=> (m = "busy" \/ (m # "result" /\ logic.compile_busy))
      /\ logic'.compile_since = IF m = "busy" THEN 0 ELSE logic.compile_since
      /\ logic'.compiles_pending = IF m = "result" /\ logic.compiles_pending > 0
                                   THEN logic.compiles_pending - 1 ELSE logic.compiles_pending
      /\ logic'.compile_wait_since = IF m \in {"busy", "result"} THEN 0 ELSE logic.compile_wait_since
  BY <1>1, DrainDoes DEF Base
<1>3. \A x : Has(toMain, x) <=> Has(toMain', x) \/ m = x
  BY <1>2, HasTail DEF Base, Shape
<1> HIDE DEF m
<1>4. CompileMail <=> (CompileMail' \/ m \in {"busy", "result"})
  BY <1>3 DEF CompileMail
<1>5. CompileTimeout \in Nat /\ FrameTimeout \in Nat
  BY Deadlines
<1>6. Age(0) \in Nat /\ Age(0) <= 0
  BY DEF Age
<1>7. logic'.ping_outstanding /\ ~ Has(toMain', "pong") => Age(logic'.ping_sent) <= PongTimeout
  BY <1>2, <1>3 DEF Bounded
<1>8. logic'.compile_busy /\ ~ CompileMail' => Age(logic'.compile_since) <= CompileTimeout
  BY <1>2, <1>4, <1>5, <1>6 DEF Bounded
<1>9. Waits' => Age(logic'.compile_wait_since) <= CompileTimeout
  <2>1. CASE m \in {"busy", "result"}
    BY <1>2, <1>5, <1>6, <2>1
  <2>2. CASE m \notin {"busy", "result"}
    <3>1. Waits' => Waits
      BY <1>2, <1>4, <2>2 DEF Waits
    <3> QED  BY <1>2, <2>2, <3>1 DEF Bounded
  <2> QED  BY <2>1, <2>2
<1>10. FrameWaits' => Age(logic'.frame_sent) <= FrameTimeout
  <2>1. CASE m = "result"
    <3>1. FrameWaits' => logic'.frame_sent = 0
      BY <1>2, <2>1 DEF FrameWaits, Base, Wired
    <3> QED  BY <1>5, <1>6, <3>1
  <2>2. CASE m = "busy"
    BY <1>2, <2>2 DEF FrameWaits, Sup!Compiling
  <2>3. CASE m \notin {"busy", "result"}
    <3>1. FrameWaits' => FrameWaits
      BY <1>2, <1>3, <1>4, <2>3 DEF FrameWaits, Sup!Compiling
    <3> QED  BY <1>2, <2>3, <3>1 DEF Bounded
  <2> QED  BY <2>1, <2>2, <2>3
<1> QED  BY <1>7, <1>8, <1>9, <1>10 DEF Bounded

(* Punctual is kept, action by action.                                     *)
LEMMA PunctualStep ==
  ASSUME Base, Base', Punctual, KeepsWithinTimes(scene), [Next]_vars
  PROVE  Punctual'
<1>1. SUFFICES ASSUME Alive', ~ worker'.hung PROVE InTime'
  BY DEF Punctual
<1>2. CASE Next
  BY Zenon, <1>1, <1>2, StepCases, PunctualUiStep, PunctualSendStep, PunctualWorkerStep
<1>3. CASE UNCHANGED vars
  <2>1. /\ logic' = logic /\ ui' = ui /\ worker' = worker /\ scene' = scene
        /\ inbox' = inbox /\ queue' = queue /\ toMain' = toMain
    BY <1>3 DEF vars
  <2>2. Alive /\ ~ worker.hung
    BY <1>1, <2>1 DEF Alive
  <2>3. InTime
    BY <2>2 DEF Punctual
  <2>4. Line' = Line /\ Before' = Before /\ BootTime' = BootTime /\ (CompileMail' <=> CompileMail)
    BY <2>1 DEF Line, Before, BootTime, CompileMail
  <2>5. Elapsed' = Elapsed
    BY <2>1, <2>4, ElapsedIs, ElapsedNext
  <2>6. (Waits' <=> Waits) /\ (FrameWaits' <=> FrameWaits)
    BY <2>1, <2>4 DEF Waits, FrameWaits
  <2>7. AgeOK' /\ UiInTime' /\ PingInTime' /\ CompileInTime'
    BY <2>1, <2>3, <2>4, AgeIs, AgeNext DEF InTime, UiInTime, PingInTime, CompileInTime
  <2>8. QueueInTime' /\ FrameInTime' /\ FirstSources'
    BY <2>1, <2>3, <2>4, <2>5, <2>6 DEF InTime, QueueInTime, FrameInTime, FirstSources
  <2> QED  BY <2>7, <2>8 DEF InTime
<1> QED  BY <1>2, <1>3

(* What becomes of the deadlines of a worker that is not alive after a     *)
(* step.                                                                   *)
LEMMA SparedDead ==
  ASSUME Base, Base', Spared, Next,
         logic'.spawned, ~ worker'.hung, worker'.doing = "dead", ui'.phase # "reap"
  PROVE  Bounded'
<1>1. (worker.doing = "dead" => logic.spawned) /\ (logic.compile_busy => logic.busy_slide = 0)
      /\ ~ logic.restart_requested /\ (logic.spawned <=> worker.doing # "none")
  BY DEF Base, Wired
<1>2. CASE Reap
  <2>1. worker.doing # "dead"
    BY <1>1, <1>2, ReapDoes DEF Base
  <2>2. /\ logic' = logic /\ SameUi /\ SameQueues /\ worker'.hung = worker.hung
        /\ worker'.doing = IF ui.killing /\ Alive /\ ui.kill_in = 0 THEN "dead" ELSE worker.doing
    BY <1>1, <1>2, <2>1, ReapDoes DEF Base
  <2>3. Bounded
    BY <1>1, <2>1, <2>2 DEF Spared, Alive
  <2> QED  BY <2>2, <2>3, BoundedKept DEF SameUi, SameQueues, SamePing, SameFrame, SameCompile
<1>3. CASE Drain
  <2>1. worker' = worker /\ ui.phase = "drain"
    BY <1>1, <1>3, DrainDoes DEF Base
  <2>2. Bounded
    BY <1>1, <2>1 DEF Spared
  <2> QED  BY <1>3, <2>2, BoundedDrain
<1>4. CASE Spawn
  <2>1. ~ logic.spawned /\ (logic'.spawned => worker'.doing = "boot")
    BY <1>1, <1>4, SpawnDoes DEF Base
  <2> QED  BY <2>1
<1>5. CASE Kill
  <2>1. /\ SamePing(logic, logic') /\ SameFrame(logic, logic') /\ SameCompile(logic, logic')
        /\ SameQueues /\ ui'.outstanding = ui.outstanding /\ worker'.hung = worker.hung
        /\ Drained /\ logic.spawned
    BY <1>5, KillDoes DEF Base
  <2>2. Bounded
    BY <2>1 DEF Spared, Drained
  <2> QED  BY <2>1, <2>2, BoundedKept DEF SameQueues
<1>6. CASE LeaveAlone
  <2>1. /\ logic' = logic /\ worker' = worker /\ SameQueues /\ ui'.outstanding = ui.outstanding
        /\ Drained
    BY <1>6, LeaveAloneDoes DEF Base
  <2>2. Bounded
    BY <1>1, <2>1 DEF Spared, Drained
  <2> QED  BY <2>1, <2>2, BoundedKept DEF SameQueues, SamePing, SameFrame, SameCompile
<1>7. CASE Ping
  <2>1. /\ worker' = worker /\ toMain' = toMain /\ ui'.outstanding = ui.outstanding
        /\ ui.phase = "ping" /\ (~ Alive => logic' = logic)
    BY <1>7, PingStepDoes DEF Base
  <2>2. Bounded /\ logic' = logic
    BY <1>1, <2>1 DEF Spared, Alive
  <2> QED  BY <2>1, <2>2, BoundedKept DEF SamePing, SameFrame, SameCompile
<1>8. CASE Submit
  <2>1. /\ worker' = worker /\ toMain' = toMain /\ ui'.outstanding = ui.outstanding
        /\ ui.phase = "send" /\ (~ Alive => logic' = logic)
    BY <1>8, SubmitDoes DEF Base
  <2>2. Bounded /\ logic' = logic
    BY <1>1, <2>1 DEF Spared, Alive
  <2> QED  BY <2>1, <2>2, BoundedKept DEF SamePing, SameFrame, SameCompile
<1>9. CASE EndFrame
  <2>1. worker' = worker /\ (ui'.phase = "reap" \/ Alive)
    BY <1>9, EndFrameDoes DEF Base
  <2> QED  BY <2>1 DEF Alive
<1>10. CASE Begin
  BY <1>10, BeginStepDoes DEF Base
<1>11. CASE IORecv
  BY <1>11, IORecvDoes DEF Base, Listens, Alive
<1>12. CASE Boot
  <2>1. /\ SameLogicUi /\ toMain' = Append(toMain, "ack") /\ worker.doing = "boot" /\ ~ worker.hung
    BY <1>12, BootDoes DEF Base
  <2>2. toMain \in Seq(ToMain) /\ "ack" \in ToMain
    BY DEF Base, Shape, ToMain
  <2>3. \A x : Has(toMain', x) <=> Has(toMain, x) \/ "ack" = x
    BY <2>1, <2>2, HasAppend
  <2>4. Bounded
    BY <1>1, <2>1 DEF Spared
  <2>5. \A x \in {"pong", "busy", "result", "done"} : Has(toMain', x) <=> Has(toMain, x)
    BY <2>3
  <2> QED  BY <2>1, <2>4, <2>5, BoundedKept DEF SameLogicUi, SamePing, SameFrame, SameCompile
<1>13. CASE EngineBuilt \/ Take \/ Finish \/ Hang
  <2>1. worker'.doing # "dead"
    BY <1>13, EngineBuiltDoes, TakeDoes, FinishDoes, HangDoes DEF Base, Alive
  <2> QED  BY <2>1
<1>14. CASE Crash
  <2>1. SameLogicUi /\ SameQueues /\ Alive /\ worker'.hung = worker.hung
    BY <1>14, CrashDoes DEF Base
  <2>2. Bounded
    BY <1>1, <2>1 DEF Spared, Alive
  <2> QED  BY <2>1, <2>2, BoundedKept DEF SameLogicUi, SameQueues, SamePing, SameFrame, SameCompile
<1>15. CASE Tick
  <2>1. /\ Blocked \/ ui.phase = "reap"
        /\ ui'.phase = ui.phase /\ worker'.doing = worker.doing
    BY <1>15, TickDoes DEF Base
  <2> QED  BY <2>1 DEF Blocked, Alive
<1> QED  BY StepCases, <1>2, <1>3, <1>4, <1>5, <1>6, <1>7, <1>8, <1>9, <1>10, <1>11, <1>12, <1>13,
            <1>14, <1>15

(* Spared is kept.                                                         *)
LEMMA SparedStep ==
  ASSUME Base, Base', Punctual', Spared, KeepsWithinTimes(scene'), [Next]_vars
  PROVE  Spared'
<1>1. SUFFICES ASSUME logic'.spawned, ~ worker'.hung, worker'.doing = "dead" => ui'.phase # "reap"
               PROVE  Bounded'
  BY DEF Spared
<1>2. worker'.doing # "none"
  BY <1>1 DEF Base, Wired
<1>3. CASE worker'.doing # "dead"
  <2>1. Alive' /\ InTime'
    BY <1>1, <1>2, <1>3 DEF Alive, Punctual
  <2> QED  BY <2>1, InTimeIsBoundedNext
<1>4. CASE worker'.doing = "dead" /\ Next
  BY <1>1, <1>4, SparedDead
<1>5. CASE UNCHANGED vars
  <2>1. logic' = logic /\ ui' = ui /\ worker' = worker /\ toMain' = toMain
    BY <1>5 DEF vars
  <2>2. Bounded
    BY <1>1, <2>1 DEF Spared
  <2> QED  BY <2>1, <2>2, BoundedKept DEF SamePing, SameFrame, SameCompile
<1> QED  BY <1>3, <1>4, <1>5

(* The verdict: when no message is left to read, nothing is overdue.       *)
LEMMA NothingOverdue ==
  ASSUME Base, Bounded, toMain = <<>>
  PROVE  ~ Sup!Overdue(logic, 0)
<1>1. \A x : ~ Has(toMain, x)
  BY CountsNone
<1>2. ~ CompileMail
  BY <1>1 DEF CompileMail
<1>3. /\ logic.ping_outstanding => Age(logic.ping_sent) <= PongTimeout
      /\ logic.compile_busy => Age(logic.compile_since) <= CompileTimeout
      /\ ~ logic.compile_busy /\ logic.compiles_pending > 0
           => Age(logic.compile_wait_since) <= CompileTimeout
      /\ logic.frame_outstanding /\ ~ Sup!Compiling(logic) => Age(logic.frame_sent) <= FrameTimeout
  BY <1>1, <1>2 DEF Bounded, Waits, FrameWaits, Base, Wired
<1>4. \A t \in {logic.ping_sent, logic.frame_sent, logic.compile_since, logic.compile_wait_since} :
        0 - t = Age(t) /\ Age(t) \in Nat
  <2>1. {logic.ping_sent, logic.frame_sent, logic.compile_since, logic.compile_wait_since}
          \subseteq (-Horizon)..0
    BY Fields DEF Base
  <2>2. \A t \in (-Horizon)..0 : 0 - t = Age(t) /\ Age(t) \in Nat
    BY Deadlines DEF Age
  <2> QED  BY <2>1, <2>2
<1>5. PongTimeout \in Nat /\ CompileTimeout \in Nat /\ FrameTimeout \in Nat
  BY Deadlines
<1>6. \A t, limit : 0 - t = Age(t) /\ Age(t) \in Nat /\ limit \in Nat /\ Age(t) <= limit
                     => ~ (0 - t > limit)
  <2>1. \A n, limit \in Nat : n <= limit => ~ (n > limit)
    OBVIOUS
  <2> QED  BY <2>1
<1>7. /\ logic.ping_outstanding => ~ (0 - logic.ping_sent > PongTimeout)
      /\ logic.compile_busy => ~ (0 - logic.compile_since > CompileTimeout)
      /\ ~ logic.compile_busy /\ logic.compiles_pending > 0
           => ~ (0 - logic.compile_wait_since > CompileTimeout)
      /\ logic.frame_outstanding /\ ~ Sup!Compiling(logic) => ~ (0 - logic.frame_sent > FrameTimeout)
  BY Zenon, <1>3, <1>4, <1>5, <1>6
<1>8. Sup!Overdue(logic, 0)
        <=> \/ logic.ping_outstanding /\ 0 - logic.ping_sent > PongTimeout
            \/ logic.compile_busy /\ 0 - logic.compile_since > CompileTimeout
            \/ (~ logic.compile_busy /\ logic.compiles_pending > 0)
                 /\ 0 - logic.compile_wait_since > CompileTimeout
            \/ (logic.frame_outstanding /\ ~ Sup!Compiling(logic)) /\ 0 - logic.frame_sent > FrameTimeout
  BY DEF Sup!Overdue, Sup!Armed
<1> QED  BY Zenon, <1>7, <1>8

(* A verdict of Kill falls on a worker that hangs, or on none.             *)
LEMMA KillIsDeserved ==
  ASSUME Base, Spared, [Next]_vars, ~ logic.killing, logic'.killing
  PROVE  worker.hung
<1>1. (worker.doing = "dead" => logic.spawned) /\ (logic.compile_busy => logic.busy_slide = 0)
      /\ ~ logic.restart_requested
  BY DEF Base, Wired
<1>2. CASE Kill
  <2>1. Drained /\ logic.spawned /\ (logic.restart_requested \/ Sup!Overdue(logic, 0))
    BY <1>2, KillDoes DEF Base
  <2>2. SUFFICES ASSUME ~ worker.hung PROVE FALSE
    OBVIOUS
  <2>3. Bounded /\ toMain = <<>>
    BY <2>1, <2>2 DEF Spared, Drained
  <2> QED  BY <1>1, <2>1, <2>3, NothingOverdue
<1>3. CASE Reap
  BY <1>1, <1>3, ReapDoes DEF Base, Fresh
<1>4. CASE Drain
  BY <1>1, <1>4, DrainDoes DEF Base, SameLife
<1>5. CASE Spawn
  BY <1>1, <1>5, SpawnDoes DEF Base, Fresh
<1>6. CASE LeaveAlone \/ EndFrame
  BY <1>6, LeaveAloneDoes, EndFrameDoes DEF Base
<1>7. CASE Ping \/ Submit \/ Begin
  BY <1>7, PingStepDoes, SubmitDoes, BeginStepDoes DEF Base, SameLife
<1>8. CASE IORecv \/ Boot \/ EngineBuilt \/ Take \/ Finish \/ Hang \/ Crash
  BY <1>8, IORecvDoes, BootDoes, EngineBuiltDoes, TakeDoes, FinishDoes, HangDoes, CrashDoes
     DEF Base, SameLogicUi
<1>9. CASE Tick
  BY <1>9, TickDoes DEF Base, SameLife
<1>10. CASE UNCHANGED vars
  BY <1>10 DEF vars
<1> QED  BY StepCases, <1>2, <1>3, <1>4, <1>5, <1>6, <1>7, <1>8, <1>9, <1>10

LEMMA SceneStays == ASSUME [Next]_vars PROVE scene' = scene
BY DEF Next, vars, Steps, Tick, UIFrame, Reap, Drain, Spawn, Kill, LeaveAlone, Ping, Submit, EndFrame,
       Begin, Sent, IORecv, Work, Boot, EngineBuilt, Take, Finish, Hang, Crash

(* HealthyIsSpared: where every scene keeps within its times, update()     *)
(* asks for a kill only of a worker that hangs; however many sources and   *)
(* frames queue up, however long the UI pauses between frames or waits to  *)
(* send.                                                                   *)
THEOREM OnlyTheHungAreKilled ==
  ASSUME \A s \in Scenes : KeepsWithinTimes(s)
  PROVE  Spec => HealthyIsSpared
<1> DEFINE Inv == Base /\ Punctual /\ Spared
           Kills == ~ logic.killing /\ logic'.killing => worker.hung
<1>1. Init => Inv
  <2>1. SUFFICES ASSUME Init PROVE Inv
    OBVIOUS
  <2>2. Base /\ ~ Alive
    BY <2>1, StartBase DEF Init, NoWorker, Alive
  <2>3. ~ logic.spawned
    BY <2>1 DEF Init, Sup!Start, Sup!InitialLogic
  <2> QED  BY <2>2, <2>3 DEF Punctual, Spared
<1>2. Inv /\ [Next]_vars => Inv'
  <2>1. SUFFICES ASSUME Inv, [Next]_vars PROVE Inv'
    OBVIOUS
  <2>2. scene \in Scenes /\ scene' = scene
    BY <2>1, SceneStays DEF Base, Shape
  <2>3. KeepsWithinTimes(scene) /\ KeepsWithinTimes(scene')
    BY <2>2
  <2>4. Base'
    BY <2>1, BaseStep
  <2>5. Punctual'
    BY <2>1, <2>3, <2>4, PunctualStep
  <2>6. Spared'
    BY <2>1, <2>3, <2>4, <2>5, SparedStep
  <2> QED  BY <2>4, <2>5, <2>6
<1>3. Inv /\ [Next]_vars => [Kills]_vars
  BY KillIsDeserved
<1> QED  BY <1>1, <1>2, <1>3, PTL DEF Spec, HealthyIsSpared
=============================================================================
