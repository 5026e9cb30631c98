----------------------- MODULE SupervisorLogic_proofs -----------------------
(***************************************************************************)
(* Proofs about SupervisorLogic, for every configuration of the policy and *)
(* every set of slides: type correctness, the shape of a dead worker, that *)
(* the supervisor is never stuck, the bound on the respawn delay, that the *)
(* policy implements WorkerLifecycle, and the two rules of CrashStorm: the *)
(* cutoff is exact and the backoff is applied.                             *)
(***************************************************************************)
EXTENDS CrashStorm, ProofLemmas

USE SlidesAssumption, ConfigAssumption, BoundAssumption

-----------------------------------------------------------------------------
(* Lemmas about the operators. *)

LEMMA InitialLogicType == InitialLogic \in Logic
  BY DEF InitialLogic, Logic, Time

(* The backoff is a number of ticks between 0 and the cap.                 *)
LEMMA BackoffBounded ==
  ASSUME NEW l, l.backoff_index \in Nat
  PROVE  BackoffDelay(l) \in 0..BackoffMax
<1> DEFINE shift == IF l.backoff_index - 1 < 30 THEN l.backoff_index - 1 ELSE 30
           doubled == 2^shift * Second
<1>1. CASE l.backoff_index = 0
  BY <1>1 DEF BackoffDelay
<1>2. CASE l.backoff_index # 0
  <2>1. shift \in 0..30
    BY <1>2
  <2>2. 2^shift \in Nat
    BY <2>1, ShiftAssumption
  <2>3. doubled \in Nat
    BY <2>2
  <2>4. BackoffDelay(l) = IF doubled < BackoffMax THEN doubled ELSE BackoffMax
    BY <1>2 DEF BackoffDelay
  <2> HIDE DEF doubled
  <2>5. QED
    BY <2>3, <2>4
<1>3. QED
  BY <1>1, <1>2

(* Pruning the crash record keeps it a sequence of times, no longer.       *)
LEMMA PruneType ==
  ASSUME NEW times \in Seq(Time), NEW limit \in Int
  PROVE  /\ PopOlderThan(times, limit) \in Seq(Time)
         /\ Len(PopOlderThan(times, limit)) <= Len(times)
<1> DEFINE old == {i \in 1..Len(times) : times[i] < limit}
<1>1. IsFiniteSet(old) /\ Cardinality(old) <= Len(times)
  <2>1. IsFiniteSet(1..Len(times)) /\ Cardinality(1..Len(times)) = Len(times)
    <3>1. Len(times) \in Nat
      OBVIOUS
    <3>2. QED
      BY <3>1, FS_Interval
  <2>2. QED
    BY <2>1, FS_Subset
<1>2. Cardinality(old) \in Nat
  BY <1>1, FS_CardinalityType
<1> DEFINE k == Cardinality(old)
<1> HIDE DEF old
<1>3. PopOlderThan(times, limit) = SubSeq(times, k + 1, Len(times))
  BY DEF PopOlderThan, old
<1>4. SubSeq(times, k + 1, Len(times)) \in Seq(Time)
      /\ Len(SubSeq(times, k + 1, Len(times))) <= Len(times)
  <2> HIDE DEF k
  <2>1. QED
    BY <1>1, <1>2 DEF k
<1>5. QED
  BY <1>3, <1>4

(* Disarming a generation clears what it left outstanding and no more.     *)
LEMMA DisarmedEffect ==
  ASSUME NEW l \in Logic
  PROVE  LET d == Disarmed(l)
         IN  /\ d \in Logic
             /\ d.started = l.started /\ d.gave_up = l.gave_up
             /\ d.spawn_pending = l.spawn_pending
             /\ d.spawned = l.spawned
             /\ d.restart_requested = l.restart_requested
             /\ d.crash_times = l.crash_times
             /\ ~ d.handshake /\ ~ d.killing /\ ~ d.ping_outstanding
             /\ ~ d.frame_outstanding /\ ~ d.compile_busy
             /\ d.compiles_pending = 0
<1> USE DEF Disarmed, Logic
<1>1. Disarmed(l) \in Logic
  OBVIOUS
<1>2. /\ Disarmed(l).started = l.started /\ Disarmed(l).gave_up = l.gave_up
      /\ Disarmed(l).spawn_pending = l.spawn_pending
      /\ Disarmed(l).spawned = l.spawned
      /\ Disarmed(l).restart_requested = l.restart_requested
      /\ Disarmed(l).crash_times = l.crash_times
  OBVIOUS
<1>3. /\ ~ Disarmed(l).handshake /\ ~ Disarmed(l).killing
      /\ ~ Disarmed(l).ping_outstanding /\ ~ Disarmed(l).frame_outstanding
      /\ ~ Disarmed(l).compile_busy /\ Disarmed(l).compiles_pending = 0
  OBVIOUS
<1>4. QED
  BY <1>1, <1>2, <1>3

(* Burying a generation disarms everything it left outstanding.            *)
LEMMA BuriedEffect ==
  ASSUME NEW l \in Logic
  PROVE  /\ Buried(l) \in Logic
         /\ Buried(l).started = l.started /\ Buried(l).gave_up = l.gave_up
         /\ Buried(l).spawn_pending = l.spawn_pending
         /\ ~ Buried(l).spawned /\ ~ Buried(l).handshake /\ ~ Buried(l).killing
         /\ ~ Buried(l).restart_requested /\ ~ Buried(l).ping_outstanding
         /\ ~ Buried(l).frame_outstanding /\ ~ Buried(l).compile_busy
         /\ Buried(l).compiles_pending = 0
<1> DEFINE d == Disarmed(l)
<1>1. /\ d \in Logic
      /\ d.started = l.started /\ d.gave_up = l.gave_up
      /\ d.spawn_pending = l.spawn_pending
      /\ ~ d.handshake /\ ~ d.killing /\ ~ d.ping_outstanding
      /\ ~ d.frame_outstanding /\ ~ d.compile_busy /\ d.compiles_pending = 0
  BY DisarmedEffect
<1> DEFINE poison == IF l.compile_busy THEN l.busy_slide ELSE d.poisoned_slide
<1>2. poison \in Slides \cup {NoSlide}
  BY <1>1 DEF Logic
<1>3. Buried(l) = [d EXCEPT !.spawned = FALSE, !.restart_requested = FALSE,
                            !.poisoned_slide = poison]
  BY DEF Buried
<1> HIDE DEF d, poison
<1>4. Buried(l) \in Logic
  BY <1>1, <1>2, <1>3 DEF Logic
<1>5. QED
  BY <1>1, <1>3, <1>4 DEF Logic

(* Being born disarms too, and starts the generation's clocks.             *)
LEMMA SpawnedEffect ==
  ASSUME NEW l \in Logic, NEW t \in Time
  PROVE  LET b == OnSpawned(l, t)
         IN  /\ b \in Logic
             /\ b.started = l.started /\ b.gave_up = l.gave_up
             /\ b.restart_requested = l.restart_requested
             /\ b.crash_times = l.crash_times
             /\ b.spawned /\ ~ b.spawn_pending /\ ~ b.killing
<1> DEFINE d == Disarmed(l)
<1>1. /\ d \in Logic
      /\ d.started = l.started /\ d.gave_up = l.gave_up /\ ~ d.killing
      /\ d.restart_requested = l.restart_requested
      /\ d.crash_times = l.crash_times
  BY DisarmedEffect
<1>2. OnSpawned(l, t) = [d EXCEPT !.spawned = TRUE, !.spawn_pending = FALSE,
                                  !.spawned_at = t, !.last_ping_time = t]
  BY DEF OnSpawned
<1> HIDE DEF d
<1>3. OnSpawned(l, t) \in Logic
  BY <1>1, <1>2 DEF Logic, Time
<1>4. QED
  BY <1>1, <1>2, <1>3 DEF Logic

(* Every other method maps the record type to itself.                      *)
LEMMA MethodTypes ==
  ASSUME NEW l \in Logic, NEW t \in Time, NEW s \in Slides \cup {NoSlide}
  PROVE  /\ Start(l, t) \in Logic
         /\ OnHandshake(l) \in Logic
         /\ OnPingSent(l, t) \in Logic
         /\ OnPong(l) \in Logic
         /\ OnFrameBeginSent(l, t) \in Logic
         /\ OnFrameDone(l) \in Logic
         /\ OnCompileSubmitted(l, t) \in Logic
         /\ OnCompileBusy(l, s, t) \in Logic
         /\ OnCompileResult(l, s, t) \in Logic
         /\ RequestRestart(l, t) \in Logic
         /\ TakePoisonedSlide(l) \in Logic
         /\ \A e \in BOOLEAN : Update(l, t, e) \in Logic
<1> USE DEF Logic, Time
<1>1. Start(l, t) \in Logic
  BY DEF Start
<1>2. OnHandshake(l) \in Logic /\ OnPingSent(l, t) \in Logic /\ OnPong(l) \in Logic
  BY DEF OnHandshake, OnPingSent, OnPong
<1>3. OnFrameBeginSent(l, t) \in Logic /\ OnFrameDone(l) \in Logic
  BY DEF OnFrameBeginSent, OnFrameDone
<1>4. OnCompileSubmitted(l, t) \in Logic /\ OnCompileBusy(l, s, t) \in Logic
  <2> DEFINE wait == IF l.compiles_pending = 0 THEN t ELSE l.compile_wait_since
             count == l.compiles_pending + 1
  <2>1. wait \in Nat /\ count \in Nat
    OBVIOUS
  <2>2. OnCompileSubmitted(l, t) = [l EXCEPT !.compile_wait_since = wait,
                                             !.compiles_pending = count]
    BY Zenon DEF OnCompileSubmitted
  <2> HIDE DEF wait, count
  <2>3. OnCompileSubmitted(l, t) \in Logic
    BY <2>1, <2>2
  <2> DEFINE mid == [l EXCEPT !.compile_busy = TRUE, !.busy_slide = s]
  <2>4. mid \in Logic
    OBVIOUS
  <2>5. OnCompileBusy(l, s, t)
          = [mid EXCEPT !.compile_since = t, !.compile_wait_since = t]
    BY Zenon DEF OnCompileBusy
  <2> HIDE DEF mid
  <2>6. OnCompileBusy(l, s, t) \in Logic
    BY <2>4, <2>5
  <2>7. QED
    BY <2>3, <2>6
<1>5. OnCompileResult(l, s, t) \in Logic
  <2> DEFINE answers == l.compile_busy /\ s = l.busy_slide
             left == IF l.compiles_pending > 0 THEN l.compiles_pending - 1
                     ELSE l.compiles_pending
             busy == IF answers THEN FALSE ELSE l.compile_busy
             slide == IF answers THEN NoSlide ELSE l.busy_slide
             sent == IF l.frame_outstanding THEN t ELSE l.frame_sent
  <2>1. left \in Nat /\ slide \in Slides \cup {NoSlide} /\ sent \in Nat
    OBVIOUS
  <2>2. busy \in BOOLEAN
    OBVIOUS
  <2>3. OnCompileResult(l, s, t)
          = [l EXCEPT !.compiles_pending = left, !.compile_wait_since = t,
                      !.compile_busy = busy, !.busy_slide = slide,
                      !.frame_sent = sent]
    BY Zenon DEF OnCompileResult
  <2> HIDE DEF left, busy, slide, sent
  <2> DEFINE mid == [l EXCEPT !.compiles_pending = left, !.compile_wait_since = t]
  <2>4. mid \in Logic
    BY <2>1
  <2>5. OnCompileResult(l, s, t)
          = [mid EXCEPT !.compile_busy = busy, !.busy_slide = slide,
                        !.frame_sent = sent]
    BY Zenon, <2>3
  <2> HIDE DEF mid
  <2>6. QED
    BY <2>1, <2>2, <2>4, <2>5
<1>6. RequestRestart(l, t) \in Logic
  <2> DEFINE clean == [l EXCEPT !.gave_up = FALSE, !.crash_times = <<>>,
                                !.backoff_index = 0]
  <2> DEFINE none == <<>>
  <2>a. none \in Seq(Time)
    OBVIOUS
  <2>b. clean = [l EXCEPT !.gave_up = FALSE, !.crash_times = none,
                          !.backoff_index = 0]
    OBVIOUS
  <2> HIDE DEF none, clean
  <2>1. clean \in Logic
    BY <2>a, <2>b
  <2>2. \/ RequestRestart(l, t) = l
        \/ RequestRestart(l, t) = [clean EXCEPT !.restart_requested = TRUE]
        \/ RequestRestart(l, t) = [clean EXCEPT !.spawn_pending = TRUE, !.spawn_time = t]
    BY Zenon DEF RequestRestart, clean
  <2>3. [clean EXCEPT !.restart_requested = TRUE] \in Logic
    BY <2>1
  <2>4. [clean EXCEPT !.spawn_pending = TRUE, !.spawn_time = t] \in Logic
    BY <2>1
  <2>5. QED
    BY Zenon, <2>2, <2>3, <2>4
<1>7. TakePoisonedSlide(l) \in Logic
  BY DEF TakePoisonedSlide
<1>8. \A e \in BOOLEAN : Update(l, t, e) \in Logic
  BY DEF Update
<1>9. QED
  BY <1>1, <1>2, <1>3, <1>4, <1>5, <1>6, <1>7, <1>8

(* What an exit does to a live worker: the generation is buried, the crash *)
(* record has at most one entry more, and the worker is either given up or *)
(* waited for, for no longer than the cap.                                 *)
LEMMA ExitEffect ==
  ASSUME NEW l \in Logic, NEW t \in Time, l.spawned,
         Len(l.crash_times) <= StormCount
  PROVE  LET d == OnWorkerExit(l, t)
         IN  /\ d \in Logic
             /\ d.started = l.started
             /\ ~ d.spawned /\ ~ d.handshake /\ ~ d.killing
             /\ ~ d.restart_requested /\ ~ d.ping_outstanding
             /\ ~ d.frame_outstanding /\ ~ d.compile_busy
             /\ d.compiles_pending = 0
             /\ Len(d.crash_times) <= Len(l.crash_times) + 1
             /\ \/ /\ d.gave_up /\ d.spawn_pending = l.spawn_pending
                   /\ Len(d.crash_times) = StormCount + 1
                \/ /\ d.gave_up = l.gave_up /\ d.spawn_pending
                   /\ Len(d.crash_times) <= StormCount
                   /\ d.spawn_time <= t + BackoffMax
<1> DEFINE stable  == t - l.spawned_at >= StormWindow
           index   == IF stable THEN 0 ELSE l.backoff_index
           record  == Append(IF stable THEN <<>> ELSE l.crash_times, t)
           crashes == PopOlderThan(record, t - StormWindow)
           dead    == [Buried(l) EXCEPT !.crash_times = crashes, !.backoff_index = index]
           final   == IF Len(crashes) > StormCount THEN [dead EXCEPT !.gave_up = TRUE]
                      ELSE [dead EXCEPT !.spawn_time = t + BackoffDelay(dead),
                                        !.backoff_index = index + 1,
                                        !.spawn_pending = TRUE]
<1>1. OnWorkerExit(l, t) = final
  BY DEF OnWorkerExit
<1>2. /\ record \in Seq(Time) /\ index \in Nat /\ t - StormWindow \in Int
      /\ Len(record) <= Len(l.crash_times) + 1
  BY DEF Logic, Time
<1>3. /\ crashes \in Seq(Time)
      /\ Len(crashes) <= Len(l.crash_times) + 1
  <2> HIDE DEF record
  <2>1. crashes \in Seq(Time) /\ Len(crashes) <= Len(record)
    BY <1>2, PruneType
  <2>2. Len(record) \in Nat /\ Len(crashes) \in Nat /\ Len(l.crash_times) \in Nat
    BY <1>2, <2>1 DEF Logic
  <2>3. QED
    BY <1>2, <2>1, <2>2
<1> HIDE DEF crashes, index
<1>4. /\ Buried(l) \in Logic
      /\ Buried(l).started = l.started /\ Buried(l).gave_up = l.gave_up
      /\ Buried(l).spawn_pending = l.spawn_pending
      /\ ~ Buried(l).spawned /\ ~ Buried(l).handshake /\ ~ Buried(l).killing
      /\ ~ Buried(l).restart_requested /\ ~ Buried(l).ping_outstanding
      /\ ~ Buried(l).frame_outstanding /\ ~ Buried(l).compile_busy
      /\ Buried(l).compiles_pending = 0
  BY BuriedEffect
<1>5. /\ dead \in Logic
      /\ dead.crash_times = crashes /\ dead.backoff_index = index
      /\ dead.started = l.started /\ dead.gave_up = l.gave_up
      /\ dead.spawn_pending = l.spawn_pending
      /\ ~ dead.spawned /\ ~ dead.handshake /\ ~ dead.killing
      /\ ~ dead.restart_requested /\ ~ dead.ping_outstanding
      /\ ~ dead.frame_outstanding /\ ~ dead.compile_busy
      /\ dead.compiles_pending = 0
  BY <1>2, <1>3, <1>4 DEF Logic
<1> HIDE DEF dead
<1>6. BackoffDelay(dead) \in 0..BackoffMax
  BY <1>2, <1>5, BackoffBounded
<1>7. Len(crashes) \in Nat
  BY <1>3
<1>8. CASE Len(crashes) > StormCount
  <2>1. final = [dead EXCEPT !.gave_up = TRUE]
    BY <1>8
  <2>2. Len(crashes) = StormCount + 1
    BY <1>3, <1>7, <1>8 DEF Logic
  <2> HIDE DEF final
  <2>3. /\ final \in Logic
        /\ final.crash_times = crashes /\ final.gave_up
        /\ final.started = l.started /\ final.spawn_pending = l.spawn_pending
    BY <1>5, <2>1 DEF Logic
  <2>4. /\ ~ final.spawned /\ ~ final.handshake /\ ~ final.killing
        /\ ~ final.restart_requested /\ ~ final.ping_outstanding
        /\ ~ final.frame_outstanding /\ ~ final.compile_busy
        /\ final.compiles_pending = 0
    BY <1>5, <2>1 DEF Logic
  <2>5. QED
    BY <1>1, <1>3, <2>2, <2>3, <2>4
<1>9. CASE ~ (Len(crashes) > StormCount)
  <2>1. final = [dead EXCEPT !.spawn_time = t + BackoffDelay(dead),
                             !.backoff_index = index + 1, !.spawn_pending = TRUE]
    BY <1>9
  <2>2. t + BackoffDelay(dead) \in Time /\ t + BackoffDelay(dead) <= t + BackoffMax
    BY <1>6 DEF Time
  <2>3. Len(crashes) <= StormCount
    BY <1>7, <1>9
  <2> HIDE DEF final
  <2>4. /\ final \in Logic
        /\ final.crash_times = crashes /\ final.spawn_pending
        /\ final.spawn_time = t + BackoffDelay(dead)
        /\ final.started = l.started /\ final.gave_up = l.gave_up
    <3>1. index + 1 \in Nat
      BY <1>2
    <3> DEFINE wake == t + BackoffDelay(dead)
               next == index + 1
    <3>2. wake \in Time /\ next \in Nat
      BY <2>2, <3>1
    <3>3. final = [dead EXCEPT !.spawn_time = wake, !.backoff_index = next,
                               !.spawn_pending = TRUE]
      BY <2>1
    <3> HIDE DEF wake, next
    <3>4. /\ final \in Logic
          /\ final.crash_times = dead.crash_times /\ final.spawn_pending
          /\ final.spawn_time = wake
          /\ final.started = dead.started /\ final.gave_up = dead.gave_up
      BY <1>5, <3>2, <3>3 DEF Logic
    <3>5. QED
      BY <1>5, <3>4 DEF wake
  <2>5. /\ ~ final.spawned /\ ~ final.handshake /\ ~ final.killing
        /\ ~ final.restart_requested /\ ~ final.ping_outstanding
        /\ ~ final.frame_outstanding /\ ~ final.compile_busy
        /\ final.compiles_pending = 0
    BY <1>5, <2>1 DEF Logic
  <2>6. QED
    BY <1>1, <1>3, <2>2, <2>3, <2>4, <2>5
<1>10. QED
  BY <1>8, <1>9

-----------------------------------------------------------------------------
(* The inductive invariant.  NeverStuck speaks of a started supervisor     *)
(* only, and bounds the crash record only once it has given up; the steps  *)
(* need what is true before the start, and that a supervisor that has not  *)
(* given up has room for one crash more before it must.                    *)

BeforeStart ==
  ~ logic.started => ~ logic.spawned /\ ~ logic.gave_up /\ action # "Spawn"

CrashRecord == ~ logic.gave_up => Len(logic.crash_times) <= StormCount

IInv ==
  /\ TypeOK /\ DeadIsQuiet /\ NeverStuck /\ RespawnWithinCap
  /\ BeforeStart /\ CrashRecord

(* What the methods that only carry traffic leave alone.                   *)
SameLife(l, m) ==
  /\ m.started = l.started /\ m.spawned = l.spawned /\ m.killing = l.killing
  /\ m.gave_up = l.gave_up /\ m.spawn_pending = l.spawn_pending
  /\ m.spawn_time = l.spawn_time /\ m.crash_times = l.crash_times
  /\ m.spawned_at = l.spawned_at /\ m.backoff_index = l.backoff_index

LEMMA TrafficMethods ==
  ASSUME NEW l \in Logic, NEW t \in Time, NEW s \in Slides \cup {NoSlide}
  PROVE  /\ SameLife(l, OnHandshake(l))
         /\ SameLife(l, OnPingSent(l, t))
         /\ SameLife(l, OnPong(l))
         /\ SameLife(l, OnFrameBeginSent(l, t))
         /\ SameLife(l, OnFrameDone(l))
         /\ SameLife(l, OnCompileSubmitted(l, t))
         /\ SameLife(l, OnCompileBusy(l, s, t))
         /\ SameLife(l, OnCompileResult(l, s, t))
         /\ SameLife(l, TakePoisonedSlide(l))
<1> USE DEF SameLife, Logic
<1>1. SameLife(l, OnHandshake(l)) /\ SameLife(l, OnPong(l))
  BY DEF OnHandshake, OnPong
<1>2. SameLife(l, OnPingSent(l, t))
  BY DEF OnPingSent
<1>3. SameLife(l, OnFrameBeginSent(l, t)) /\ SameLife(l, OnFrameDone(l))
  BY DEF OnFrameBeginSent, OnFrameDone
<1>4. SameLife(l, OnCompileSubmitted(l, t))
  BY DEF OnCompileSubmitted
<1>5. SameLife(l, OnCompileBusy(l, s, t))
  BY DEF OnCompileBusy
<1>6. SameLife(l, OnCompileResult(l, s, t))
  BY DEF OnCompileResult
<1>7. SameLife(l, TakePoisonedSlide(l))
  BY DEF TakePoisonedSlide
<1>8. QED
  BY <1>1, <1>2, <1>3, <1>4, <1>5, <1>6, <1>7

(* A step of the traffic changes nothing of the life cycle.                *)
LEMMA TrafficStep ==
  ASSUME TypeOK, DeadIsQuiet, Traffic
  PROVE  /\ TypeOK' /\ DeadIsQuiet'
         /\ SameLife(logic, logic') /\ UNCHANGED <<now, action>>
<1>1. \E s \in Slides \cup {NoSlide} :
        \/ logic.spawned /\ logic' \in
             { OnHandshake(logic), OnPong(logic), OnFrameDone(logic),
               OnPingSent(logic, now), OnFrameBeginSent(logic, now),
               OnCompileSubmitted(logic, now),
               OnCompileBusy(logic, s, now), OnCompileResult(logic, s, now) }
        \/ logic' = TakePoisonedSlide(logic)
  BY Zenon DEF Traffic, Event, TakePoison, SendPing, ShouldPing, SendFrameBegin,
         SubmitCompile, RecvHelloAck, RecvPong, RecvFrameDone, RecvCompileBusy,
         RecvCompileResult
<1>2. UNCHANGED <<now, action>>
  BY Zenon DEF Traffic, Event, TakePoison, SendPing, SendFrameBegin,
         SubmitCompile, RecvHelloAck, RecvPong, RecvFrameDone, RecvCompileBusy,
         RecvCompileResult
<1>3. logic \in Logic /\ now \in Time
  BY DEF TypeOK
<1>4. logic' \in Logic /\ SameLife(logic, logic')
  BY Zenon, <1>1, <1>3, MethodTypes, TrafficMethods
<1>5. DeadIsQuiet'
  <2>1. CASE logic.spawned
    BY <1>4, <2>1 DEF DeadIsQuiet, SameLife
  <2>2. CASE ~ logic.spawned
    <3>1. logic' = TakePoisonedSlide(logic)
      BY Zenon, <1>1, <2>2
    <3>2. QED
      BY <1>3, <3>1 DEF TakePoisonedSlide, Logic, DeadIsQuiet, Compiling
  <2>3. QED
    BY <2>1, <2>2
<1>6. QED
  BY <1>2, <1>4, <1>5 DEF TypeOK

-----------------------------------------------------------------------------
(* Every action preserves the inductive invariant. *)

LEMMA Initially == Init => IInv
<1> SUFFICES ASSUME Init PROVE IInv
  OBVIOUS
<1>1. TypeOK
  BY InitialLogicType DEF Init, TypeOK, Time, Actions
<1>2. DeadIsQuiet /\ NeverStuck /\ RespawnWithinCap
  BY DEF Init, InitialLogic, DeadIsQuiet, Compiling, NeverStuck, RespawnWithinCap
<1>3. BeforeStart /\ CrashRecord
  <2>1. logic.crash_times = <<>> /\ ~ logic.spawned /\ ~ logic.gave_up
        /\ action # "Spawn"
    BY DEF Init, InitialLogic
  <2>2. QED
    BY <2>1 DEF BeforeStart, CrashRecord
<1>4. QED
  BY <1>1, <1>2, <1>3 DEF IInv

LEMMA TrafficPreserves == ASSUME IInv, Traffic PROVE IInv'
<1>1. /\ TypeOK' /\ DeadIsQuiet'
      /\ SameLife(logic, logic') /\ UNCHANGED <<now, action>>
  BY TrafficStep DEF IInv
<1>2. NeverStuck' /\ RespawnWithinCap' /\ BeforeStart' /\ CrashRecord'
  BY <1>1 DEF IInv, SameLife, NeverStuck, RespawnWithinCap, BeforeStart, CrashRecord
<1>3. QED
  BY <1>1, <1>2 DEF IInv

LEMMA TickPreserves == ASSUME IInv, Tick PROVE IInv'
<1>1. TypeOK' /\ RespawnWithinCap'
  <2>1. now \in Nat /\ logic.spawn_time \in Nat
    BY DEF IInv, TypeOK, Logic, Time
  <2>2. QED
    BY <2>1 DEF IInv, TypeOK, Tick, RespawnWithinCap, Time
<1>2. DeadIsQuiet' /\ NeverStuck' /\ BeforeStart' /\ CrashRecord'
  BY DEF IInv, Tick, DeadIsQuiet, Compiling, NeverStuck, BeforeStart, CrashRecord
<1>3. QED
  BY <1>1, <1>2 DEF IInv

LEMMA StartPreserves == ASSUME IInv, CallStart PROVE IInv'
<1>1. logic \in Logic /\ now \in Time
  BY DEF IInv, TypeOK
<1>2. /\ ~ logic.started /\ action # "Spawn"
      /\ logic' = [logic EXCEPT !.started = TRUE, !.spawn_pending = TRUE,
                                !.spawn_time = now]
      /\ UNCHANGED <<now, action>>
  BY Zenon DEF CallStart, Event, Idle, Start
<1>3. TypeOK'
  BY <1>1, <1>2 DEF IInv, TypeOK, Logic, Time
<1>4. DeadIsQuiet'
  BY <1>1, <1>2 DEF IInv, DeadIsQuiet, Compiling, Logic
<1>5. RespawnWithinCap'
  <2>1. logic'.spawn_time = now
    BY <1>1, <1>2 DEF Logic
  <2>2. now \in Nat /\ now' = now
    BY <1>1, <1>2 DEF Time
  <2>3. QED
    BY <2>1, <2>2 DEF RespawnWithinCap
<1>6. NeverStuck' /\ BeforeStart' /\ CrashRecord'
  BY <1>1, <1>2 DEF IInv, BeforeStart, NeverStuck, CrashRecord, Logic
<1>7. QED
  BY <1>3, <1>4, <1>5, <1>6 DEF IInv

LEMMA UpdatePreserves == ASSUME IInv, CallUpdate PROVE IInv'
<1> DEFINE late == Overdue(logic, now)
<1>1. logic \in Logic /\ now \in Time /\ late \in BOOLEAN
  BY DEF IInv, TypeOK, Overdue
<1>2. /\ action # "Spawn" /\ now' = now
      /\ logic' = Update(logic, now, late)
      /\ action' = UpdateAction(logic, now, late)
  BY DEF CallUpdate, Idle
<1> HIDE DEF late
<1>3. TypeOK'
  <2>1. logic' \in Logic
    BY <1>1, <1>2, MethodTypes
  <2>2. action' \in Actions
    BY <1>2 DEF UpdateAction, Actions
  <2>3. QED
    BY <1>1, <1>2, <2>1, <2>2 DEF TypeOK
<1>4. CASE MaySpawn(logic, now)
  <2>1. /\ logic.started /\ ~ logic.gave_up /\ ~ logic.spawned
        /\ logic' = [logic EXCEPT !.spawn_pending = FALSE] /\ action' = "Spawn"
    BY <1>2, <1>4 DEF Update, UpdateAction, MaySpawn
  <2>2. DeadIsQuiet'
    BY <1>1, <2>1 DEF IInv, DeadIsQuiet, Compiling, Logic
  <2>3. NeverStuck' /\ RespawnWithinCap' /\ BeforeStart' /\ CrashRecord'
    BY <1>1, <2>1 DEF IInv, NeverStuck, RespawnWithinCap, BeforeStart, CrashRecord, Logic
  <2>4. QED
    BY <1>3, <2>2, <2>3 DEF IInv
<1>5. CASE ~ MaySpawn(logic, now) /\ MayKill(logic, late)
  <2>1. /\ logic.started /\ logic.spawned /\ action' = "Kill"
        /\ logic' = [logic EXCEPT !.killing = TRUE, !.restart_requested = FALSE]
    BY <1>2, <1>5 DEF Update, UpdateAction, MayKill
  <2>2. DeadIsQuiet'
    BY <1>1, <2>1 DEF DeadIsQuiet, Logic
  <2>3. NeverStuck' /\ RespawnWithinCap' /\ BeforeStart' /\ CrashRecord'
    BY <1>1, <1>2, <2>1 DEF IInv, NeverStuck, RespawnWithinCap, BeforeStart, CrashRecord, Logic
  <2>4. QED
    BY <1>3, <2>2, <2>3 DEF IInv
<1>6. CASE ~ MaySpawn(logic, now) /\ ~ MayKill(logic, late)
  <2>1. logic' = logic /\ action' = "None"
    BY <1>2, <1>6 DEF Update, UpdateAction
  <2>2. QED
    BY <1>2, <1>3, <2>1 DEF IInv, DeadIsQuiet, Compiling, NeverStuck,
       RespawnWithinCap, BeforeStart, CrashRecord
<1>7. QED
  BY <1>4, <1>5, <1>6

(* A death, at birth or later, leaves a supervisor that waits or gave up.  *)
LEMMA DeathPreserves ==
  ASSUME NEW l \in Logic, l.spawned, l.started, ~ l.gave_up, ~ l.spawn_pending,
         Len(l.crash_times) <= StormCount, now \in Time,
         logic' = OnWorkerExit(l, now), now' = now, action' = "None"
  PROVE  IInv'
<1>1. /\ logic' \in Logic /\ logic'.started
      /\ ~ logic'.spawned /\ ~ logic'.handshake /\ ~ logic'.killing
      /\ ~ logic'.restart_requested /\ ~ logic'.ping_outstanding
      /\ ~ logic'.frame_outstanding /\ ~ logic'.compile_busy
      /\ logic'.compiles_pending = 0
      /\ \/ /\ logic'.gave_up /\ ~ logic'.spawn_pending
            /\ Len(logic'.crash_times) = StormCount + 1
         \/ /\ ~ logic'.gave_up /\ logic'.spawn_pending
            /\ Len(logic'.crash_times) <= StormCount
            /\ logic'.spawn_time <= now + BackoffMax
  <2> DEFINE d == OnWorkerExit(l, now)
  <2>1. /\ d \in Logic /\ d.started = l.started
        /\ ~ d.spawned /\ ~ d.handshake /\ ~ d.killing
        /\ ~ d.restart_requested /\ ~ d.ping_outstanding
        /\ ~ d.frame_outstanding /\ ~ d.compile_busy /\ d.compiles_pending = 0
        /\ \/ /\ d.gave_up /\ d.spawn_pending = l.spawn_pending
              /\ Len(d.crash_times) = StormCount + 1
           \/ /\ d.gave_up = l.gave_up /\ d.spawn_pending
              /\ Len(d.crash_times) <= StormCount
              /\ d.spawn_time <= now + BackoffMax
    BY Zenon, ExitEffect
  <2> HIDE DEF d
  <2>2. logic' = d
    BY DEF d
  <2>3. QED
    BY <2>1, <2>2
<1>2. TypeOK' /\ DeadIsQuiet'
  BY <1>1 DEF TypeOK, Actions, DeadIsQuiet, Compiling
<1>3. NeverStuck' /\ RespawnWithinCap' /\ BeforeStart' /\ CrashRecord'
  BY <1>1 DEF NeverStuck, RespawnWithinCap, BeforeStart, CrashRecord
<1>4. QED
  BY <1>2, <1>3 DEF IInv

LEMMA SpawnPreserves == ASSUME IInv, SpawnWorker PROVE IInv'
<1>1. /\ logic \in Logic /\ now \in Time /\ action = "Spawn"
      /\ now' = now /\ action' = "None"
      /\ \/ logic' = OnSpawned(logic, now)
         \/ logic' = OnWorkerExit(OnSpawned(logic, now), now)
  BY DEF IInv, TypeOK, SpawnWorker
<1>2. /\ logic.started /\ ~ logic.spawned /\ ~ logic.gave_up
      /\ Len(logic.crash_times) <= StormCount
  BY <1>1 DEF IInv, BeforeStart, NeverStuck, CrashRecord
<1> DEFINE b == OnSpawned(logic, now)
<1>3. /\ b \in Logic /\ b.started /\ ~ b.gave_up
      /\ b.crash_times = logic.crash_times
      /\ b.spawned /\ ~ b.spawn_pending
  BY <1>1, <1>2, SpawnedEffect
<1> HIDE DEF b
<1>4. CASE logic' = b
  BY <1>1, <1>2, <1>3, <1>4 DEF IInv, TypeOK, Actions, DeadIsQuiet, NeverStuck,
     RespawnWithinCap, BeforeStart, CrashRecord
<1>5. CASE logic' = OnWorkerExit(b, now)
  <2>1. Len(b.crash_times) <= StormCount
    BY <1>2, <1>3
  <2>2. QED
    BY <1>1, <1>3, <1>5, <2>1, DeathPreserves
<1>6. QED
  BY <1>1, <1>4, <1>5 DEF b

LEMMA ExitPreserves == ASSUME IInv, WorkerExit PROVE IInv'
<1>1. /\ logic \in Logic /\ now \in Time /\ logic.spawned
      /\ now' = now /\ action' = "None"
      /\ logic' = OnWorkerExit(logic, now)
  BY DEF IInv, TypeOK, WorkerExit
<1>2. /\ logic.started /\ ~ logic.gave_up /\ ~ logic.spawn_pending
      /\ Len(logic.crash_times) <= StormCount
  BY <1>1 DEF IInv, BeforeStart, NeverStuck, CrashRecord
<1>3. QED
  BY <1>1, <1>2, DeathPreserves

LEMMA RestartPreserves == ASSUME IInv, Restart PROVE IInv'
<1>1. /\ logic \in Logic /\ now \in Time /\ logic.started
      /\ UNCHANGED <<now, action>> /\ action # "Spawn"
      /\ logic' = RequestRestart(logic, now)
  BY DEF IInv, TypeOK, Restart, Event, Idle
<1>2. logic' \in Logic
  BY <1>1, MethodTypes
<1> DEFINE none == <<>>
<1>3. Len(none) = 0
  OBVIOUS
<1> HIDE DEF none
<1>4. CASE logic.spawned
  <2>1. logic' = [[logic EXCEPT !.gave_up = FALSE, !.crash_times = none,
                                !.backoff_index = 0]
                   EXCEPT !.restart_requested = TRUE]
    BY Zenon, <1>1, <1>4 DEF RequestRestart, none
  <2>2. /\ logic'.started /\ logic'.spawned /\ ~ logic'.gave_up
        /\ logic'.spawn_pending = logic.spawn_pending
        /\ logic'.crash_times = none
    BY <1>1, <1>4, <2>1 DEF Logic
  <2>3. TypeOK' /\ DeadIsQuiet'
    BY <1>1, <1>2, <2>2 DEF IInv, TypeOK, DeadIsQuiet
  <2>4. NeverStuck' /\ RespawnWithinCap' /\ BeforeStart' /\ CrashRecord'
    BY <1>1, <1>3, <1>4, <2>2 DEF IInv, NeverStuck, RespawnWithinCap, BeforeStart, CrashRecord
  <2>5. QED
    BY <2>3, <2>4 DEF IInv
<1>5. CASE ~ logic.spawned
  <2> DEFINE clean == [logic EXCEPT !.gave_up = FALSE, !.crash_times = none,
                                    !.backoff_index = 0]
  <2>1. logic' = [clean EXCEPT !.spawn_pending = TRUE, !.spawn_time = now]
    BY Zenon, <1>1, <1>5 DEF RequestRestart, none
  <2>2. /\ logic'.started /\ ~ logic'.spawned /\ ~ logic'.gave_up
        /\ logic'.spawn_pending /\ logic'.spawn_time = now
        /\ logic'.crash_times = none
    BY <1>1, <1>5, <2>1 DEF Logic
  <2>3. DeadIsQuiet'
    BY <1>1, <1>5, <2>1 DEF IInv, DeadIsQuiet, Compiling, Logic
  <2>4. TypeOK' /\ NeverStuck' /\ RespawnWithinCap' /\ BeforeStart' /\ CrashRecord'
    BY <1>1, <1>2, <1>3, <2>2 DEF IInv, TypeOK, NeverStuck, RespawnWithinCap,
       BeforeStart, CrashRecord, Time
  <2>5. QED
    BY <2>3, <2>4 DEF IInv
<1>6. QED
  BY <1>4, <1>5

LEMMA StepPreserves == ASSUME IInv, [Next]_vars PROVE IInv'
<1>1. CASE Traffic
  BY <1>1, TrafficPreserves
<1>2. CASE Lifecycle
  BY <1>2, StartPreserves, UpdatePreserves, SpawnPreserves, ExitPreserves,
     RestartPreserves, TickPreserves DEF Lifecycle
<1>3. CASE UNCHANGED vars
  BY <1>3 DEF vars, IInv, TypeOK, DeadIsQuiet, Compiling, NeverStuck,
     RespawnWithinCap, BeforeStart, CrashRecord
<1>4. QED
  BY <1>1, <1>2, <1>3 DEF Next

-----------------------------------------------------------------------------
(* The theorems. *)

LEMMA Invariance == Spec => []IInv
<1>1. QED
  BY Initially, StepPreserves, PTL DEF Spec

(* The policy object keeps its shape, whatever the order of the calls.     *)
THEOREM TypeCorrect == Spec => []TypeOK
<1>1. IInv => TypeOK
  BY DEF IInv
<1>2. QED
  BY <1>1, Invariance, PTL

(* Nothing of a dead generation is armed (onWorkerExit, onSpawned).        *)
THEOREM DeadWorkerIsQuiet == Spec => []DeadIsQuiet
<1>1. IInv => DeadIsQuiet
  BY DEF IInv
<1>2. QED
  BY <1>1, Invariance, PTL

(* A started supervisor has a worker, or one spawn armed or owed, or has   *)
(* given up with one crash more than the storm count on record.            *)
THEOREM SupervisorNeverStuck == Spec => []NeverStuck
<1>1. IInv => NeverStuck
  BY DEF IInv
<1>2. QED
  BY <1>1, Invariance, PTL

(* The armed respawn is at most the backoff cap away (backoffDelay).       *)
THEOREM RespawnBounded == Spec => []RespawnWithinCap
<1>1. IInv => RespawnWithinCap
  BY DEF IInv
<1>2. QED
  BY <1>1, Invariance, PTL

-----------------------------------------------------------------------------
(* Refinement: every step of the policy is a step of WorkerLifecycle, or   *)
(* changes neither the phase nor the length of the crash record.           *)

LifeVars == <<phase, Len(logic.crash_times)>>

LEMMA AbstractInit == Init => Life!Init
<1> SUFFICES ASSUME Init PROVE Life!Init
  OBVIOUS
<1>1. ~ logic.started /\ logic.crash_times = <<>>
  BY DEF Init, InitialLogic
<1>2. QED
  BY <1>1 DEF Life!Init, phase

LEMMA AbstractTraffic ==
  ASSUME IInv, Traffic PROVE UNCHANGED LifeVars
<1>1. SameLife(logic, logic') /\ UNCHANGED <<now, action>>
  BY TrafficStep DEF IInv
<1>2. QED
  BY <1>1 DEF SameLife, LifeVars, phase

LEMMA AbstractStart == ASSUME IInv, CallStart PROVE Life!Arm
<1>1. /\ logic \in Logic /\ ~ logic.started /\ action # "Spawn"
      /\ logic' = [logic EXCEPT !.started = TRUE, !.spawn_pending = TRUE,
                                !.spawn_time = now]
      /\ action' = action
  BY Zenon DEF IInv, TypeOK, CallStart, Event, Idle, Start
<1>2. ~ logic.spawned /\ ~ logic.gave_up
  BY <1>1 DEF IInv, BeforeStart
<1>3. /\ logic'.started /\ ~ logic'.spawned /\ ~ logic'.gave_up
      /\ logic'.spawn_pending /\ logic'.crash_times = logic.crash_times
  BY <1>1, <1>2 DEF Logic
<1>4. QED
  BY <1>1, <1>3 DEF Life!Arm, phase

LEMMA AbstractUpdate ==
  ASSUME IInv, CallUpdate
  PROVE  Life!EmitSpawn \/ Life!EmitKill \/ UNCHANGED LifeVars
<1> DEFINE late == Overdue(logic, now)
<1>1. /\ logic \in Logic /\ action # "Spawn"
      /\ logic' = Update(logic, now, late)
      /\ action' = UpdateAction(logic, now, late)
  BY DEF IInv, TypeOK, CallUpdate, Idle
<1> HIDE DEF late
<1>2. CASE MaySpawn(logic, now)
  <2>1. /\ logic.started /\ ~ logic.gave_up /\ ~ logic.spawned
        /\ logic.spawn_pending
        /\ logic' = [logic EXCEPT !.spawn_pending = FALSE] /\ action' = "Spawn"
    BY <1>1, <1>2 DEF Update, UpdateAction, MaySpawn
  <2>2. /\ logic'.started /\ ~ logic'.gave_up /\ ~ logic'.spawned
        /\ logic'.crash_times = logic.crash_times
    BY <1>1, <2>1 DEF Logic
  <2>3. Life!EmitSpawn
    BY <1>1, <2>1, <2>2 DEF Life!EmitSpawn, phase
  <2>4. QED
    BY <2>3
<1>3. CASE ~ MaySpawn(logic, now) /\ MayKill(logic, late)
  <2>1. /\ logic.started /\ ~ logic.gave_up /\ logic.spawned /\ ~ logic.killing
        /\ logic' = [logic EXCEPT !.killing = TRUE, !.restart_requested = FALSE]
    BY <1>1, <1>3 DEF Update, UpdateAction, MayKill
  <2>2. /\ logic'.started /\ ~ logic'.gave_up /\ logic'.spawned
        /\ logic'.killing /\ logic'.crash_times = logic.crash_times
    BY <1>1, <2>1 DEF Logic
  <2>3. Life!EmitKill
    BY <1>1, <2>1, <2>2 DEF Life!EmitKill, phase
  <2>4. QED
    BY <2>3
<1>4. CASE ~ MaySpawn(logic, now) /\ ~ MayKill(logic, late)
  <2>1. logic' = logic /\ action' = "None"
    BY <1>1, <1>4 DEF Update, UpdateAction
  <2>2. QED
    BY <1>1, <2>1 DEF LifeVars, phase
<1>5. QED
  BY <1>2, <1>3, <1>4

(* A death, at birth or later.                                             *)
LEMMA AbstractDeath ==
  ASSUME NEW l \in Logic, l.spawned, l.started, ~ l.gave_up, ~ l.spawn_pending,
         l.crash_times = logic.crash_times,
         Len(l.crash_times) <= StormCount, now \in Time,
         phase \in {"spawning", "running", "killing"},
         logic' = OnWorkerExit(l, now), action' = "None"
  PROVE  Life!Die
<1> DEFINE d == OnWorkerExit(l, now)
<1>1. /\ d \in Logic /\ d.started = l.started /\ ~ d.spawned
      /\ Len(d.crash_times) <= Len(l.crash_times) + 1
      /\ \/ /\ d.gave_up /\ Len(d.crash_times) = StormCount + 1
         \/ /\ d.gave_up = l.gave_up /\ d.spawn_pending
            /\ Len(d.crash_times) <= StormCount
  BY Zenon, ExitEffect
<1> HIDE DEF d
<1>2. logic' = d
  BY DEF d
<1> DEFINE before == Len(logic.crash_times)
           after == Len(logic'.crash_times)
<1>3. before \in Nat /\ after \in Nat /\ after <= before + 1
  BY <1>1, <1>2 DEF Logic
<1>4. phase' = IF after > StormCount THEN "gave_up" ELSE "waiting"
  <2>1. logic'.started /\ ~ logic'.spawned
    BY <1>1, <1>2
  <2>2. CASE logic'.gave_up /\ after = StormCount + 1
    <3>1. after > StormCount
      BY <1>3, <2>2
    <3>2. phase' = "gave_up"
      BY <2>1, <2>2 DEF phase
    <3>3. QED
      BY <3>1, <3>2
  <2>3. CASE ~ logic'.gave_up /\ logic'.spawn_pending /\ after <= StormCount
    <3>1. ~ (after > StormCount)
      BY <1>3, <2>3
    <3>2. phase' = "waiting"
      BY <2>1, <2>3 DEF phase
    <3>3. QED
      BY <3>1, <3>2
  <2>4. QED
    BY <1>1, <1>2, <2>2, <2>3
<1> HIDE DEF before, after
<1>5. after \in 0..(before + 1)
  BY <1>3
<1>6. QED
  BY <1>4, <1>5 DEF Life!Die, before, after

LEMMA AbstractSpawn == ASSUME IInv, SpawnWorker PROVE Life!Spawned \/ Life!Die
<1>1. /\ logic \in Logic /\ now \in Time /\ action = "Spawn" /\ action' = "None"
      /\ \/ logic' = OnSpawned(logic, now)
         \/ logic' = OnWorkerExit(OnSpawned(logic, now), now)
  BY DEF IInv, TypeOK, SpawnWorker
<1>2. /\ logic.started /\ ~ logic.spawned /\ ~ logic.gave_up
      /\ Len(logic.crash_times) <= StormCount
  BY <1>1 DEF IInv, BeforeStart, NeverStuck, CrashRecord
<1>3. phase = "spawning"
  BY <1>1, <1>2 DEF phase
<1> DEFINE b == OnSpawned(logic, now)
<1>4. /\ b \in Logic /\ b.started /\ ~ b.gave_up
      /\ b.crash_times = logic.crash_times
      /\ b.spawned /\ ~ b.spawn_pending /\ ~ b.killing
  BY <1>1, <1>2, SpawnedEffect
<1> HIDE DEF b
<1>5. CASE logic' = b
  BY <1>3, <1>4, <1>5 DEF Life!Spawned, phase
<1>6. CASE logic' = OnWorkerExit(b, now)
  <2>1. Len(b.crash_times) <= StormCount
    BY <1>2, <1>4
  <2>2. Life!Die
    BY <1>1, <1>3, <1>4, <1>6, <2>1, AbstractDeath
  <2>3. QED
    BY <2>2
<1>7. QED
  BY <1>1, <1>5, <1>6 DEF b

LEMMA AbstractExit == ASSUME IInv, WorkerExit PROVE Life!Die
<1>1. /\ logic \in Logic /\ now \in Time /\ logic.spawned /\ action # "Spawn"
      /\ action' = "None" /\ logic' = OnWorkerExit(logic, now)
  BY DEF IInv, TypeOK, WorkerExit, Idle
<1>2. /\ logic.started /\ ~ logic.gave_up /\ ~ logic.spawn_pending
      /\ Len(logic.crash_times) <= StormCount
  BY <1>1 DEF IInv, BeforeStart, NeverStuck, CrashRecord
<1>3. phase \in {"running", "killing"}
  BY <1>1, <1>2 DEF phase
<1>4. QED
  BY <1>1, <1>2, <1>3, AbstractDeath

LEMMA AbstractRestart == ASSUME IInv, Restart PROVE Life!Forgive
<1>1. /\ logic \in Logic /\ logic.started
      /\ action' = action /\ action # "Spawn"
      /\ logic' = RequestRestart(logic, now)
  BY DEF IInv, TypeOK, Restart, Event, Idle
<1> DEFINE none == <<>>
<1>2. Len(none) = 0
  OBVIOUS
<1> HIDE DEF none
<1> DEFINE clean == [logic EXCEPT !.gave_up = FALSE, !.crash_times = none,
                                  !.backoff_index = 0]
<1>3. \/ logic.spawned /\ logic' = [clean EXCEPT !.restart_requested = TRUE]
      \/ /\ ~ logic.spawned
         /\ logic' = [clean EXCEPT !.spawn_pending = TRUE, !.spawn_time = now]
  BY Zenon, <1>1 DEF RequestRestart, none
<1>4. /\ logic'.started /\ logic'.spawned = logic.spawned /\ ~ logic'.gave_up
      /\ logic'.killing = logic.killing
      /\ logic.spawned \/ logic'.spawn_pending
      /\ logic'.crash_times = none
  BY <1>1, <1>3 DEF Logic
<1>5. logic.spawned => ~ logic.gave_up
  BY <1>1 DEF IInv, NeverStuck
<1>6. ~ logic.spawned => logic.gave_up \/ logic.spawn_pending
  BY <1>1 DEF IInv, NeverStuck
<1>7. phase \in {"waiting", "running", "killing", "gave_up"}
  BY <1>1, <1>5, <1>6 DEF phase
<1>8. phase' = IF phase = "gave_up" THEN "waiting" ELSE phase
  BY <1>1, <1>4, <1>5, <1>6 DEF phase
<1>9. Len(logic'.crash_times) = 0
  BY <1>2, <1>4
<1>10. QED
  BY <1>7, <1>8, <1>9 DEF Life!Forgive

LEMMA AbstractStep ==
  ASSUME IInv, [Next]_vars PROVE [Life!Next]_LifeVars
<1>1. CASE Traffic
  BY <1>1, AbstractTraffic
<1>2. CASE Tick
  BY <1>2 DEF Tick, LifeVars, phase
<1>3. CASE CallStart \/ CallUpdate
  BY <1>3, AbstractStart, AbstractUpdate DEF Life!Next
<1>4. CASE SpawnWorker \/ WorkerExit \/ Restart
  BY <1>4, AbstractSpawn, AbstractExit, AbstractRestart DEF Life!Next
<1>5. CASE UNCHANGED vars
  BY <1>5 DEF vars, LifeVars, phase
<1>6. QED
  BY <1>1, <1>2, <1>3, <1>4, <1>5 DEF Next, Lifecycle

(* The policy implements the abstract life cycle: one worker at a time,    *)
(* each Spawn and Kill emitted once, giving up only with a full record.    *)
THEOREM Refinement == Spec => ImplementsLifecycle
<1>1. Init => Life!Init
  BY AbstractInit
<1>2. IInv /\ [Next]_vars => [Life!Next]_(Life!lifeVars)
  BY AbstractStep DEF LifeVars, Life!lifeVars
<1>3. QED
  BY <1>1, <1>2, Invariance, PTL DEF Spec, ImplementsLifecycle, Life!Spec
-----------------------------------------------------------------------------
(* The crash storm.  crash_times_ is the end of the history of deaths, and *)
(* what it has dropped of that history lies outside the window.            *)
Ordered(q) == \A i, j \in DOMAIN q : i <= j => q[i] <= q[j]

EndOf(c, e, t) ==
  LET n == Len(c)
      k == Len(e) - n
  IN  /\ n <= Len(e)
      /\ \A j \in 1..n : c[j] = e[k + j]
      /\ \A i \in 1..k : e[i] <= t - StormWindow

StormInv ==
  /\ exits \in Seq(Time) /\ Ordered(exits) /\ \A i \in DOMAIN exits : exits[i] <= now
  /\ EndOf(logic.crash_times, exits, now)
  /\ logic.spawned => /\ logic.spawned_at <= now
                      /\ \A i \in DOMAIN exits : exits[i] <= logic.spawned_at
  /\ exits = <<>> => logic.backoff_index = 0
  /\ exits # <<>> /\ ~ logic.gave_up => logic.backoff_index # 0

(* Popping the front of an ordered sequence while it is older than the     *)
(* limit leaves what is not, and nothing else is popped.                   *)
LEMMA PopsTheOld ==
  ASSUME NEW times \in Seq(Time), Ordered(times), NEW limit \in Int
  PROVE  \E k \in 0..Len(times) :
           /\ Len(PopOlderThan(times, limit)) = Len(times) - k
           /\ \A j \in 1..(Len(times) - k) :
                PopOlderThan(times, limit)[j] = times[k + j] /\ times[k + j] >= limit
           /\ \A i \in 1..k : times[i] < limit
<1> DEFINE old == {i \in 1..Len(times) : times[i] < limit}
<1>1. /\ DOMAIN times = 1..Len(times) /\ Len(times) \in Nat
      /\ \A i \in 1..Len(times) : times[i] \in Nat
  BY DEF Time
<1>2. PICK n \in Nat : n = Len(times)
  BY <1>1
<1>3. PICK k \in 0..n : \A i \in 1..n : i \in old <=> i <= k
  <2>1. CASE old = {}
    <3>1. \A i \in 1..n : ~ (i <= 0)
      BY <1>2
    <3> QED  BY <1>2, <2>1, <3>1
  <2>2. CASE old # {}
    <3>1. PICK g \in old : \A y \in old : y <= g
      <4>1. old \in SUBSET (1..n)
        BY <1>2
      <4> HIDE DEF old
      <4> QED  BY <1>2, <2>2, <4>1, LargestOfRange
    <3>2. g \in 1..n /\ times[g] < limit
      BY <1>2, <3>1
    <3>3. ASSUME NEW i \in 1..n, i <= g
          PROVE  i \in old
      <4>1. times[i] <= times[g] /\ times[i] \in Nat /\ times[g] \in Nat
        BY <1>1, <1>2, <3>2, <3>3 DEF Ordered
      <4> QED  BY <1>2, <3>2, <4>1
    <3>4. g \in 0..n
      BY <3>2
    <3> QED  BY <3>1, <3>3, <3>4
  <2> QED  BY <2>1, <2>2
<1>4. old = 1..k
  BY <1>2, <1>3
<1>5. Cardinality(old) = k
  <2>1. k \in Nat
    BY <1>3
  <2>2. Cardinality(1..k) = k
    BY <2>1, FS_Interval
  <2> HIDE DEF old
  <2> QED  BY <1>4, <2>2
<1>6. PopOlderThan(times, limit) = SubSeq(times, k + 1, n)
  BY <1>2, <1>5 DEF PopOlderThan
<1> HIDE DEF old
<1>7. /\ Len(SubSeq(times, k + 1, n)) = n - k
      /\ \A j \in 1..(n - k) : SubSeq(times, k + 1, n)[j] = times[k + j]
  <2>1. k + 1 \in 1..(n + 1) /\ n \in Nat /\ n = Len(times)
    BY <1>2, <1>3
  <2>2. Len(SubSeq(times, k + 1, n)) = n - k
    BY <2>1, <1>3
  <2>3. ASSUME NEW j \in 1..(n - k)
        PROVE  SubSeq(times, k + 1, n)[j] = times[k + j]
    <3>1. SubSeq(times, k + 1, n)[j] = times[(k + 1) + j - 1]
      BY <2>1, <1>3
    <3>2. (k + 1) + j - 1 = k + j
      BY <1>3
    <3> QED  BY <3>1, <3>2
  <2> QED  BY <2>2, <2>3
<1>8. \A j \in 1..(n - k) : times[k + j] >= limit
  <2> SUFFICES ASSUME NEW j \in 1..(n - k) PROVE times[k + j] >= limit
    OBVIOUS
  <2>1. k + j \in 1..n /\ ~ (k + j <= k)
    BY <1>2, <1>3
  <2>2. k + j \notin old /\ times[k + j] \in Nat
    BY <1>1, <1>2, <1>3, <2>1
  <2> QED  BY <1>2, <2>1, <2>2 DEF old
<1>9. \A i \in 1..k : times[i] < limit
  BY <1>4 DEF old
<1> QED  BY <1>2, <1>3, <1>6, <1>7, <1>8, <1>9

(* One death more at the end of an ordered history.                        *)
LEMMA OrderedGrows ==
  ASSUME NEW e \in Seq(Time), Ordered(e), NEW t \in Time, \A i \in DOMAIN e : e[i] <= t
  PROVE  /\ Append(e, t) \in Seq(Time) /\ Ordered(Append(e, t))
         /\ Len(Append(e, t)) = Len(e) + 1
         /\ \A i \in DOMAIN Append(e, t) : Append(e, t)[i] <= t
<1> DEFINE f == Append(e, t)
<1>1. /\ f \in Seq(Time) /\ Len(f) = Len(e) + 1 /\ Len(e) \in Nat
      /\ DOMAIN f = 1..(Len(e) + 1) /\ DOMAIN e = 1..Len(e)
      /\ \A i \in 1..Len(e) : f[i] = e[i] /\ e[i] \in Nat
      /\ f[Len(e) + 1] = t /\ t \in Nat
  BY DEF Time
<1> HIDE DEF f
<1>2. \A i \in DOMAIN f : f[i] <= t
  BY <1>1
<1>3. Ordered(f)
  <2> SUFFICES ASSUME NEW i \in DOMAIN f, NEW j \in DOMAIN f, i <= j PROVE f[i] <= f[j]
    BY DEF Ordered
  <2>1. CASE j = Len(e) + 1
    BY <1>1, <1>2, <2>1
  <2>2. CASE j # Len(e) + 1
    <3>1. i \in 1..Len(e) /\ j \in 1..Len(e)
      BY <1>1, <2>2
    <3>2. e[i] <= e[j]
      BY <1>1, <3>1 DEF Ordered
    <3> QED  BY <1>1, <3>1, <3>2
  <2> QED  BY <2>1, <2>2
<1> QED  BY <1>1, <1>2, <1>3 DEF f

(* The end of an ordered history is in order.                              *)
LEMMA EndIsOrdered ==
  ASSUME NEW c \in Seq(Time), NEW e \in Seq(Time), Ordered(e), NEW t, EndOf(c, e, t)
  PROVE  Ordered(c)
<1>0. PICK n \in Nat : n = Len(c)
  OBVIOUS
<1>1. PICK k \in Nat : n = Len(c) /\ k = Len(e) - n
  <2>1. Len(e) \in Nat /\ n <= Len(e)
    BY <1>0 DEF EndOf
  <2> QED  BY <1>0, <2>1
<1>2. /\ DOMAIN c = 1..n /\ DOMAIN e = 1..(k + n)
      /\ \A j \in 1..n : c[j] = e[k + j]
  BY <1>1 DEF EndOf
<1> SUFFICES ASSUME NEW i \in 1..n, NEW j \in 1..n, i <= j PROVE c[i] <= c[j]
  BY <1>2 DEF Ordered
<1>3. k + i \in DOMAIN e /\ k + j \in DOMAIN e /\ k + i <= k + j
  BY <1>2
<1> QED  BY <1>2, <1>3 DEF Ordered

(* Pruning the end of the history leaves an end of it, none of it older    *)
(* than the window.                                                        *)
LEMMA PrunedIsEnd ==
  ASSUME NEW r \in Seq(Time), NEW f \in Seq(Time), Ordered(f), NEW t \in Time, EndOf(r, f, t)
  PROVE  LET c == PopOlderThan(r, t - StormWindow)
         IN  /\ c \in Seq(Time) /\ EndOf(c, f, t)
             /\ \A j \in 1..Len(c) : c[j] >= t - StormWindow
<1> DEFINE limit == t - StormWindow
           c == PopOlderThan(r, limit)
<1>1. limit \in Int
  BY DEF Time
<1>2. c \in Seq(Time)
  BY <1>1, PruneType
<1>3. Ordered(r)
  BY EndIsOrdered
<1>4. PICK p \in 0..Len(r) :
        /\ Len(c) = Len(r) - p
        /\ \A j \in 1..(Len(r) - p) : c[j] = r[p + j] /\ r[p + j] >= limit
        /\ \A i \in 1..p : r[i] < limit
  <2> HIDE DEF limit
  <2> QED  BY <1>1, <1>3, PopsTheOld
<1> HIDE DEF c
<1>a. PICK n \in Nat : n = Len(r)
  OBVIOUS
<1>5. PICK k \in Nat : n = Len(r) /\ k = Len(f) - n /\ Len(f) = k + n
  <2>1. Len(f) \in Nat /\ n <= Len(f)
    BY <1>a DEF EndOf
  <2> QED  BY <1>a, <2>1
<1>6. /\ \A j \in 1..n : r[j] = f[k + j]
      /\ \A i \in 1..k : f[i] <= limit
  BY <1>5 DEF EndOf
<1>7. PICK m \in Nat : m = Len(c) /\ m = n - p /\ Len(f) - m = k + p /\ m <= Len(f)
  <2>1. p \in 0..n /\ Len(c) = n - p
    BY <1>4, <1>5
  <2>2. n - p \in Nat /\ (k + n) - (n - p) = k + p /\ n - p <= k + n
    BY <2>1
  <2> QED  BY <1>5, <2>1, <2>2
<1>8. \A j \in 1..m : c[j] = f[(k + p) + j] /\ c[j] >= limit
  <2> SUFFICES ASSUME NEW j \in 1..m PROVE c[j] = f[(k + p) + j] /\ c[j] >= limit
    OBVIOUS
  <2>1. p + j \in 1..n /\ k + (p + j) = (k + p) + j /\ j \in 1..(Len(r) - p)
    BY <1>5, <1>7, <1>4
  <2> QED  BY <1>4, <1>6, <2>1
<1>9. \A i \in 1..(k + p) : f[i] <= limit
  <2> SUFFICES ASSUME NEW i \in 1..(k + p) PROVE f[i] <= limit
    OBVIOUS
  <2>1. CASE i <= k
    <3>1. i \in 1..k
      BY <1>4, <2>1
    <3> QED  BY <1>6, <3>1
  <2>2. CASE i > k
    <3>1. p \in 0..n
      BY <1>4, <1>5
    <3>2. i - k \in 1..p /\ i - k \in 1..n /\ k + (i - k) = i
      BY <2>2, <3>1
    <3>3. r[i - k] = f[i] /\ r[i - k] < limit
      BY <1>4, <1>6, <3>2
    <3>4. r[i - k] \in Nat
      BY <1>5, <3>2 DEF Time
    <3> HIDE DEF limit
    <3>5. r[i - k] <= limit
      BY <1>1, <3>3, <3>4
    <3> QED  BY <3>3, <3>5, Zenon
  <2> QED  BY <1>4, <2>1, <2>2
<1>10. EndOf(c, f, t)
  BY <1>7, <1>8, <1>9 DEF EndOf
<1> QED  BY <1>2, <1>7, <1>8, <1>10 DEF c

(* After the first one every delay is a second or more, or is the cap.     *)
LEMMA BackoffFloor ==
  ASSUME NEW l, l.backoff_index \in Nat
  PROVE  IF l.backoff_index = 0 THEN BackoffDelay(l) = 0
         ELSE BackoffDelay(l) >= Second \/ BackoffDelay(l) = BackoffMax
<1>1. CASE l.backoff_index = 0
  BY <1>1 DEF BackoffDelay
<1>2. CASE l.backoff_index # 0
  <2> DEFINE shift == IF l.backoff_index - 1 < 30 THEN l.backoff_index - 1 ELSE 30
  <2>1. shift \in 0..30
    BY <1>2
  <2>2. PICK p \in Nat \ {0} : p = 2^shift
    BY <2>1, ShiftAssumption
  <2>3. BackoffDelay(l) = IF p * Second < BackoffMax THEN p * Second ELSE BackoffMax
    BY <1>2, <2>2 DEF BackoffDelay
  <2>4. p * Second >= Second
    <3> HIDE DEF shift
    <3>1. p - 1 \in Nat
      BY <2>2
    <3>2. p * Second = (p - 1) * Second + Second /\ (p - 1) * Second \in Nat
      BY <3>1
    <3>3. ASSUME NEW a \in Nat, NEW b \in Nat
          PROVE  a + b >= b
      OBVIOUS
    <3> QED  BY <3>2, <3>3
  <2> QED  BY <1>2, <2>3, <2>4
<1> QED  BY <1>1, <1>2

(* The birth of the dead generation is remembered.                         *)
LEMMA BuriedBirth ==
  ASSUME NEW l \in Logic
  PROVE  Buried(l).spawned_at = l.spawned_at
<1>1. Disarmed(l) \in Logic /\ Disarmed(l).spawned_at = l.spawned_at
  <2>1. Disarmed(l) \in Logic
    BY DisarmedEffect
  <2>2. Disarmed(l).spawned_at = l.spawned_at
    BY DEF Disarmed, Logic
  <2> QED  BY <2>1, <2>2
<1> DEFINE d == Disarmed(l)
           poison == IF l.compile_busy THEN l.busy_slide ELSE d.poisoned_slide
<1>2. Buried(l) = [d EXCEPT !.spawned = FALSE, !.restart_requested = FALSE,
                            !.poisoned_slide = poison]
  BY DEF Buried
<1>3. d \in Logic /\ d.spawned_at = l.spawned_at
  BY <1>1
<1> HIDE DEF d, poison
<1> QED  BY <1>2, <1>3 DEF Logic

(* What an exit writes down, and how long it makes the next worker wait.   *)
Wait(d, t) == d.spawn_time - t

LEMMA ExitRecord ==
  ASSUME NEW l \in Logic, NEW t \in Time, l.spawned
  PROVE  LET stable == t - l.spawned_at >= StormWindow
             d == OnWorkerExit(l, t)
         IN  /\ d.crash_times =
                  PopOlderThan(Append(IF stable THEN <<>> ELSE l.crash_times, t), t - StormWindow)
             /\ d.spawned_at = l.spawned_at /\ ~ d.spawned
             /\ \/ d.gave_up /\ Len(d.crash_times) > StormCount
                \/ /\ d.gave_up = l.gave_up /\ d.backoff_index # 0
                   /\ IF stable \/ l.backoff_index = 0 THEN Wait(d, t) = 0
                      ELSE Wait(d, t) >= Second \/ Wait(d, t) = BackoffMax
<1> DEFINE stable  == t - l.spawned_at >= StormWindow
           index   == IF stable THEN 0 ELSE l.backoff_index
           record  == Append(IF stable THEN <<>> ELSE l.crash_times, t)
           crashes == PopOlderThan(record, t - StormWindow)
           dead    == [Buried(l) EXCEPT !.crash_times = crashes, !.backoff_index = index]
           wait    == BackoffDelay(dead)
           wake    == t + wait
           next    == index + 1
           d       == OnWorkerExit(l, t)
<1>1. d = IF Len(crashes) > StormCount THEN [dead EXCEPT !.gave_up = TRUE]
          ELSE [dead EXCEPT !.spawn_time = wake, !.backoff_index = next, !.spawn_pending = TRUE]
  BY DEF OnWorkerExit
<1>2. record \in Seq(Time) /\ index \in Nat /\ t - StormWindow \in Int /\ next \in Nat /\ next # 0
  BY DEF Logic, Time
<1>3. crashes \in Seq(Time)
  <2> HIDE DEF record
  <2> QED  BY <1>2, PruneType
<1>4. /\ Buried(l) \in Logic /\ Buried(l).gave_up = l.gave_up /\ ~ Buried(l).spawned
      /\ Buried(l).spawned_at = l.spawned_at
  BY BuriedEffect, BuriedBirth
<1>5. stable \in BOOLEAN /\ (stable \/ l.backoff_index = 0 <=> index = 0)
  BY DEF Logic
<1> HIDE DEF crashes, index
<1>6. /\ dead \in Logic /\ dead.crash_times = crashes /\ dead.backoff_index = index
      /\ dead.gave_up = l.gave_up /\ ~ dead.spawned /\ dead.spawned_at = l.spawned_at
  BY <1>2, <1>3, <1>4 DEF Logic
<1> HIDE DEF dead
<1>7. /\ wait \in Nat
      /\ IF index = 0 THEN wait = 0 ELSE wait >= Second \/ wait = BackoffMax
  BY <1>2, <1>6, BackoffBounded, BackoffFloor
<1> HIDE DEF wait
<1>8. wake \in Time /\ wake - t = wait
  BY <1>7 DEF Time
<1> HIDE DEF wake, next, stable, d
<1>9. CASE Len(crashes) > StormCount
  <2>1. d = [dead EXCEPT !.gave_up = TRUE]
    BY <1>1, <1>9
  <2>2. d.gave_up /\ d.crash_times = crashes /\ d.spawned_at = l.spawned_at /\ ~ d.spawned
    BY <1>6, <2>1 DEF Logic
  <2> QED  BY <1>9, <2>2 DEF d, crashes, stable
<1>10. CASE ~ (Len(crashes) > StormCount)
  <2>1. d = [dead EXCEPT !.spawn_time = wake, !.backoff_index = next, !.spawn_pending = TRUE]
    BY <1>1, <1>10
  <2>2. /\ d.gave_up = l.gave_up /\ d.crash_times = crashes /\ d.spawned_at = l.spawned_at
        /\ ~ d.spawned /\ d.backoff_index = next /\ d.spawn_time = wake
    BY <1>2, <1>6, <1>8, <2>1 DEF Logic
  <2>3. Wait(d, t) = wait
    BY <1>8, <2>2 DEF Wait
  <2>4. IF stable \/ l.backoff_index = 0 THEN Wait(d, t) = 0
        ELSE Wait(d, t) >= Second \/ Wait(d, t) = BackoffMax
    BY <1>5, <1>7, <2>3
  <2> QED  BY <1>2, <2>2, <2>4 DEF d, crashes, stable
<1> QED  BY <1>9, <1>10

(* A death, at birth or later: it is the last of the history, the record   *)
(* stays the end of the history, and nothing on record has left the        *)
(* window.                                                                 *)
LEMMA DeathIsRecorded ==
  ASSUME NEW l \in Logic, NEW t \in Time, l.spawned, l.spawned_at <= t,
         NEW e \in Seq(Time), Ordered(e), EndOf(l.crash_times, e, t),
         \A i \in DOMAIN e : e[i] <= l.spawned_at
  PROVE  LET d == OnWorkerExit(l, t)
             f == Append(e, t)
         IN  /\ EndOf(d.crash_times, f, t)
             /\ \A j \in 1..Len(d.crash_times) : d.crash_times[j] >= t - StormWindow
             /\ f \in Seq(Time) /\ Ordered(f) /\ f # <<>> /\ \A i \in DOMAIN f : f[i] <= t
<1> DEFINE stable == t - l.spawned_at >= StormWindow
           base == IF stable THEN <<>> ELSE l.crash_times
           r == Append(base, t)
           f == Append(e, t)
           d == OnWorkerExit(l, t)
<1>1. /\ l.spawned_at \in Nat /\ t \in Nat /\ l.crash_times \in Seq(Time)
      /\ \A i \in DOMAIN e : e[i] \in Nat /\ e[i] <= t
  <2>1. l.spawned_at \in Nat /\ t \in Nat /\ l.crash_times \in Seq(Time)
    BY DEF Logic, Time
  <2>2. \A i \in DOMAIN e : e[i] \in Nat
    BY DEF Time
  <2>3. \A i \in DOMAIN e : e[i] <= t
    BY <2>1, <2>2
  <2> QED  BY <2>1, <2>2, <2>3
<1>2. /\ f \in Seq(Time) /\ Ordered(f) /\ Len(f) = Len(e) + 1
      /\ \A i \in DOMAIN f : f[i] <= t
  BY <1>1, OrderedGrows
<1>3. f # <<>> /\ (\A i \in 1..Len(e) : f[i] = e[i]) /\ f[Len(e) + 1] = t
  OBVIOUS
<1>4. EndOf(base, e, t)
  <2>1. CASE stable
    <3>1. base = <<>>
      BY <2>1
    <3>2. l.spawned_at <= t - StormWindow
      BY <1>1, <2>1
    <3>3. \A i \in 1..Len(e) : e[i] <= t - StormWindow
      BY <1>1, <3>2
    <3>4. EndOf(<<>>, e, t)
      BY <3>3 DEF EndOf
    <3> QED  BY <3>1, <3>4
  <2>2. CASE ~ stable
    BY <2>2
  <2> QED  BY <2>1, <2>2
<1>5. base \in Seq(Time)
  BY <1>1
<1> HIDE DEF base
<1>6. PICK n \in Nat : n = Len(base)
  BY <1>5
<1>7. PICK k \in Nat : k = Len(e) - n /\ Len(e) = k + n
  <2>1. Len(e) \in Nat /\ n <= Len(e)
    BY <1>4, <1>6 DEF EndOf
  <2> QED  BY <2>1
<1>8. r \in Seq(Time) /\ Len(r) = n + 1 /\ (\A j \in 1..n : r[j] = base[j]) /\ r[n + 1] = t
  BY <1>5, <1>6
<1> HIDE DEF r, f
<1>9. EndOf(r, f, t)
  <2>1. Len(f) - (n + 1) = k /\ n + 1 <= Len(f)
    BY <1>2, <1>7
  <2>2. \A i \in 1..k : f[i] <= t - StormWindow
    BY <1>3, <1>4, <1>6, <1>7 DEF EndOf
  <2>3. ASSUME NEW j \in 1..(n + 1)
        PROVE  r[j] = f[k + j]
    <3>1. CASE j = n + 1
      BY <1>3, <1>7, <1>8, <3>1
    <3>2. CASE j # n + 1
      <4>1. j \in 1..n /\ k + j \in 1..Len(e)
        BY <1>7, <3>2
      <4>2. base[j] = e[k + j]
        BY <1>4, <1>6, <1>7, <4>1 DEF EndOf
      <4> QED  BY <1>3, <1>8, <4>1, <4>2
    <3> QED  BY <3>1, <3>2
  <2> QED  BY <1>8, <2>1, <2>2, <2>3 DEF EndOf
<1>10. d.crash_times = PopOlderThan(r, t - StormWindow)
  BY ExitRecord DEF r, base
<1> HIDE DEF d
<1>11. /\ EndOf(d.crash_times, f, t)
       /\ \A j \in 1..Len(d.crash_times) : d.crash_times[j] >= t - StormWindow
  BY <1>2, <1>8, <1>9, <1>10, PrunedIsEnd
<1> QED  BY <1>2, <1>3, <1>11 DEF d, f

-----------------------------------------------------------------------------
(* Counting.                                                               *)
Since(e, t) == Cardinality({i \in DOMAIN e : e[i] >= t})

(* What is within the window is on record.                                 *)
LEMMA RecordCounts ==
  ASSUME NEW c \in Seq(Time), NEW e \in Seq(Time), NEW t \in Time, EndOf(c, e, t)
  PROVE  /\ Since(e, t - StormWindow + 1) <= Len(c)
         /\ (\A j \in 1..Len(c) : c[j] >= t - StormWindow) => Since(e, t - StormWindow) >= Len(c)
<1>a. PICK n \in Nat : n = Len(c)
  OBVIOUS
<1>1. PICK k \in Nat : k = Len(e) - n /\ Len(e) = k + n
  <2>1. Len(e) \in Nat /\ n <= Len(e)
    BY <1>a DEF EndOf
  <2> QED  BY <2>1
<1>2. /\ \A j \in 1..n : c[j] = e[k + j]
      /\ \A i \in 1..k : e[i] <= t - StormWindow
  BY <1>a, <1>1 DEF EndOf
<1>3. DOMAIN e = 1..(k + n) /\ \A i \in 1..(k + n) : e[i] \in Nat
  BY <1>1 DEF Time
<1>4. t - StormWindow \in Int
  BY DEF Time
<1> DEFINE last == (k + 1)..(k + n)
<1>5. IsFiniteSet(last) /\ Cardinality(last) = n
  <2>1. k + 1 \in Int /\ k + n \in Int
    OBVIOUS
  <2>2. IsFiniteSet(last) /\ Cardinality(last) = IF k + 1 > k + n THEN 0 ELSE (k + n) - (k + 1) + 1
    BY <2>1, FS_Interval
  <2> HIDE DEF last
  <2> QED  BY <2>2
<1>6. Since(e, t - StormWindow + 1) <= n
  <2> DEFINE S == {i \in DOMAIN e : e[i] >= t - StormWindow + 1}
  <2>1. S \subseteq last
    <3> SUFFICES ASSUME NEW i \in 1..(k + n), e[i] >= t - StormWindow + 1, i <= k PROVE FALSE
      BY <1>3
    <3>1. i \in 1..k /\ e[i] \in Nat
      BY <1>3
    <3>2. e[i] <= t - StormWindow
      BY <1>2, <3>1
    <3> QED  BY <1>4, <3>1, <3>2
  <2> HIDE DEF last
  <2>2. Cardinality(S) <= Cardinality(last)
    BY <1>5, <2>1, FS_Subset
  <2> QED  BY <1>5, <2>2 DEF Since
<1>7. ASSUME \A j \in 1..Len(c) : c[j] >= t - StormWindow
      PROVE  Since(e, t - StormWindow) >= n
  <2> DEFINE S == {i \in DOMAIN e : e[i] >= t - StormWindow}
  <2>1. last \subseteq S
    <3> SUFFICES ASSUME NEW i \in last PROVE i \in 1..(k + n) /\ e[i] >= t - StormWindow
      BY <1>3
    <3>1. i \in 1..(k + n) /\ i - k \in 1..n /\ k + (i - k) = i
      OBVIOUS
    <3>2. c[i - k] = e[i] /\ c[i - k] >= t - StormWindow
      BY <1>a, <1>2, <1>7, <3>1
    <3> QED  BY <3>1, <3>2
  <2>2. IsFiniteSet(S)
    <3>1. IsFiniteSet(1..(k + n)) /\ S \subseteq 1..(k + n)
      BY <1>3, FS_Interval
    <3> QED  BY <3>1, FS_Subset
  <2> HIDE DEF last, S
  <2>3. Cardinality(last) <= Cardinality(S) /\ Cardinality(S) \in Nat
    BY <2>1, <2>2, FS_Subset, FS_CardinalityType
  <2> QED  BY <1>5, <2>3 DEF Since, S
<1> QED  BY <1>a, <1>6, <1>7

-----------------------------------------------------------------------------
(* The steps.                                                              *)

(* A birth notes the time and leaves the record alone.                     *)
LEMMA BirthClock ==
  ASSUME NEW l \in Logic, NEW t \in Time
  PROVE  OnSpawned(l, t).spawned_at = t /\ OnSpawned(l, t).backoff_index = l.backoff_index
<1> DEFINE d == Disarmed(l)
<1>1. d \in Logic
  BY DisarmedEffect
<1>2. d.backoff_index = l.backoff_index
  BY DEF Disarmed, Logic
<1>3. OnSpawned(l, t) = [d EXCEPT !.spawned = TRUE, !.spawn_pending = FALSE,
                                  !.spawned_at = t, !.last_ping_time = t]
  BY DEF OnSpawned
<1> HIDE DEF d
<1> QED  BY <1>1, <1>2, <1>3 DEF Logic

(* Steps that are no birth, no death and no restart of a user.             *)
LEMMA QuietStep ==
  ASSUME IInv, CallStart \/ CallUpdate \/ Tick \/ Traffic
  PROVE  /\ logic'.spawned = logic.spawned /\ logic'.gave_up = logic.gave_up
         /\ logic'.crash_times = logic.crash_times
         /\ logic'.spawned_at = logic.spawned_at
         /\ logic'.backoff_index = logic.backoff_index
         /\ now \in Nat /\ now' \in Nat /\ now <= now'
<1>1. logic \in Logic /\ now \in Nat
  BY DEF IInv, TypeOK, Time
<1>2. CASE CallStart
  <2>1. /\ logic' = [logic EXCEPT !.started = TRUE, !.spawn_pending = TRUE, !.spawn_time = now]
        /\ now' = now
    BY Zenon, <1>2 DEF CallStart, Event, Start
  <2> QED  BY <1>1, <2>1 DEF Logic
<1>3. CASE CallUpdate
  <2> DEFINE late == Overdue(logic, now)
  <2>1. logic' = Update(logic, now, late) /\ now' = now
    BY <1>3 DEF CallUpdate
  <2> HIDE DEF late
  <2>2. \/ logic' = [logic EXCEPT !.spawn_pending = FALSE]
        \/ logic' = [logic EXCEPT !.killing = TRUE, !.restart_requested = FALSE]
        \/ logic' = logic
    BY Zenon, <2>1 DEF Update
  <2>3. /\ logic'.spawned = logic.spawned /\ logic'.gave_up = logic.gave_up
        /\ logic'.crash_times = logic.crash_times
        /\ logic'.spawned_at = logic.spawned_at
        /\ logic'.backoff_index = logic.backoff_index
    BY <1>1, <2>2 DEF Logic
  <2> QED  BY <1>1, <2>1, <2>3
<1>4. CASE Tick
  BY <1>1, <1>4 DEF Tick
<1>5. CASE Traffic
  <2>1. SameLife(logic, logic') /\ now' = now
    BY <1>5, TrafficStep DEF IInv
  <2> QED  BY <1>1, <2>1 DEF SameLife
<1> QED  BY <1>2, <1>3, <1>4, <1>5

(* A birth or a death: the worker that dies, if one does, was born with    *)
(* the record and the backoff of now.                                      *)
Dies(l) ==
  /\ l \in Logic /\ l.spawned /\ ~ l.gave_up
  /\ l.crash_times = logic.crash_times /\ l.backoff_index = logic.backoff_index
  /\ l.spawned_at <= now /\ \A i \in DOMAIN exits : exits[i] <= l.spawned_at
  /\ logic' = OnWorkerExit(l, now) /\ ~ logic'.spawned /\ now' = now
  /\ exits' = Append(exits, now)

LEMMA LifeStep ==
  ASSUME IInv, StormInv, SpawnWorker \/ WorkerExit,
         exits' = IF Died \/ DiedAtBirth THEN Append(exits, now) ELSE exits
  PROVE  /\ ~ logic.gave_up
         /\ \/ /\ logic'.spawned /\ logic'.spawned_at = now /\ ~ logic'.gave_up
               /\ logic'.crash_times = logic.crash_times
               /\ logic'.backoff_index = logic.backoff_index
               /\ exits' = exits /\ now' = now
            \/ \E l \in Logic : Dies(l)
<1>1. logic \in Logic /\ now \in Time
  BY DEF IInv, TypeOK
<1>2. CASE SpawnWorker
  <2>1. ~ logic.spawned /\ ~ logic.gave_up /\ action = "Spawn" /\ action' = "None" /\ now' = now
    BY <1>2 DEF IInv, BeforeStart, NeverStuck, SpawnWorker
  <2> DEFINE b == OnSpawned(logic, now)
  <2>2. /\ b \in Logic /\ b.gave_up = logic.gave_up /\ b.crash_times = logic.crash_times
        /\ b.spawned /\ b.spawned_at = now /\ b.backoff_index = logic.backoff_index
    BY <1>1, SpawnedEffect, BirthClock
  <2>3. logic' = b \/ logic' = OnWorkerExit(b, now)
    BY <1>2 DEF SpawnWorker
  <2> HIDE DEF b
  <2>4. CASE logic' = b
    <3>1. exits' = exits
      BY <2>1, <2>2, <2>4 DEF Died, DiedAtBirth
    <3> QED  BY <2>1, <2>2, <2>4, <3>1
  <2>5. CASE logic' = OnWorkerExit(b, now)
    <3>1. ~ logic'.spawned
      BY <1>1, <2>2, <2>5, ExitRecord
    <3>2. exits' = Append(exits, now)
      BY <2>1, <3>1 DEF DiedAtBirth
    <3>3. b.spawned_at <= now /\ \A i \in DOMAIN exits : exits[i] <= b.spawned_at
      BY <1>1, <2>2 DEF StormInv, Time
    <3>4. Dies(b)
      BY <2>1, <2>2, <2>5, <3>1, <3>2, <3>3 DEF Dies
    <3> QED  BY <2>1, <2>2, <3>4
  <2> QED  BY <2>3, <2>4, <2>5
<1>3. CASE WorkerExit
  <2>1. /\ logic.spawned /\ ~ logic.gave_up /\ action # "Spawn" /\ now' = now
        /\ logic' = OnWorkerExit(logic, now)
    BY <1>3 DEF IInv, BeforeStart, NeverStuck, WorkerExit, Idle
  <2>2. ~ logic'.spawned
    BY <1>1, <2>1, ExitRecord
  <2>3. exits' = Append(exits, now)
    BY <2>1, <2>2 DEF Died
  <2>4. Dies(logic)
    BY <1>1, <2>1, <2>2, <2>3 DEF Dies, StormInv
  <2> QED  BY <1>1, <2>1, <2>4
<1> QED  BY <1>2, <1>3

(* What a death leaves.                                                    *)
LEMMA DeathStep ==
  ASSUME IInv, StormInv, NEW l \in Logic, Dies(l)
  PROVE  /\ StormInv'
         /\ \A j \in 1..Len(logic'.crash_times) : logic'.crash_times[j] >= now - StormWindow
         /\ exits' # <<>> /\ logic'.spawned_at = l.spawned_at
         /\ \/ logic'.gave_up /\ Len(logic'.crash_times) > StormCount
            \/ /\ ~ logic'.gave_up
               /\ IF now - l.spawned_at >= StormWindow \/ l.backoff_index = 0
                  THEN Wait(logic', now) = 0
                  ELSE Wait(logic', now) >= Second \/ Wait(logic', now) = BackoffMax
<1> DEFINE d == OnWorkerExit(l, now)
           f == Append(exits, now)
           stable == now - l.spawned_at >= StormWindow
<1>1. /\ now \in Time /\ exits \in Seq(Time) /\ Ordered(exits)
      /\ EndOf(l.crash_times, exits, now)
  BY DEF IInv, TypeOK, StormInv, Dies
<1>2. /\ EndOf(d.crash_times, f, now)
      /\ \A j \in 1..Len(d.crash_times) : d.crash_times[j] >= now - StormWindow
      /\ f \in Seq(Time) /\ Ordered(f) /\ f # <<>> /\ \A i \in DOMAIN f : f[i] <= now
  BY <1>1, DeathIsRecorded DEF Dies
<1>3. /\ d.spawned_at = l.spawned_at
      /\ \/ d.gave_up /\ Len(d.crash_times) > StormCount
         \/ /\ d.gave_up = l.gave_up /\ d.backoff_index # 0
            /\ IF stable \/ l.backoff_index = 0 THEN Wait(d, now) = 0
               ELSE Wait(d, now) >= Second \/ Wait(d, now) = BackoffMax
  BY <1>1, ExitRecord DEF Dies
<1>4. logic' = d /\ exits' = f /\ now' = now /\ ~ logic'.spawned /\ ~ l.gave_up
  BY DEF Dies
<1> HIDE DEF d, f, stable
<1>5. StormInv'
  BY <1>2, <1>3, <1>4 DEF StormInv
<1> QED  BY <1>2, <1>3, <1>4, <1>5 DEF stable

(* What a restart of the user forgets.                                     *)
LEMMA RestartForgets ==
  ASSUME IInv, Restart
  PROVE  /\ logic'.crash_times = <<>> /\ logic'.backoff_index = 0 /\ ~ logic'.gave_up
         /\ logic'.spawned = logic.spawned /\ logic'.spawned_at = logic.spawned_at
         /\ UNCHANGED <<now, action>>
<1>1. /\ logic \in Logic /\ logic.started /\ logic' = RequestRestart(logic, now)
      /\ UNCHANGED <<now, action>>
  BY DEF IInv, TypeOK, Restart, Event
<1> DEFINE none == <<>>
           clean == [logic EXCEPT !.gave_up = FALSE, !.crash_times = none, !.backoff_index = 0]
<1>2. \/ logic' = [clean EXCEPT !.restart_requested = TRUE]
      \/ logic' = [clean EXCEPT !.spawn_pending = TRUE, !.spawn_time = now]
  BY Zenon, <1>1 DEF RequestRestart
<1> HIDE DEF none
<1>3. /\ logic'.crash_times = none /\ logic'.backoff_index = 0 /\ ~ logic'.gave_up
      /\ logic'.spawned = logic.spawned /\ logic'.spawned_at = logic.spawned_at
  BY <1>1, <1>2 DEF Logic
<1> QED  BY <1>1, <1>3 DEF none

LEMMA StormNextIsNext == ASSUME [StormNext]_stormVars PROVE [Next]_vars
  BY DEF StormNext, stormVars, Next, Lifecycle, vars

(* The history stays in order and its end on record.                       *)
LEMMA StormStep ==
  ASSUME IInv, StormInv, [StormNext]_stormVars
  PROVE  StormInv'
<1>1. CASE (CallStart \/ CallUpdate \/ Tick \/ Traffic) /\ UNCHANGED exits
  <2>1. /\ logic'.spawned = logic.spawned /\ logic'.gave_up = logic.gave_up
        /\ logic'.crash_times = logic.crash_times
        /\ logic'.spawned_at = logic.spawned_at
        /\ logic'.backoff_index = logic.backoff_index
        /\ now \in Nat /\ now' \in Nat /\ now <= now' /\ exits' = exits
    BY <1>1, QuietStep
  <2>2. logic.spawned_at \in Nat /\ \A i \in DOMAIN exits : exits[i] \in Nat
    BY DEF IInv, TypeOK, Logic, StormInv, Time
  <2>3. EndOf(logic.crash_times, exits, now')
    <3> DEFINE k == Len(exits) - Len(logic.crash_times)
    <3>1. /\ Len(logic.crash_times) <= Len(exits)
          /\ \A j \in 1..Len(logic.crash_times) : logic.crash_times[j] = exits[k + j]
          /\ \A i \in 1..k : exits[i] <= now - StormWindow
      BY DEF StormInv, EndOf
    <3>2. Len(logic.crash_times) \in Nat /\ Len(exits) \in Nat /\ DOMAIN exits = 1..Len(exits)
      BY DEF IInv, TypeOK, Logic, StormInv
    <3>3. k \in 0..Len(exits)
      BY <3>1, <3>2
    <3>4. ASSUME NEW i \in 1..k PROVE exits[i] <= now' - StormWindow
      <4> HIDE DEF k
      <4>1. exits[i] \in Nat /\ exits[i] <= now - StormWindow
        BY <2>2, <3>1, <3>2, <3>3
      <4> QED  BY <2>1, <4>1
    <3> QED  BY <3>1, <3>4 DEF EndOf
  <2>4. \A i \in DOMAIN exits : exits[i] <= now'
    BY <2>1, <2>2 DEF StormInv
  <2>5. logic.spawned => logic.spawned_at <= now'
    BY <2>1, <2>2 DEF StormInv
  <2> QED  BY <2>1, <2>3, <2>4, <2>5 DEF StormInv
<1>2. CASE /\ SpawnWorker \/ WorkerExit
           /\ exits' = IF Died \/ DiedAtBirth THEN Append(exits, now) ELSE exits
  <2>1. CASE /\ logic'.spawned /\ logic'.spawned_at = now /\ ~ logic'.gave_up
             /\ logic'.crash_times = logic.crash_times
             /\ logic'.backoff_index = logic.backoff_index
             /\ exits' = exits /\ now' = now
    <3>1. now \in Nat /\ ~ logic.gave_up
      BY <1>2, LifeStep DEF IInv, TypeOK, Time
    <3> QED  BY <2>1, <3>1 DEF StormInv
  <2>2. ASSUME NEW l \in Logic, Dies(l)
        PROVE  StormInv'
    BY <2>2, DeathStep
  <2> QED  BY <1>2, <2>1, <2>2, LifeStep
<1>3. CASE Restart /\ exits' = <<>>
  <2>1. /\ logic'.crash_times = <<>> /\ logic'.backoff_index = 0
        /\ logic'.spawned = logic.spawned /\ logic'.spawned_at = logic.spawned_at
        /\ now' = now
    BY <1>3, RestartForgets
  <2>2. EndOf(<<>>, <<>>, now)
    BY DEF EndOf
  <2>3. <<>> \in Seq(Time) /\ Ordered(<<>>) /\ DOMAIN <<>> = {}
    BY DEF Ordered
  <2> QED  BY <1>3, <2>1, <2>2, <2>3 DEF StormInv
<1>4. CASE UNCHANGED stormVars
  BY <1>4 DEF stormVars, StormInv
<1> QED  BY <1>1, <1>2, <1>3, <1>4 DEF StormNext

LEMMA StormInvariance == StormSpec => [](IInv /\ StormInv)
<1>1. StormInit => IInv /\ StormInv
  <2> SUFFICES ASSUME StormInit PROVE IInv /\ StormInv
    OBVIOUS
  <2>1. IInv
    BY Initially DEF StormInit
  <2>2. /\ exits = <<>> /\ logic.crash_times = <<>> /\ ~ logic.spawned
        /\ logic.backoff_index = 0
    BY DEF StormInit, Init, InitialLogic
  <2>3. EndOf(<<>>, <<>>, now)
    BY DEF EndOf
  <2>4. <<>> \in Seq(Time) /\ Ordered(<<>>) /\ DOMAIN <<>> = {}
    BY DEF Ordered
  <2> QED  BY <2>1, <2>2, <2>3, <2>4 DEF StormInv
<1>2. IInv /\ StormInv /\ [StormNext]_stormVars => (IInv /\ StormInv)'
  BY StormNextIsNext, StepPreserves, StormStep
<1> QED  BY <1>1, <1>2, PTL DEF StormSpec

-----------------------------------------------------------------------------
(* The cutoff, for an observer who only counts deaths: no worker starts    *)
(* after more than the storm count of them in the window, and no worker is *)
(* given up for fewer (onWorkerExit, update).                              *)
THEOREM CutOffIsExact == StormSpec => StormIsCutOff
<1> DEFINE starts == action # "Spawn" /\ action' = "Spawn"
           givesUp == ~ logic.gave_up /\ logic'.gave_up
           Cut == /\ starts => ExitsSince(now - StormWindow + 1) <= StormCount
                  /\ givesUp => ExitsSince(now - StormWindow)' > StormCount
<1>1. ASSUME IInv, StormInv, [StormNext]_stormVars
      PROVE  [Cut]_stormVars
  <2>1. /\ logic \in Logic /\ now \in Time /\ exits \in Seq(Time)
        /\ logic.crash_times \in Seq(Time) /\ EndOf(logic.crash_times, exits, now)
    BY <1>1 DEF IInv, TypeOK, Logic, StormInv
  <2>2. \A t : ExitsSince(t) = Since(exits, t) /\ ExitsSince(t)' = Since(exits', t')
    BY DEF ExitsSince, Since
  <2>3. CASE (CallStart \/ CallUpdate \/ Tick \/ Traffic) /\ UNCHANGED exits
    <3>1. ~ givesUp
      BY <1>1, <2>3, QuietStep
    <3>2. ASSUME starts
          PROVE  ExitsSince(now - StormWindow + 1) <= StormCount
      <4>1. ~ logic.gave_up
        <5>1. UpdateAction(logic, now, Overdue(logic, now)) = "Spawn"
          <6>1. CallUpdate
            <7>1. ~ CallStart /\ ~ Tick
              BY <3>2 DEF CallStart, Event, Tick
            <7>2. ~ Traffic
              BY <1>1, <3>2, TrafficStep DEF IInv
            <7> QED  BY <2>3, <7>1, <7>2
          <6> QED  BY <3>2, <6>1 DEF CallUpdate
        <5> QED  BY <5>1 DEF UpdateAction, MaySpawn
      <4>2. Len(logic.crash_times) <= StormCount /\ Len(logic.crash_times) \in Nat
        BY <1>1, <2>1, <4>1 DEF IInv, CrashRecord
      <4>3. Since(exits, now - StormWindow + 1) <= Len(logic.crash_times)
        BY <2>1, RecordCounts
      <4>4. Since(exits, now - StormWindow + 1) \in Nat
        <5>1. IsFiniteSet(DOMAIN exits)
          BY <2>1, FS_Interval
        <5> QED  BY <5>1, FS_Subset, FS_CardinalityType DEF Since
      <4> QED  BY <2>2, <4>2, <4>3, <4>4
    <3> QED  BY <3>1, <3>2
  <2>4. CASE /\ SpawnWorker \/ WorkerExit
             /\ exits' = IF Died \/ DiedAtBirth THEN Append(exits, now) ELSE exits
    <3>1. ~ starts
      BY <2>4 DEF SpawnWorker, WorkerExit
    <3>2. ASSUME givesUp
          PROVE  ExitsSince(now - StormWindow)' > StormCount
      <4>1. PICK l \in Logic : Dies(l)
        BY <1>1, <2>4, <3>2, LifeStep
      <4>2. /\ StormInv' /\ now' = now /\ Len(logic'.crash_times) > StormCount
            /\ \A j \in 1..Len(logic'.crash_times) : logic'.crash_times[j] >= now - StormWindow
        BY <1>1, <3>2, <4>1, DeathStep DEF Dies
      <4>3. logic' \in Logic
        BY <1>1, StormNextIsNext, StepPreserves DEF IInv, TypeOK
      <4>4. /\ logic'.crash_times \in Seq(Time) /\ exits' \in Seq(Time)
            /\ EndOf(logic'.crash_times, exits', now)
        BY <4>2, <4>3 DEF StormInv, Logic
      <4>5. Since(exits', now - StormWindow) >= Len(logic'.crash_times)
        BY <2>1, <4>2, <4>4, RecordCounts
      <4>6. Since(exits', now - StormWindow) \in Nat /\ Len(logic'.crash_times) \in Nat
        <5>1. IsFiniteSet(DOMAIN exits')
          BY <4>4, FS_Interval
        <5> QED  BY <4>4, <5>1, FS_Subset, FS_CardinalityType DEF Since
      <4>7. ExitsSince(now - StormWindow)' = Since(exits', now - StormWindow)
        BY <4>2 DEF ExitsSince, Since
      <4> QED  BY <4>2, <4>5, <4>6, <4>7
    <3> QED  BY <3>1, <3>2
  <2>5. CASE Restart /\ exits' = <<>>
    <3>1. ~ logic'.gave_up /\ action' = action
      BY <1>1, <2>5, RestartForgets
    <3> QED  BY <3>1
  <2>6. CASE UNCHANGED stormVars
    BY <2>6
  <2> QED  BY <1>1, <2>3, <2>4, <2>5, <2>6 DEF StormNext
<1>2. StormSpec => [][Cut]_stormVars
  BY <1>1, StormInvariance, PTL DEF StormSpec
<1> QED  BY <1>2 DEF StormIsCutOff

(* The backoff, for the same observer: the first respawn after the user's  *)
(* restart or a stable run is immediate, every other one waits a second or *)
(* more, or the cap (backoffDelay, onWorkerExit).                          *)
THEOREM BackoffIsApplied == StormSpec => BackoffApplies
<1> DEFINE dies == exits' # exits /\ exits' # <<>> /\ ~ logic'.gave_up /\ ~ logic.spawn_pending
           first == exits = <<>> \/ now - logic'.spawned_at >= StormWindow
           wait == logic'.spawn_time - now
           Apply == dies => IF first THEN wait = 0 ELSE wait >= Second \/ wait = BackoffMax
<1>1. ASSUME IInv, StormInv, [StormNext]_stormVars
      PROVE  [Apply]_stormVars
  <2> SUFFICES ASSUME dies
               PROVE  IF first THEN wait = 0 ELSE wait >= Second \/ wait = BackoffMax
    OBVIOUS
  <2>1. /\ SpawnWorker \/ WorkerExit
        /\ exits' = IF Died \/ DiedAtBirth THEN Append(exits, now) ELSE exits
    BY <1>1 DEF StormNext, stormVars
  <2>2. ~ logic.gave_up /\ \E l \in Logic : Dies(l)
    BY <1>1, <2>1, LifeStep
  <2>3. PICK l \in Logic : Dies(l)
    BY <2>2
  <2>4. /\ logic'.spawned_at = l.spawned_at
        /\ IF now - l.spawned_at >= StormWindow \/ l.backoff_index = 0
           THEN Wait(logic', now) = 0
           ELSE Wait(logic', now) >= Second \/ Wait(logic', now) = BackoffMax
    BY <1>1, <2>3, DeathStep
  <2>5. (l.backoff_index = 0) <=> (exits = <<>>)
    BY <1>1, <2>2, <2>3 DEF Dies, StormInv
  <2>6. Wait(logic', now) = wait
    BY DEF Wait
  <2> QED  BY <2>4, <2>5, <2>6
<1>2. StormSpec => [][Apply]_stormVars
  BY <1>1, StormInvariance, PTL DEF StormSpec
<1> QED  BY <1>2 DEF BackoffApplies
=============================================================================
