------------------------- MODULE BufferLease_proofs -------------------------
(***************************************************************************)
(* The frame path implements the buffer lease, for every set of slides,    *)
(* every number of buffers and every fault: a buffer has one owner, and    *)
(* the worker does not render into what main displays while it is on       *)
(* dma-bufs.  The lease rests on there being one frame in flight at a      *)
(* time, which comes first.  On the lease rest: main takes a frame for     *)
(* what it is, what it displays is live, and three buffers per slide never *)
(* run out.                                                                *)
(***************************************************************************)
EXTENDS FrameStream, ProofLemmas

-----------------------------------------------------------------------------
(* One frame in flight, as the UI knows. *)

(* What the two processes hold.                                            *)
WorkerFields == {"transport", "content", "ring", "announced", "shm", "queue", "job"}
JobFields == {"frame", "todo", "results", "target", "buffer"}

WorkerShape ==
  /\ WorkerFields \subseteq DOMAIN worker /\ IsQueue(worker.queue)
  /\ JobFields \subseteq DOMAIN worker.job
  /\ worker.job.frame \in BOOLEAN /\ IsFiniteSet(worker.job.results)

UIShape ==
  /\ {"phase", "outstanding", "retiring"} \subseteq DOMAIN ui
  /\ ui.outstanding \in BOOLEAN /\ IsFiniteSet(ui.retiring)

(* The results of a frame are finitely many, so the releases they make     *)
(* can be sent in some order.                                              *)
Carries(q) ==
  \E M : q \in Seq(M) /\ \A m \in M : m.type = "FrameDone" => IsFiniteSet(m.results)

InFlight ==
  CountOf(toWorker, "FrameBegin") + CountOf(worker.queue, "FrameBegin")
    + CountOf(toMain, "FrameDone") + (IF worker.job.frame THEN 1 ELSE 0)

FrameInv ==
  /\ WorkerShape /\ UIShape /\ IsQueue(toWorker) /\ Carries(toMain)
  /\ proc = "none" => ~ ui.outstanding
  /\ proc = "running" => InFlight = IF ui.outstanding THEN 1 ELSE 0

-----------------------------------------------------------------------------
LEMMA CarriesIntro ==
  ASSUME NEW M, \A m \in M : m.type = "FrameDone" => IsFiniteSet(m.results), NEW q \in Seq(M)
  PROVE  Carries(q)
BY DEF Carries

LEMMA CarriesNothing == Carries(<<>>)
<1>1. \A M : (\A m \in M : m.type = "FrameDone" => IsFiniteSet(m.results))
               => \A q \in Seq(M) : Carries(q)
  BY CarriesIntro
<1>2. (\A m \in {} : m.type = "FrameDone" => IsFiniteSet(m.results)) /\ <<>> \in Seq({})
  OBVIOUS
<1> QED  BY <1>1, <1>2, Zenon

LEMMA CarriesMore ==
  ASSUME NEW q, Carries(q), NEW m, m.type = "FrameDone" => IsFiniteSet(m.results)
  PROVE  Carries(Append(q, m))
<1>1. PICK M : q \in Seq(M) /\ \A x \in M : x.type = "FrameDone" => IsFiniteSet(x.results)
  BY DEF Carries
<1>2. Append(q, m) \in Seq(M \cup {m})
  BY <1>1
<1>3. \A x \in M \cup {m} : x.type = "FrameDone" => IsFiniteSet(x.results)
  BY <1>1
<1> QED  BY <1>2, <1>3, CarriesIntro

LEMMA CarriesLess ==
  ASSUME NEW q, Carries(q), q # <<>>
  PROVE  /\ Carries(Tail(q))
         /\ Head(q).type = "FrameDone" => IsFiniteSet(Head(q).results)
<1>1. PICK M : q \in Seq(M) /\ \A x \in M : x.type = "FrameDone" => IsFiniteSet(x.results)
  BY DEF Carries
<1>2. Tail(q) \in Seq(M) /\ Head(q) \in M
  BY <1>1
<1> QED  BY <1>1, <1>2, CarriesIntro

LEMMA CarriesIsQueue == \A q : Carries(q) => IsQueue(q)
BY DEF Carries, IsQueue

(* Sending releases adds no FrameBegin to the socket.                      *)
LEMMA ReleasesSent ==
  ASSUME IsQueue(toWorker), NEW S, IsFiniteSet(S), \A m \in S : m.type = "BufferRelease"
  PROVE  /\ IsQueue(Sent(InSomeOrder(S)))
         /\ CountOf(Sent(InSomeOrder(S)), "FrameBegin") = CountOf(toWorker, "FrameBegin")
<1> DEFINE q == InSomeOrder(S)
<1>1. q \in [1..Cardinality(S) -> S] /\ Cardinality(S) \in Nat
  BY OrderExists, FS_CardinalityType DEF InSomeOrder
<1> HIDE DEF q
<1>2. q \in Seq(S) /\ \A i \in DOMAIN q : q[i] \in S
  BY <1>1
<1>3. \A i \in DOMAIN q : q[i].type # "FrameBegin"
  BY <1>2
<1>4. PICK K : toWorker \in Seq(K)
  BY DEF IsQueue
<1>5. toWorker \in Seq(K \cup S) /\ q \in Seq(K \cup S) /\ toWorker \o q \in Seq(K \cup S)
  BY <1>2, <1>4
<1>6. CountOf(toWorker \o q, "FrameBegin") = CountOf(toWorker, "FrameBegin")
  BY <1>3, <1>5, CountOthers
<1>7. IsQueue(toWorker \o q)
  BY <1>5 DEF IsQueue
<1> QED  BY <1>6, <1>7 DEF Sent, q

-----------------------------------------------------------------------------
(* The UI frame. *)

LEMMA InitFrame == Init => FrameInv
<1> SUFFICES ASSUME Init PROVE FrameInv
  OBVIOUS
<1>1. IsFiniteSet({}) /\ Carries(<<>>) /\ IsQueue(<<>>)
  BY FS_EmptySet, CarriesNothing, QueueFacts
<1> QED  BY <1>1 DEF Init, FrameInv, WorkerShape, UIShape, FreshWorker, NoJob, WorkerFields, JobFields

(* Whatever changes neither a queue nor what is outstanding.               *)
LEMMA NothingMoves ==
  ASSUME FrameInv, UNCHANGED <<worker, toMain, toWorker>>, UIShape',
         ui'.outstanding = ui.outstanding, proc' = proc
  PROVE  FrameInv'
<1>1. WorkerShape'
  BY DEF FrameInv, WorkerShape
<1>2. InFlight' = InFlight
  BY DEF InFlight
<1> QED  BY <1>1, <1>2 DEF FrameInv

LEMMA ReapFrame ==
  ASSUME FrameInv, Reap
  PROVE  FrameInv'
<1>1. UIShape' /\ ~ ui'.outstanding
  BY FS_EmptySet DEF Reap, AfterDeath, UIShape
<1>2. WorkerShape' /\ IsQueue(toWorker') /\ Carries(toMain') /\ proc' = "none"
  BY CarriesNothing DEF Reap, FrameInv, WorkerShape
<1> QED  BY <1>1, <1>2 DEF FrameInv

LEMMA AnnounceFrame ==
  ASSUME FrameInv, RecvTextureAnnounce
  PROVE  FrameInv'
<1>1. /\ toMain # <<>> /\ toMain' = Tail(toMain) /\ Head(toMain).type = "TextureAnnounce"
      /\ UNCHANGED <<proc, ui, worker, toWorker>>
  BY DEF RecvTextureAnnounce, Receiving
<1>2. WorkerShape' /\ UIShape' /\ IsQueue(toWorker') /\ Carries(toMain')
  BY <1>1, CarriesLess DEF FrameInv, WorkerShape, UIShape
<1>3. CountOf(toMain', "FrameDone") = CountOf(toMain, "FrameDone")
  <2>1. IsQueue(toMain)
    BY CarriesIsQueue DEF FrameInv
  <2>2. /\ CountOf(toMain, "FrameDone") = CountOf(Tail(toMain), "FrameDone") + 0
        /\ CountOf(Tail(toMain), "FrameDone") \in Nat
    BY <1>1, <2>1, QueueFacts
  <2> QED  BY <1>1, <2>2
<1>4. InFlight' = InFlight
  BY <1>1, <1>3 DEF InFlight
<1> QED  BY <1>1, <1>2, <1>4 DEF FrameInv

LEMMA DisplacedFinite ==
  ASSUME NEW R, IsFiniteSet(R)
  PROVE  IsFiniteSet(Displaced(R))
<1> DEFINE S == {q \in R : Promotes(q) /\ streams[q.slide].front \notin {-1, q.buffer}}
           f == [r \in S |-> <<r.slide, streams[r.slide].front>>]
<1>1. IsFiniteSet(S)
  <2>1. S \in SUBSET R
    OBVIOUS
  <2> QED  BY <2>1, FS_Subset
<1>2. DOMAIN f = S /\ {f[r] : r \in DOMAIN f} = Displaced(R)
  BY DEF Displaced
<1> HIDE DEF f
<1> QED  BY <1>1, <1>2, ImageIsFinite

LEMMA UploadsFinite ==
  ASSUME NEW R, IsFiniteSet(R)
  PROVE  IsFiniteSet({Release(r.slide, r.buffer) : r \in {q \in R : Uploads(q)}})
<1> DEFINE S == {q \in R : Uploads(q)}
           f == [r \in S |-> Release(r.slide, r.buffer)]
<1>1. IsFiniteSet(S)
  <2>1. S \in SUBSET R
    OBVIOUS
  <2> QED  BY <2>1, FS_Subset
<1>2. DOMAIN f = S /\ {f[r] : r \in DOMAIN f} = {Release(r.slide, r.buffer) : r \in S}
  OBVIOUS
<1> HIDE DEF f
<1> QED  BY <1>1, <1>2, ImageIsFinite

LEMMA RetiringFinite ==
  ASSUME NEW R, IsFiniteSet(R)
  PROVE  IsFiniteSet({Release(x[1], x[2]) : x \in R})
<1> DEFINE f == [x \in R |-> Release(x[1], x[2])]
<1>1. DOMAIN f = R /\ {f[x] : x \in DOMAIN f} = {Release(x[1], x[2]) : x \in R}
  OBVIOUS
<1> HIDE DEF f
<1> QED  BY <1>1, ImageIsFinite

(* The FrameDone was the one frame in flight.                              *)
LEMMA DoneFrame ==
  ASSUME FrameInv, RecvFrameDone
  PROVE  FrameInv'
<1> DEFINE R == Head(toMain).results
           S == {Release(r.slide, r.buffer) : r \in {q \in R : Uploads(q)}}
<1>1. /\ toMain # <<>> /\ toMain' = Tail(toMain) /\ Head(toMain).type = "FrameDone"
      /\ toWorker' = Sent(InSomeOrder(S))
      /\ ui' = [ui EXCEPT !.outstanding = FALSE, !.retiring = @ \cup Displaced(R)]
      /\ UNCHANGED <<proc, worker>>
  BY DEF RecvFrameDone, Receiving
<1>2. Carries(toMain') /\ IsFiniteSet(R)
  BY <1>1, CarriesLess DEF FrameInv
<1>3. IsFiniteSet(S) /\ \A m \in S : m.type = "BufferRelease"
  <2>1. \A m \in S : m.type = "BufferRelease"
    BY DEF Release
  <2> QED  BY <2>1, <1>2, UploadsFinite
<1> HIDE DEF S
<1>4. IsQueue(toWorker') /\ CountOf(toWorker', "FrameBegin") = CountOf(toWorker, "FrameBegin")
  BY <1>1, <1>3, ReleasesSent DEF FrameInv
<1>5. IsFiniteSet(ui.retiring \cup Displaced(R))
  BY <1>2, DisplacedFinite, FS_Union DEF FrameInv, UIShape
<1>6. UIShape' /\ ~ ui'.outstanding
  <2>1. {"phase", "outstanding", "retiring"} \subseteq DOMAIN ui
    BY DEF FrameInv, UIShape
  <2>2. ui'.outstanding = FALSE /\ ui'.retiring = ui.retiring \cup Displaced(R)
        /\ DOMAIN ui' = DOMAIN ui
    BY <1>1, <2>1
  <2> QED  BY <1>5, <2>1, <2>2 DEF UIShape
<1>7. WorkerShape'
  BY <1>1 DEF FrameInv, WorkerShape
<1>8. /\ CountOf(toMain, "FrameDone") = CountOf(toMain', "FrameDone") + 1
      /\ CountOf(toMain', "FrameDone") \in Nat
  BY <1>1, QueueFacts, CarriesIsQueue DEF FrameInv
<1>9. CountOf(toWorker, "FrameBegin") \in Nat /\ CountOf(worker.queue, "FrameBegin") \in Nat
  BY QueueFacts DEF FrameInv, WorkerShape
<1>10. ASSUME proc = "running"
       PROVE  InFlight' = 0
  <2>1. InFlight = IF ui.outstanding THEN 1 ELSE 0
    BY <1>10 DEF FrameInv
  <2>2. InFlight' = CountOf(toWorker, "FrameBegin") + CountOf(worker.queue, "FrameBegin")
                     + CountOf(toMain', "FrameDone") + (IF worker.job.frame THEN 1 ELSE 0)
    BY <1>1, <1>4 DEF InFlight
  <2> QED  BY <2>1, <2>2, <1>8, <1>9 DEF InFlight
<1> QED  BY <1>1, <1>2, <1>4, <1>6, <1>7, <1>10 DEF FrameInv

LEMMA SpawnFrame ==
  ASSUME FrameInv, Spawn
  PROVE  FrameInv'
<1>1. /\ ~ ui.outstanding /\ toMain' = <<>> /\ toWorker' = <<>> /\ proc' = "running"
      /\ worker'.queue = <<>> /\ worker'.job.frame = FALSE
  BY DEF Spawn, FrameInv, FreshWorker, NoJob
<1>2. WorkerShape'
  <2>1. worker' = FreshWorker /\ IsFiniteSet({}) /\ IsQueue(<<>>)
    BY FS_EmptySet, QueueFacts DEF Spawn
  <2> QED  BY <2>1 DEF WorkerShape, FreshWorker, NoJob, WorkerFields, JobFields
<1>3. UIShape' /\ ui'.outstanding = ui.outstanding
  BY DEF Spawn, FrameInv, UIShape
<1>4. InFlight' = 0
  <2>1. CountOf(<<>>, "FrameBegin") = 0 /\ CountOf(<<>>, "FrameDone") = 0
    BY CountEmpty
  <2> QED  BY <1>1, <2>1 DEF InFlight
<1>5. IsQueue(toWorker') /\ Carries(toMain')
  BY <1>1, QueueFacts, CarriesNothing
<1> QED  BY <1>1, <1>2, <1>3, <1>4, <1>5 DEF FrameInv

LEMMA EndFrameFrame ==
  ASSUME FrameInv, NEW V, EndFrame(V)
  PROVE  FrameInv'
<1>1. WorkerShape' /\ Carries(toMain') /\ proc' = proc /\ toMain' = toMain /\ worker' = worker
  BY DEF EndFrame, FrameInv, WorkerShape
<1>2. UIShape' /\ ui'.outstanding = (ui.outstanding \/ Begins(V))
  BY DEF EndFrame, FrameInv, UIShape, Begins
<1>3. CASE Begins(V)
  <2>1. proc = "running" /\ ~ ui.outstanding /\ toWorker' = Append(toWorker, FrameBegin(V))
    BY <1>3 DEF EndFrame, Begins
  <2>2. IsQueue(toWorker')
        /\ CountOf(toWorker', "FrameBegin") = CountOf(toWorker, "FrameBegin") + 1
    <3>1. IsQueue(toWorker) /\ FrameBegin(V).type = "FrameBegin"
      BY DEF FrameInv, FrameBegin
    <3> QED  BY <2>1, <3>1, QueueFacts
  <2>3. /\ CountOf(toWorker, "FrameBegin") \in Nat /\ CountOf(worker.queue, "FrameBegin") \in Nat
        /\ CountOf(toMain, "FrameDone") \in Nat
    BY QueueFacts, CarriesIsQueue DEF FrameInv, WorkerShape
  <2>4. InFlight = 0
    BY <2>1 DEF FrameInv
  <2>5. InFlight' = 1
    BY <2>2, <2>3, <2>4, <1>1 DEF InFlight
  <2> QED  BY <1>1, <1>2, <1>3, <2>1, <2>2, <2>5 DEF FrameInv
<1>4. CASE ~ Begins(V)
  <2>1. toWorker' = toWorker
    BY <1>4 DEF EndFrame
  <2>2. ui'.outstanding = ui.outstanding
    BY <1>2, <1>4 DEF FrameInv, UIShape
  <2> QED  BY <1>1, <1>2, <2>1, <2>2, NothingMoves
<1> QED  BY <1>3, <1>4

LEMMA PostSwapFrame ==
  ASSUME FrameInv, PostSwap
  PROVE  FrameInv'
<1> DEFINE S == {Release(x[1], x[2]) : x \in ui.retiring}
<1>1. /\ toWorker' = Sent(InSomeOrder(S)) /\ UNCHANGED <<proc, worker, toMain>>
      /\ ui' = [ui EXCEPT !.phase = "reap", !.retiring = {}]
  BY DEF PostSwap
<1>2. IsFiniteSet(S) /\ \A m \in S : m.type = "BufferRelease"
  <2>1. \A m \in S : m.type = "BufferRelease"
    BY DEF Release
  <2> QED  BY <2>1, RetiringFinite DEF FrameInv, UIShape
<1> HIDE DEF S
<1>3. IsQueue(toWorker') /\ CountOf(toWorker', "FrameBegin") = CountOf(toWorker, "FrameBegin")
  BY <1>1, <1>2, ReleasesSent DEF FrameInv
<1>4. UIShape' /\ ui'.outstanding = ui.outstanding
  BY <1>1, FS_EmptySet DEF FrameInv, UIShape
<1>5. WorkerShape' /\ Carries(toMain')
  BY <1>1 DEF FrameInv, WorkerShape
<1>6. InFlight' = InFlight
  BY <1>1, <1>3 DEF InFlight
<1> QED  BY <1>1, <1>3, <1>4, <1>5, <1>6 DEF FrameInv

-----------------------------------------------------------------------------
(* The worker. *)

(* A step of the work thread that takes nothing from its queue and stays   *)
(* in its frame, and sends at most an announce.                            *)
LEMMA FrameGoesOn ==
  ASSUME FrameInv, WorkerShape', worker'.queue = worker.queue,
         worker'.job.frame = worker.job.frame,
         UNCHANGED <<proc, ui, toWorker>>,
         \/ toMain' = toMain
         \/ \E m : m.type = "TextureAnnounce" /\ toMain' = Append(toMain, m)
  PROVE  FrameInv'
<1>1. Carries(toMain') /\ CountOf(toMain', "FrameDone") = CountOf(toMain, "FrameDone")
  <2>1. CASE toMain' = toMain
    BY <2>1 DEF FrameInv
  <2>2. ASSUME NEW m, m.type = "TextureAnnounce", toMain' = Append(toMain, m)
        PROVE  Carries(toMain') /\ CountOf(toMain', "FrameDone") = CountOf(toMain, "FrameDone")
    <3>1. Carries(toMain) /\ IsQueue(toMain)
      BY CarriesIsQueue DEF FrameInv
    <3>2. Carries(toMain')
      BY <2>2, <3>1, CarriesMore
    <3>3. /\ CountOf(toMain', "FrameDone") = CountOf(toMain, "FrameDone") + 0
          /\ CountOf(toMain, "FrameDone") \in Nat
      BY <2>2, <3>1, QueueFacts
    <3> QED  BY <3>2, <3>3
  <2> QED  BY <2>1, <2>2
<1>2. InFlight' = InFlight
  BY <1>1 DEF InFlight
<1>3. UIShape' /\ IsQueue(toWorker')
  BY DEF FrameInv, UIShape
<1> QED  BY <1>1, <1>2, <1>3 DEF FrameInv

(* The worker's input is queued: a FrameBegin that arrives is the only one *)
(* there is, so it replaces none.                                          *)
LEMMA QueuedInOrder ==
  ASSUME FrameInv, IORecv
  PROVE  worker'.queue = Append(worker.queue, Head(toWorker))
<1> DEFINE m == Head(toWorker)
           n == Len(worker.queue)
<1>1. /\ proc = "running" /\ toWorker # <<>>
      /\ worker' = [worker EXCEPT !.queue = Posted(@, m)]
  BY DEF IORecv, WorkerStep
<1>2. IsQueue(toWorker) /\ IsQueue(worker.queue) /\ IsQueue(toMain) /\ WorkerFields \subseteq DOMAIN worker
  BY CarriesIsQueue DEF FrameInv, WorkerShape
<1>3. Posted(worker.queue, m) = Append(worker.queue, m)
  <2>1. CASE m.type # "FrameBegin"
    BY <2>1 DEF Posted
  <2>2. CASE m.type = "FrameBegin"
    <3>1. CountOf(worker.queue, "FrameBegin") = 0
      <4>1. /\ CountOf(toWorker, "FrameBegin") = CountOf(Tail(toWorker), "FrameBegin") + 1
            /\ CountOf(Tail(toWorker), "FrameBegin") \in Nat
            /\ CountOf(worker.queue, "FrameBegin") \in Nat /\ CountOf(toMain, "FrameDone") \in Nat
        BY <1>1, <1>2, <2>2, QueueFacts
      <4>2. InFlight = IF ui.outstanding THEN 1 ELSE 0
        BY <1>1 DEF FrameInv
      <4> QED  BY <4>1, <4>2 DEF InFlight
    <3>2. worker.queue # <<>> => n \in DOMAIN worker.queue
      BY <1>2 DEF IsQueue
    <3>3. worker.queue # <<>> => worker.queue[n].type # "FrameBegin"
      BY <3>1, <3>2, <1>2, CountMember
    <3> QED  BY <3>3 DEF Posted
  <2> QED  BY <2>1, <2>2
<1> QED  BY <1>1, <1>2, <1>3 DEF WorkerFields

LEMMA ReceiveFrame ==
  ASSUME FrameInv, IORecv
  PROVE  FrameInv'
<1> DEFINE m == Head(toWorker)
<1>1. /\ proc = "running" /\ toWorker # <<>> /\ toWorker' = Tail(toWorker)
      /\ worker' = [worker EXCEPT !.queue = Posted(@, m)]
      /\ UNCHANGED <<proc, ui, toMain>>
  BY DEF IORecv, WorkerStep
<1>2. IsQueue(toWorker) /\ IsQueue(worker.queue) /\ IsQueue(toMain) /\ Carries(toMain')
      /\ worker.job.frame \in BOOLEAN
  BY <1>1, CarriesIsQueue DEF FrameInv, WorkerShape
<1>3. /\ IsQueue(toWorker') /\ CountOf(toWorker', "FrameBegin") \in Nat
      /\ CountOf(toWorker, "FrameBegin") =
           CountOf(toWorker', "FrameBegin") + IF m.type = "FrameBegin" THEN 1 ELSE 0
  BY <1>1, <1>2, QueueFacts
<1>4. CountOf(worker.queue, "FrameBegin") \in Nat /\ CountOf(toMain, "FrameDone") \in Nat
  BY <1>2, QueueFacts
<1>5. InFlight = IF ui.outstanding THEN 1 ELSE 0
  BY <1>1 DEF FrameInv
<1>6. worker'.queue = Append(worker.queue, m)
  BY QueuedInOrder
<1>7. /\ IsQueue(Append(worker.queue, m))
      /\ CountOf(Append(worker.queue, m), "FrameBegin") =
           CountOf(worker.queue, "FrameBegin") + IF m.type = "FrameBegin" THEN 1 ELSE 0
  BY <1>2, QueueFacts
<1>8. worker'.queue = Append(worker.queue, m) /\ worker'.job = worker.job /\ WorkerShape'
  <2>1. WorkerShape
    BY DEF FrameInv
  <2>2. worker'.queue = Append(worker.queue, m) /\ worker'.job = worker.job
        /\ DOMAIN worker' = DOMAIN worker
    BY <1>1, <1>6, <2>1 DEF WorkerShape, WorkerFields
  <2> QED  BY <1>7, <2>1, <2>2 DEF WorkerShape
<1>9. InFlight' = InFlight
  <2>1. InFlight' = CountOf(toWorker', "FrameBegin") + CountOf(Append(worker.queue, m), "FrameBegin")
                     + CountOf(toMain, "FrameDone") + (IF worker.job.frame THEN 1 ELSE 0)
    BY <1>1, <1>8 DEF InFlight
  <2> QED  BY <2>1, <1>3, <1>4, <1>7 DEF InFlight
<1>10. UIShape'
  BY <1>1 DEF FrameInv, UIShape
<1> QED  BY <1>1, <1>2, <1>3, <1>5, <1>8, <1>9, <1>10 DEF FrameInv

LEMMA ReleaseFrame ==
  ASSUME FrameInv, HandleBufferRelease
  PROVE  FrameInv'
<1>1. /\ proc = "running" /\ worker.queue # <<>> /\ Head(worker.queue).type = "BufferRelease"
      /\ UNCHANGED <<proc, ui, toMain, toWorker>>
  BY DEF HandleBufferRelease, WorkerStep
<1>2. /\ worker'.queue = Tail(worker.queue) /\ worker'.job = worker.job
      /\ DOMAIN worker' = DOMAIN worker
  BY DEF HandleBufferRelease, WorkerStep, FrameInv, WorkerShape, WorkerFields
<1>3. /\ IsQueue(Tail(worker.queue))
      /\ CountOf(worker.queue, "FrameBegin") = CountOf(Tail(worker.queue), "FrameBegin") + 0
      /\ CountOf(Tail(worker.queue), "FrameBegin") \in Nat
  BY <1>1, QueueFacts DEF FrameInv, WorkerShape
<1>4. WorkerShape'
  BY <1>2, <1>3 DEF FrameInv, WorkerShape
<1>5. InFlight' = InFlight
  BY <1>1, <1>2, <1>3 DEF InFlight
<1> QED  BY <1>1, <1>4, <1>5 DEF FrameInv, UIShape

LEMMA BeginFrame ==
  ASSUME FrameInv, HandleFrameBegin
  PROVE  FrameInv'
<1>1. /\ proc = "running" /\ worker.queue # <<>> /\ Head(worker.queue).type = "FrameBegin"
      /\ worker.job.frame = FALSE /\ UNCHANGED <<proc, ui, toMain, toWorker>>
  BY DEF HandleFrameBegin, WorkerStep, FrameInv, WorkerShape, Idle, Job
<1>2. /\ worker'.queue = Tail(worker.queue) /\ DOMAIN worker' = DOMAIN worker
      /\ worker'.job = [NoJob EXCEPT !.frame = TRUE, !.todo = Head(worker.queue).slides]
  BY DEF HandleFrameBegin, WorkerStep, FrameInv, WorkerShape, WorkerFields
<1>3. /\ IsQueue(Tail(worker.queue))
      /\ CountOf(worker.queue, "FrameBegin") = CountOf(Tail(worker.queue), "FrameBegin") + 1
      /\ CountOf(Tail(worker.queue), "FrameBegin") \in Nat
  BY <1>1, QueueFacts DEF FrameInv, WorkerShape
<1>4. JobFields \subseteq DOMAIN worker'.job /\ worker'.job.frame = TRUE
      /\ worker'.job.results = {}
  BY <1>2 DEF NoJob, JobFields
<1>5. WorkerShape'
  BY <1>2, <1>3, <1>4, FS_EmptySet DEF FrameInv, WorkerShape
<1>6. CountOf(toWorker, "FrameBegin") \in Nat /\ CountOf(toMain, "FrameDone") \in Nat
  BY QueueFacts, CarriesIsQueue DEF FrameInv
<1>7. InFlight' = InFlight
  BY <1>1, <1>2, <1>3, <1>4, <1>6 DEF InFlight
<1> QED  BY <1>1, <1>5, <1>7 DEF FrameInv, UIShape

(* Results are added one by one, so they stay finitely many.               *)
LEMMA OneMore ==
  ASSUME NEW R, IsFiniteSet(R), NEW r
  PROVE  IsFiniteSet(R \cup {r})
BY FS_AddElement

LEMMA SkippedShape ==
  ASSUME WorkerShape, NEW w, DOMAIN w = DOMAIN worker, w.queue = worker.queue,
         w.job = worker.job
  PROVE  LET v == Skipped(w)
         IN  /\ DOMAIN v = DOMAIN worker /\ v.queue = worker.queue
             /\ JobFields \subseteq DOMAIN v.job /\ v.job.frame = worker.job.frame
             /\ IsFiniteSet(v.job.results)
<1> DEFINE r == Result(Current, kInvalid, w.transport, FALSE)
           v == Skipped(w)
<1>1. IsFiniteSet(worker.job.results \cup {r})
  BY OneMore DEF WorkerShape
<1>2. JobFields \subseteq DOMAIN w.job /\ WorkerFields \subseteq DOMAIN w
  BY DEF WorkerShape
<1>3. v.job.results = worker.job.results \cup {r} /\ v.job.frame = worker.job.frame
      /\ DOMAIN v.job = DOMAIN w.job /\ DOMAIN v = DOMAIN w /\ v.queue = w.queue
  <2> HIDE DEF r
  <2> QED  BY <1>2 DEF Skipped, r, WorkerFields, JobFields
<1> QED  BY <1>1, <1>2, <1>3

LEMMA SkipFrame ==
  ASSUME FrameInv, SkipSlide \/ ShmFails
  PROVE  FrameInv'
<1>1. WorkerShape /\ UNCHANGED <<proc, ui, toMain, toWorker>>
  BY DEF SkipSlide, ShmFails, WorkerStep, FrameInv
<1>2. PICK w : /\ DOMAIN w = DOMAIN worker /\ w.queue = worker.queue /\ w.job = worker.job
               /\ worker' = Skipped(w)
  <2>1. CASE SkipSlide
    BY <2>1 DEF SkipSlide, WorkerStep
  <2>2. CASE ShmFails
    <3> DEFINE w == [worker EXCEPT !.transport = "shm",
                       !.ring[Current] = Released(Acquired(@), Buffer)]
    <3>1. worker' = Skipped(w)
      BY <2>2 DEF ShmFails, WorkerStep
    <3>2. DOMAIN w = DOMAIN worker /\ w.queue = worker.queue /\ w.job = worker.job
      BY <1>1 DEF WorkerShape, WorkerFields
    <3> QED  BY <3>1, <3>2
  <2> QED  BY <2>1, <2>2
<1>3. WorkerShape' /\ worker'.queue = worker.queue /\ worker'.job.frame = worker.job.frame
  BY <1>1, <1>2, SkippedShape DEF WorkerShape
<1> QED  BY <1>1, <1>3, FrameGoesOn

(* Taking a buffer leaves the frame and its results alone.                 *)
LEMMA BegunShape ==
  ASSUME WorkerShape, NEW w, DOMAIN w = DOMAIN worker, w.queue = worker.queue,
         w.job = worker.job, NEW t
  PROVE  LET v == Begun(w, t)
         IN  /\ DOMAIN v = DOMAIN worker /\ v.queue = worker.queue
             /\ JobFields \subseteq DOMAIN v.job /\ v.job.frame = worker.job.frame
             /\ v.job.results = worker.job.results
<1>1. JobFields \subseteq DOMAIN w.job /\ WorkerFields \subseteq DOMAIN w
  BY DEF WorkerShape
<1> QED  BY <1>1 DEF Begun, WorkerFields, JobFields

LEMMA RenderFrame ==
  ASSUME FrameInv, BeginDmabuf \/ BeginShm
  PROVE  FrameInv'
<1>1. WorkerShape /\ UNCHANGED <<proc, ui, toWorker>>
  BY DEF BeginDmabuf, BeginShm, WorkerStep, FrameInv
<1>2. \/ toMain' = toMain
      \/ \E m : m.type = "TextureAnnounce" /\ toMain' = Append(toMain, m)
  <2>1. \A tr : Announce(Current, Buffer, tr).type = "TextureAnnounce"
    BY DEF Announce
  <2> QED  BY <2>1 DEF BeginDmabuf, BeginShm
<1>3. \E w, t : /\ DOMAIN w = DOMAIN worker /\ w.queue = worker.queue /\ w.job = worker.job
                /\ worker' = Begun(w, t)
  <2>1. CASE BeginDmabuf
    <3> DEFINE w == [worker EXCEPT !.announced = @ \cup {<<Current, Buffer>>}]
    <3>1. worker' = Begun(w, Buffer)
      BY <2>1 DEF BeginDmabuf, WorkerStep
    <3>2. DOMAIN w = DOMAIN worker /\ w.queue = worker.queue /\ w.job = worker.job
      BY <1>1 DEF WorkerShape, WorkerFields
    <3> QED  BY <3>1, <3>2
  <2>2. CASE BeginShm
    <3> DEFINE w == [worker EXCEPT !.transport = "shm", !.shm = @ \cup {<<Current, Buffer>>}]
    <3>1. worker' = Begun(w, 0)
      BY <2>2 DEF BeginShm, WorkerStep
    <3>2. DOMAIN w = DOMAIN worker /\ w.queue = worker.queue /\ w.job = worker.job
      BY <1>1 DEF WorkerShape, WorkerFields
    <3> QED  BY <3>1, <3>2
  <2> QED  BY <2>1, <2>2
<1>4. WorkerShape' /\ worker'.queue = worker.queue /\ worker'.job.frame = worker.job.frame
  BY <1>1, <1>3, BegunShape DEF WorkerShape
<1> QED  BY <1>1, <1>2, <1>4, FrameGoesOn

LEMMA FinishFrame ==
  ASSUME FrameInv, FinishSlide
  PROVE  FrameInv'
<1>1. /\ WorkerShape /\ worker.job.frame = TRUE /\ UNCHANGED <<proc, ui, toMain, toWorker>>
  BY DEF FinishSlide, WorkerStep, FrameInv, WorkerShape, Idle, Job
<1>2. PICK C, r : worker' = [worker EXCEPT
                 !.content = C,
                 !.job = [NoJob EXCEPT !.frame = TRUE, !.todo = Job.todo \ {Current},
                                       !.results = Job.results \cup {r}]]
  BY DEF FinishSlide, WorkerStep
<1>3. IsFiniteSet(Job.results \cup {r})
  BY <1>1, OneMore DEF WorkerShape, Job
<1>4. /\ DOMAIN worker' = DOMAIN worker /\ worker'.queue = worker.queue
      /\ worker'.job = [NoJob EXCEPT !.frame = TRUE, !.todo = Job.todo \ {Current},
                                     !.results = Job.results \cup {r}]
  BY <1>1, <1>2 DEF WorkerShape, WorkerFields
<1>5. /\ JobFields \subseteq DOMAIN worker'.job /\ worker'.job.frame = TRUE
      /\ worker'.job.results = Job.results \cup {r}
  BY <1>4 DEF NoJob, JobFields
<1>6. WorkerShape'
  BY <1>1, <1>3, <1>4, <1>5 DEF WorkerShape
<1> QED  BY <1>1, <1>4, <1>5, <1>6, FrameGoesOn

(* The frame leaves the worker and is on its way to main.                  *)
LEMMA SendFrame ==
  ASSUME FrameInv, SendFrameDone
  PROVE  FrameInv'
<1> DEFINE m == FrameDone(Job.results)
<1>1. /\ WorkerShape /\ worker.job.frame = TRUE /\ UNCHANGED <<proc, ui, toWorker>>
      /\ toMain' = Append(toMain, m) /\ worker' = [worker EXCEPT !.job = NoJob]
  BY DEF SendFrameDone, WorkerStep, FrameInv, WorkerShape, Idle, Job
<1>2. m.type = "FrameDone" /\ IsFiniteSet(m.results)
  BY <1>1 DEF FrameDone, WorkerShape, Job
<1> HIDE DEF m
<1>3. Carries(toMain) /\ IsQueue(toMain)
  BY CarriesIsQueue DEF FrameInv
<1>4. Carries(toMain')
  BY <1>1, <1>2, <1>3, CarriesMore
<1>5. /\ CountOf(toMain', "FrameDone") = CountOf(toMain, "FrameDone") + 1
      /\ CountOf(toMain, "FrameDone") \in Nat
  <2>1. CountOf(toMain, "FrameDone") \in Nat
    BY <1>3, QueueFacts
  <2>2. CountOf(Append(toMain, m), "FrameDone") =
          CountOf(toMain, "FrameDone") + IF m.type = "FrameDone" THEN 1 ELSE 0
    BY <1>3, QueueFacts
  <2> QED  BY <1>1, <1>2, <2>1, <2>2
<1>6. /\ DOMAIN worker' = DOMAIN worker /\ worker'.queue = worker.queue
      /\ worker'.job = NoJob
  BY <1>1 DEF WorkerShape, WorkerFields
<1>7. WorkerShape' /\ worker'.job.frame = FALSE
  <2>1. /\ JobFields \subseteq DOMAIN NoJob /\ NoJob.frame = FALSE
        /\ NoJob.results = {} /\ IsFiniteSet({})
    BY FS_EmptySet DEF NoJob, JobFields
  <2> QED  BY <1>1, <1>6, <2>1 DEF WorkerShape
<1>8. CountOf(toWorker, "FrameBegin") \in Nat /\ CountOf(worker.queue, "FrameBegin") \in Nat
  BY QueueFacts DEF FrameInv, WorkerShape
<1>9. InFlight' = InFlight
  BY <1>1, <1>5, <1>6, <1>7, <1>8 DEF InFlight
<1> QED  BY <1>1, <1>4, <1>7, <1>9 DEF FrameInv, UIShape

LEMMA CrashFrame ==
  ASSUME FrameInv, Crash
  PROVE  FrameInv'
<1>1. /\ proc' = "dead" /\ worker' = FreshWorker /\ toWorker' = <<>>
      /\ UNCHANGED <<ui, toMain>>
  BY DEF Crash
<1>2. WorkerShape'
  <2>1. IsFiniteSet({}) /\ IsQueue(<<>>)
    BY FS_EmptySet, QueueFacts
  <2> QED  BY <1>1, <2>1 DEF WorkerShape, FreshWorker, NoJob, WorkerFields, JobFields
<1>3. IsQueue(toWorker') /\ Carries(toMain') /\ UIShape'
  BY <1>1, QueueFacts DEF FrameInv, UIShape
<1> QED  BY <1>1, <1>2, <1>3 DEF FrameInv

-----------------------------------------------------------------------------
LEMMA StepFrame ==
  ASSUME FrameInv, [Next /\ UNCHANGED setting]_<<vars, setting>>
  PROVE  FrameInv'
<1>1. CASE UNCHANGED <<vars, setting>>
  BY <1>1, NothingMoves DEF vars, FrameInv, UIShape
<1>2. CASE NothingToReap \/ Drained \/ NoSpawn
  <2>1. UNCHANGED <<proc, worker, toMain, toWorker>>
    BY <1>2 DEF NothingToReap, Drained, NoSpawn
  <2>2. UIShape' /\ ui'.outstanding = ui.outstanding
    BY <1>2 DEF NothingToReap, Drained, NoSpawn, FrameInv, UIShape
  <2> QED  BY <2>1, <2>2, NothingMoves
<1>3. ASSUME NEW s, HandleSetSource(s)
      PROVE  FrameInv'
  <2>1. UNCHANGED <<proc, ui, toMain, toWorker>> /\ DOMAIN worker' = DOMAIN worker
        /\ worker'.queue = worker.queue /\ worker'.job = worker.job
    BY <1>3 DEF HandleSetSource, WorkerStep, FrameInv, WorkerShape, WorkerFields
  <2>2. WorkerShape'
    BY <2>1 DEF FrameInv, WorkerShape
  <2> QED  BY <2>1, <2>2, FrameGoesOn
<1>4. CASE Reap
  BY <1>4, ReapFrame
<1>5. CASE RecvTextureAnnounce
  BY <1>5, AnnounceFrame
<1>6. CASE RecvFrameDone
  BY <1>6, DoneFrame
<1>7. CASE Spawn
  BY <1>7, SpawnFrame
<1>8. CASE \E V \in VisibleSets : EndFrame(V)
  BY <1>8, EndFrameFrame
<1>9. CASE PostSwap
  BY <1>9, PostSwapFrame
<1>10. CASE IORecv
  BY <1>10, ReceiveFrame
<1>11. CASE HandleBufferRelease
  BY <1>11, ReleaseFrame
<1>12. CASE HandleFrameBegin
  BY <1>12, BeginFrame
<1>13. CASE SkipSlide \/ ShmFails
  BY <1>13, SkipFrame
<1>14. CASE BeginDmabuf \/ BeginShm
  BY <1>14, RenderFrame
<1>15. CASE FinishSlide
  BY <1>15, FinishFrame
<1>16. CASE SendFrameDone
  BY <1>16, SendFrame
<1>17. CASE Crash
  BY <1>17, CrashFrame
<1> QED  BY <1>1, <1>2, <1>3, <1>4, <1>5, <1>6, <1>7, <1>8, <1>9, <1>10, <1>11, <1>12,
            <1>13, <1>14, <1>15, <1>16, <1>17 DEF Next, UIStep, WorkThread

(* At most one FrameBegin is anywhere between endFrame and FrameDone,      *)
(* frame_outstanding_ says whether there is one, and so the mailbox rule   *)
(* of the worker's queue never drops an input, whatever crashes and        *)
(* whichever slides are shown (RemoteEngine.cpp:117, 326, 456, 479,        *)
(* WorkerApp.cpp:102-104).                                                 *)
THEOREM OneFrameAtATime == Spec => []OneFrameInFlight
<1>1. Spec => []FrameInv
  BY InitFrame, StepFrame, PTL DEF Spec
<1>2. FrameInv => OneFrameInFlight
  BY DEF FrameInv, InFlight, OneFrameInFlight, FramesInFlight, CountOf, Places, Job
<1> QED  BY <1>1, <1>2, PTL

-----------------------------------------------------------------------------
(* The holds of a buffer. *)

(* The holds of a buffer, one by one: see Holds.                           *)
Returns(q, x) ==
  {i \in DOMAIN q : q[i].type = "BufferRelease" /\ <<q[i].slide, q[i].buffer>> = x}
Delivers(m, x) ==
  m.type = "FrameDone" /\ \E r \in m.results : r.rendered /\ <<r.slide, r.buffer>> = x
Done(q, x) == {i \in DOMAIN q : Delivers(q[i], x)}
ReturnCount(q, x) == Cardinality(Returns(q, x))
DoneCount(q, x) == Cardinality(Done(q, x))

InFront(x) == IF streams[x[1]].front = x[2] THEN 1 ELSE 0
Retiring(x) == IF x \in ui.retiring THEN 1 ELSE 0
MainHolds(x) ==
  ReturnCount(toWorker, x) + ReturnCount(worker.queue, x) + DoneCount(toMain, x)
    + InFront(x) + Retiring(x)
HeldBy(j, x) ==
  \/ j.target # <<>> /\ <<j.target[1], j.buffer>> = x
  \/ \E r \in j.results : <<r.slide, r.buffer>> = x
WorkerHolds(x) == HeldBy(worker.job, x)
Busy(x) == x[2] \in worker.ring[x[1]].busy

-----------------------------------------------------------------------------
(* What the state is made of. *)

(* A frame has one result per slide.                                       *)
OneEach(R) ==
  /\ IsFiniteSet(R)
  /\ \A r \in R : r.slide \in Slides /\ (r.rendered => r.buffer \in Buffers)
  /\ \A r, q \in R : r.slide = q.slide => r = q

InputMessages ==
  [type : {"BufferRelease"}, slide : Slides, buffer : Buffers]
    \cup [type : {"FrameBegin"}, slides : SUBSET Slides]
Announces ==
  [type : {"TextureAnnounce"}, slide : Slides, buffer : Buffers, transport : {"dmabuf", "shm"}]
Answer(m) == m \in Announces \/ (m.type = "FrameDone" /\ OneEach(m.results))
AnswersOwn(q) == \E M : q \in Seq(M) /\ \A m \in M : Answer(m)

StreamFields == {"transport", "tex", "buffer_tex", "front"}
StreamsOwn(st) ==
  /\ DOMAIN st = Slides
  /\ \A s \in Slides :
       StreamFields \subseteq DOMAIN st[s] /\ st[s].front \in Buffers \cup {-1}

Smallest(T) == CHOOSE s \in T : \A u \in T : s <= u
JobOwn(j) ==
  /\ JobFields \subseteq DOMAIN j /\ j.frame \in BOOLEAN
  /\ j.todo \subseteq Slides /\ OneEach(j.results)
  /\ \A r \in j.results : r.slide \notin j.todo
  /\ ~ j.frame => j.target = <<>> /\ j.results = {}
  /\ j.target # <<>> =>
       j.todo # {} /\ j.target[1] = Smallest(j.todo) /\ j.buffer \in Buffers

WorkerOwn(w) ==
  /\ WorkerFields \subseteq DOMAIN w
  /\ w.queue \in Seq(InputMessages)
  /\ w.ring \in [Slides -> Rings]
  /\ JobOwn(w.job)

UIOwn(u) ==
  /\ {"phase", "outstanding", "retiring"} \subseteq DOMAIN u
  /\ u.retiring \subseteq Leases /\ IsFiniteSet(u.retiring)

StateOwn ==
  /\ setting \in Settings
  /\ proc \in {"none", "running", "dead"}
  /\ UIOwn(ui) /\ StreamsOwn(streams) /\ WorkerOwn(worker)
  /\ toWorker \in Seq(InputMessages) /\ AnswersOwn(toMain)
  /\ proc = "none" => ui.retiring = {} /\ \A s \in Slides : streams[s].front = -1

(* A buffer is held by nobody, or once, and then the ring knows.           *)
OneHolder(x) ==
  /\ MainHolds(x) \in {0, 1}
  /\ WorkerHolds(x) => MainHolds(x) = 0
  /\ WorkerHolds(x) \/ MainHolds(x) = 1 => Busy(x)

LeaseInv == StateOwn /\ (proc = "running" => \A x \in Leases : OneHolder(x))

-----------------------------------------------------------------------------
(* A hold that passes on is a transfer of the lease. *)

(* What may happen to a buffer in a step: nothing, the worker takes it,    *)
(* hands it over, loses it; main loses it, or it is back in the ring.      *)
Stays(x) == MainHolds(x)' = MainHolds(x) /\ (WorkerHolds(x)' <=> WorkerHolds(x)) /\ (Busy(x)' <=> Busy(x))
Taken(x) == ~ Busy(x) /\ Busy(x)' /\ MainHolds(x)' = MainHolds(x) /\ WorkerHolds(x)'
HandedOver(x) ==
  /\ WorkerHolds(x) /\ ~ WorkerHolds(x)' /\ (Busy(x)' <=> Busy(x))
  /\ MainHolds(x)' \in {MainHolds(x), MainHolds(x) + 1}
GivenUp(x) ==
  /\ MainHolds(x) = 1 /\ MainHolds(x)' = 0
  /\ ~ WorkerHolds(x)' /\ (WorkerHolds(x)' <=> WorkerHolds(x))
Passes(x) == Stays(x) \/ Taken(x) \/ HandedOver(x) \/ GivenUp(x)
Moves == StateOwn' /\ (proc = "running" => \A x \in Leases : Passes(x))

LEMMA HolderStays ==
  ASSUME NEW x, OneHolder(x), Passes(x)
  PROVE  OneHolder(x)'
BY DEF OneHolder, Passes, Stays, Taken, HandedOver, GivenUp

OwnerOf(x) ==
  IF proc # "running" THEN "free"
  ELSE IF ~ Busy(x)
       THEN IF MainHolds(x) = 0 /\ ~ WorkerHolds(x) THEN "free" ELSE "stolen"
  ELSE IF WorkerHolds(x) THEN IF MainHolds(x) = 0 THEN "worker" ELSE "stolen"
  ELSE IF MainHolds(x) = 0 THEN "lost"
  ELSE IF MainHolds(x) = 1 THEN "main" ELSE "stolen"

LEMMA OwnerIs == owner = [x \in Leases |-> OwnerOf(x)] /\ owner' = [x \in Leases |-> OwnerOf(x)']
<1>1. owner = [x \in Leases |-> OwnerOf(x)]
  BY DEF owner, OwnerOf, Holds, Busy, MainHolds, WorkerHolds, HeldBy, Job, ReturnCount, DoneCount,
         Returns, Done, Delivers, InFront, Retiring
<1>2. owner' = [x \in Leases |-> OwnerOf(x)']
  BY DEF owner, OwnerOf, Holds, Busy, MainHolds, WorkerHolds, HeldBy, Job, ReturnCount, DoneCount,
         Returns, Done, Delivers, InFront, Retiring
<1> QED  BY <1>1, <1>2

LEMMA OwnerPasses ==
  ASSUME NEW x, OneHolder(x), Passes(x), proc = "running", proc' = "running"
  PROVE  /\ OwnerOf(x)' \in Lease!Owners
         /\ OwnerOf(x)' = OwnerOf(x) \/ <<OwnerOf(x), OwnerOf(x)'>> \in Lease!Transfers
<1>1. OneHolder(x)'
  BY HolderStays
<1>2. /\ ~ Busy(x) => OwnerOf(x) = "free"
      /\ Busy(x) /\ WorkerHolds(x) => OwnerOf(x) = "worker"
      /\ Busy(x) /\ ~ WorkerHolds(x) /\ MainHolds(x) = 0 => OwnerOf(x) = "lost"
      /\ MainHolds(x) = 1 => OwnerOf(x) = "main"
  BY DEF OneHolder, OwnerOf
<1>3. /\ ~ Busy(x)' => OwnerOf(x)' = "free"
      /\ Busy(x)' /\ WorkerHolds(x)' => OwnerOf(x)' = "worker"
      /\ Busy(x)' /\ ~ WorkerHolds(x)' /\ MainHolds(x)' = 0 => OwnerOf(x)' = "lost"
      /\ MainHolds(x)' = 1 => OwnerOf(x)' = "main"
  BY <1>1 DEF OneHolder, OwnerOf
<1>4. OwnerOf(x)' \in {"free", "worker", "lost", "main"}
  BY <1>1, <1>3 DEF OneHolder
<1>5. CASE Stays(x)
  <2>1. OwnerOf(x)' = OwnerOf(x)
    BY <1>1, <1>2, <1>3, <1>5 DEF Stays, OneHolder
  <2> QED  BY <1>4, <2>1 DEF Lease!Owners
<1>6. CASE Taken(x)
  <2>1. OwnerOf(x) = "free" /\ OwnerOf(x)' = "worker"
    BY <1>2, <1>3, <1>6 DEF Taken
  <2> QED  BY <2>1 DEF Lease!Owners, Lease!Transfers
<1>7. CASE HandedOver(x)
  <2>1. OwnerOf(x) = "worker" /\ OwnerOf(x)' \in {"free", "lost", "main"}
    BY <1>1, <1>2, <1>3, <1>7 DEF HandedOver, OneHolder
  <2> QED  BY <2>1 DEF Lease!Owners, Lease!Transfers
<1>8. CASE GivenUp(x)
  <2>1. OwnerOf(x) = "main" /\ OwnerOf(x)' \in {"free", "lost"}
    BY <1>1, <1>2, <1>3, <1>8 DEF GivenUp, OneHolder
  <2> QED  BY <2>1 DEF Lease!Owners, Lease!Transfers
<1> QED  BY <1>5, <1>6, <1>7, <1>8 DEF Passes

(* A step of a running worker and of main is a transfer.                   *)
LEMMA RunningStep ==
  ASSUME LeaseInv, StateOwn', proc = "running", proc' = "running",
         \A x \in Leases : Passes(x)
  PROVE  LeaseInv' /\ [Lease!Next]_owner
<1>1. LeaseInv'
  BY HolderStays DEF LeaseInv
<1>3. \A x \in Leases :
        /\ OwnerOf(x)' \in Lease!Owners
        /\ OwnerOf(x)' = OwnerOf(x) \/ <<OwnerOf(x), OwnerOf(x)'>> \in Lease!Transfers
  BY OwnerPasses DEF LeaseInv
<1>4. \A x \in Leases : owner'[x] = OwnerOf(x)' /\ owner[x] = OwnerOf(x)
  BY OwnerIs
<1>5. owner' \in [Leases -> Lease!Owners]
  BY <1>3, OwnerIs
<1>6. Lease!Transfer
  BY <1>3, <1>4, <1>5 DEF Lease!Transfer
<1> QED  BY <1>1, <1>6 DEF Lease!Next

(* With no worker that runs, every buffer is free.                         *)
LEMMA AllFree ==
  ASSUME LeaseInv, StateOwn', proc' # "running"
  PROVE  LeaseInv' /\ [Lease!Next]_owner
<1>1. owner' = [x \in Leases |-> "free"]
  <2>1. \A x \in Leases : OwnerOf(x)' = "free"
    BY DEF OwnerOf
  <2> QED  BY <2>1, OwnerIs
<1> QED  BY <1>1 DEF LeaseInv, Lease!Next, Lease!Restart
-----------------------------------------------------------------------------
(* What is on the way: releases to the ring, frames to main.               *)

LEMMA ReturnHits ==
  ASSUME NEW x \in Leases, NEW q \in Seq(InputMessages)
  PROVE  /\ ReturnCount(q, x) = HitCount(q, {Release(x[1], x[2])})
         /\ ReturnCount(q, x) \in Nat
<1> DEFINE S == {Release(x[1], x[2])}
<1>1. ASSUME NEW m \in InputMessages
      PROVE  m.type = "BufferRelease" /\ <<m.slide, m.buffer>> = x <=> m = Release(x[1], x[2])
  BY DEF InputMessages, Release, Leases
<1>2. \A i \in DOMAIN q : q[i] \in InputMessages
  OBVIOUS
<1>3. Returns(q, x) = Hits(q, S)
  BY <1>1, <1>2 DEF Returns, Hits
<1>4. HitCount(q, S) \in Nat
  BY HitsFinite
<1> QED  BY <1>3, <1>4 DEF ReturnCount, HitCount

LEMMA ReturnEmpty == \A x \in Leases : ReturnCount(<<>>, x) = 0
<1>1. <<>> \in Seq(InputMessages)
  OBVIOUS
<1> QED  BY <1>1, ReturnHits, HitsNone

LEMMA ReturnAppend ==
  ASSUME NEW x \in Leases, NEW q \in Seq(InputMessages), NEW m \in InputMessages
  PROVE  /\ Append(q, m) \in Seq(InputMessages)
         /\ ReturnCount(Append(q, m), x) =
              ReturnCount(q, x) + IF m = Release(x[1], x[2]) THEN 1 ELSE 0
<1> DEFINE S == {Release(x[1], x[2])}
<1>1. Append(q, m) \in Seq(InputMessages)
  OBVIOUS
<1>2. HitCount(Append(q, m), S) = HitCount(q, S) + IF m \in S THEN 1 ELSE 0
  BY HitsAppend
<1>3. ReturnCount(q, x) = HitCount(q, S) /\ ReturnCount(Append(q, m), x) = HitCount(Append(q, m), S)
  BY <1>1, ReturnHits
<1> QED  BY <1>1, <1>2, <1>3

LEMMA ReturnTail ==
  ASSUME NEW x \in Leases, NEW q \in Seq(InputMessages), q # <<>>
  PROVE  /\ Tail(q) \in Seq(InputMessages) /\ Head(q) \in InputMessages
         /\ ReturnCount(Tail(q), x) \in Nat
         /\ ReturnCount(q, x) =
              ReturnCount(Tail(q), x) + IF Head(q) = Release(x[1], x[2]) THEN 1 ELSE 0
<1> DEFINE S == {Release(x[1], x[2])}
<1>1. Tail(q) \in Seq(InputMessages) /\ Head(q) \in InputMessages
  OBVIOUS
<1>2. HitCount(q, S) = HitCount(Tail(q), S) + IF Head(q) \in S THEN 1 ELSE 0
  BY HitsTail
<1>3. /\ ReturnCount(q, x) = HitCount(q, S) /\ ReturnCount(Tail(q), x) = HitCount(Tail(q), S)
      /\ ReturnCount(Tail(q), x) \in Nat
  BY <1>1, ReturnHits
<1> QED  BY <1>1, <1>2, <1>3

LEMMA SentOwn ==
  ASSUME toWorker \in Seq(InputMessages), NEW S \in SUBSET InputMessages, IsFiniteSet(S)
  PROVE  Sent(InSomeOrder(S)) \in Seq(InputMessages)
<1> DEFINE q == InSomeOrder(S)
<1>1. q \in [1..Cardinality(S) -> S] /\ Cardinality(S) \in Nat
  BY OrderExists, FS_CardinalityType DEF InSomeOrder
<1> HIDE DEF q
<1>2. q \in Seq(S)
  BY <1>1
<1>3. q \in Seq(InputMessages)
  BY <1>2
<1>4. toWorker \o q \in Seq(InputMessages)
  BY <1>3
<1> QED  BY <1>4 DEF Sent, q

(* Releases sent together: each once.                                      *)
LEMMA ReturnSent ==
  ASSUME NEW x \in Leases, proc = "running", toWorker \in Seq(InputMessages),
         NEW S \in SUBSET InputMessages, IsFiniteSet(S)
  PROVE  /\ Sent(InSomeOrder(S)) \in Seq(InputMessages)
         /\ ReturnCount(Sent(InSomeOrder(S)), x) =
              ReturnCount(toWorker, x) + IF Release(x[1], x[2]) \in S THEN 1 ELSE 0
<1> DEFINE q == InSomeOrder(S)
           T == {Release(x[1], x[2])}
<1>1. /\ q \in [1..Cardinality(S) -> S] /\ Cardinality(S) \in Nat
      /\ \A i, j \in DOMAIN q : i # j => q[i] # q[j]
  BY OrderExists, FS_CardinalityType DEF InSomeOrder
<1> HIDE DEF q
<1>2. q \in Seq(InputMessages) /\ toWorker \o q \in Seq(InputMessages)
  <2>1. q \in Seq(S)
    BY <1>1
  <2>2. q \in Seq(InputMessages)
    BY <2>1
  <2> QED  BY <2>2
<1>3. HitCount(q, T) = IF Release(x[1], x[2]) \in S THEN 1 ELSE 0
  <2> DEFINE m == Release(x[1], x[2])
  <2>1. T \cap S \subseteq {m} /\ m \in T
    OBVIOUS
  <2> HIDE DEF T, m
  <2>2. HitCount(q, T) = IF m \in S /\ m \in T THEN 1 ELSE 0
    BY <1>1, <2>1, OrderHits
  <2> QED  BY <2>1, <2>2 DEF m
<1>4. HitCount(toWorker \o q, T) = HitCount(toWorker, T) + HitCount(q, T)
  BY <1>2, HitsJoined
<1>5. ReturnCount(toWorker \o q, x) = HitCount(toWorker \o q, T)
      /\ ReturnCount(toWorker, x) = HitCount(toWorker, T)
  BY <1>2, ReturnHits
<1> QED  BY <1>2, <1>3, <1>4, <1>5 DEF Sent, q

LEMMA AnswersIntro ==
  ASSUME NEW M, \A m \in M : Answer(m), NEW q \in Seq(M)
  PROVE  AnswersOwn(q)
BY DEF AnswersOwn

LEMMA AnswersNothing == AnswersOwn(<<>>) /\ \A x : DoneCount(<<>>, x) = 0
<1>1. \A M : (\A m \in M : Answer(m))
               => \A q \in Seq(M) : AnswersOwn(q)
  BY AnswersIntro
<1>2. (\A m \in {} : Answer(m)) /\ <<>> \in Seq({})
  OBVIOUS
<1>3. AnswersOwn(<<>>)
  BY <1>1, <1>2, Zenon
<1>4. \A x : Done(<<>>, x) = {}
  BY DEF Done
<1> QED  BY <1>3, <1>4, FS_EmptySet DEF DoneCount

LEMMA DoneHits ==
  ASSUME NEW M, NEW q \in Seq(M), NEW x
  PROVE  /\ DoneCount(q, x) = HitCount(q, {m \in M : Delivers(m, x)})
         /\ DoneCount(q, x) \in Nat
<1> DEFINE S == {m \in M : Delivers(m, x)}
<1>1. \A i \in DOMAIN q : q[i] \in M
  OBVIOUS
<1>2. Done(q, x) = Hits(q, S)
  BY <1>1 DEF Done, Hits
<1>3. HitCount(q, S) \in Nat
  BY HitsFinite
<1> QED  BY <1>2, <1>3 DEF DoneCount, HitCount

LEMMA AnswersMore ==
  ASSUME NEW q, AnswersOwn(q), NEW m, Answer(m)
  PROVE  /\ AnswersOwn(Append(q, m))
         /\ \A x : /\ DoneCount(q, x) \in Nat
                   /\ DoneCount(Append(q, m), x) =
                        DoneCount(q, x) + IF Delivers(m, x) THEN 1 ELSE 0
<1>1. PICK K : q \in Seq(K) /\ \A k \in K : Answer(k)
  BY DEF AnswersOwn
<1> DEFINE M == K \cup {m}
<1>2. q \in Seq(M) /\ m \in M /\ Append(q, m) \in Seq(M)
  BY <1>1
<1>3. \A k \in M : Answer(k)
  BY <1>1
<1>4. AnswersOwn(Append(q, m))
  BY <1>2, <1>3, AnswersIntro
<1> HIDE DEF M
<1>5. ASSUME NEW x
      PROVE  /\ DoneCount(q, x) \in Nat
             /\ DoneCount(Append(q, m), x) =
                  DoneCount(q, x) + IF Delivers(m, x) THEN 1 ELSE 0
  <2> DEFINE S == {k \in M : Delivers(k, x)}
  <2>1. HitCount(Append(q, m), S) = HitCount(q, S) + IF m \in S THEN 1 ELSE 0
    BY <1>2, HitsAppend
  <2>2. /\ DoneCount(q, x) = HitCount(q, S) /\ DoneCount(q, x) \in Nat
        /\ DoneCount(Append(q, m), x) = HitCount(Append(q, m), S)
    BY <1>2, DoneHits
  <2>3. m \in S <=> Delivers(m, x)
    BY <1>2
  <2> QED  BY <2>1, <2>2, <2>3
<1> QED  BY <1>4, <1>5

LEMMA AnswersLess ==
  ASSUME NEW q, AnswersOwn(q), q # <<>>
  PROVE  /\ AnswersOwn(Tail(q))
         /\ Answer(Head(q))
         /\ \A x : /\ DoneCount(Tail(q), x) \in Nat
                   /\ DoneCount(q, x) =
                        DoneCount(Tail(q), x) + IF Delivers(Head(q), x) THEN 1 ELSE 0
<1>1. PICK M : q \in Seq(M) /\ \A k \in M : Answer(k)
  BY DEF AnswersOwn
<1>2. Tail(q) \in Seq(M) /\ Head(q) \in M
  BY <1>1
<1>3. AnswersOwn(Tail(q)) /\ Answer(Head(q))
  BY <1>1, <1>2, AnswersIntro
<1>4. ASSUME NEW x
      PROVE  /\ DoneCount(Tail(q), x) \in Nat
             /\ DoneCount(q, x) =
                  DoneCount(Tail(q), x) + IF Delivers(Head(q), x) THEN 1 ELSE 0
  <2> DEFINE S == {k \in M : Delivers(k, x)}
  <2>1. HitCount(q, S) = HitCount(Tail(q), S) + IF Head(q) \in S THEN 1 ELSE 0
    BY <1>1, HitsTail
  <2>2. /\ DoneCount(q, x) = HitCount(q, S) /\ DoneCount(Tail(q), x) \in Nat
        /\ DoneCount(Tail(q), x) = HitCount(Tail(q), S)
    BY <1>1, <1>2, DoneHits
  <2>3. Head(q) \in S <=> Delivers(Head(q), x)
    BY <1>2
  <2> QED  BY <2>1, <2>2, <2>3
<1> QED  BY <1>3, <1>4
-----------------------------------------------------------------------------
(* The UI frame. *)

LEMMA FrontBuffers == kInvalid = -1 /\ \A b \in Buffers : b \in Nat /\ b # -1
BY KBuffersAssumption DEF Buffers, kInvalid

LEMMA FreshWorkerOwn == WorkerOwn(FreshWorker)
<1>1. FreshRing \in Rings
  BY KBuffersAssumption DEF FreshRing, Rings, Buffers
<1>2. JobOwn(NoJob)
  BY FS_EmptySet DEF JobOwn, NoJob, JobFields, OneEach
<1>3. <<>> \in Seq(InputMessages)
  OBVIOUS
<1> QED  BY <1>1, <1>2, <1>3 DEF WorkerOwn, FreshWorker, WorkerFields

LEMMA InitLease == Init => LeaseInv /\ Lease!Init
<1> SUFFICES ASSUME Init PROVE LeaseInv /\ Lease!Init
  OBVIOUS
<1>1. proc = "none" /\ toMain = <<>> /\ toWorker = <<>> /\ worker = FreshWorker /\ setting \in Settings
  BY DEF Init
<1>2. UIOwn(ui) /\ ui.retiring = {}
  BY FS_EmptySet DEF Init, UIOwn
<1>3. StreamsOwn(streams) /\ \A s \in Slides : streams[s].front = -1
  BY DEF Init, StreamsOwn, FreshStream, StreamFields
<1>4. WorkerOwn(worker)
  BY <1>1, FreshWorkerOwn
<1>5. LeaseInv
  <2>1. <<>> \in Seq(InputMessages)
    OBVIOUS
  <2> QED  BY <1>1, <1>2, <1>3, <1>4, <2>1, AnswersNothing DEF LeaseInv, StateOwn
<1>6. \A x \in Leases : OwnerOf(x) = "free"
  BY <1>1 DEF OwnerOf
<1> QED  BY <1>5, <1>6, OwnerIs DEF Lease!Init

(* Nothing that holds a buffer changes.                                    *)
LEMMA AllStays ==
  ASSUME LeaseInv, StateOwn',
         worker'.job = worker.job, worker'.ring = worker.ring, ui'.retiring = ui.retiring,
         \A s \in Slides : streams'[s].front = streams[s].front,
         \A x \in Leases :
           /\ ReturnCount(toWorker', x) + ReturnCount(worker'.queue, x) =
                ReturnCount(toWorker, x) + ReturnCount(worker.queue, x)
           /\ DoneCount(toMain', x) = DoneCount(toMain, x)
  PROVE  Moves
<1> SUFFICES ASSUME NEW x \in Leases PROVE Stays(x)
  BY DEF Moves, Passes
<1>1. WorkerHolds(x)' <=> WorkerHolds(x)
  BY DEF WorkerHolds
<1>2. Busy(x)' <=> Busy(x)
  BY DEF Busy
<1>3. InFront(x)' = InFront(x) /\ Retiring(x)' = Retiring(x)
  BY DEF InFront, Retiring, Leases
<1>4. MainHolds(x)' = MainHolds(x)
  BY <1>3 DEF MainHolds
<1> QED  BY <1>1, <1>2, <1>4 DEF Stays

LEMMA QuietLease ==
  ASSUME LeaseInv, UNCHANGED setting, NothingToReap \/ Drained \/ NoSpawn
  PROVE  Moves
<1>1. /\ UNCHANGED <<proc, streams, worker, toMain, toWorker>>
      /\ UIOwn(ui') /\ ui'.retiring = ui.retiring
  BY DEF NothingToReap, Drained, NoSpawn, LeaseInv, StateOwn, UIOwn
<1>2. StateOwn'
  BY <1>1 DEF LeaseInv, StateOwn
<1> QED  BY <1>1, <1>2, AllStays

LEMMA ReapLease ==
  ASSUME LeaseInv, UNCHANGED setting, Reap
  PROVE  Moves /\ proc' # "running"
<1>1. /\ proc = "dead" /\ proc' = "none" /\ toMain' = <<>> /\ UNCHANGED <<worker, toWorker>>
      /\ ui' = AfterDeath(ui) /\ streams' = [s \in Slides |-> ForgetsFront(streams[s])]
  BY DEF Reap
<1>2. UIOwn(ui') /\ ui'.retiring = {}
  BY <1>1, FS_EmptySet DEF AfterDeath, UIOwn
<1>3. StreamsOwn(streams') /\ \A s \in Slides : streams'[s].front = -1
  BY <1>1 DEF LeaseInv, StateOwn, StreamsOwn, ForgetsFront, StreamFields
<1>4. StateOwn'
  BY <1>1, <1>2, <1>3, AnswersNothing DEF LeaseInv, StateOwn
<1> QED  BY <1>1, <1>4 DEF Moves

LEMMA AnnounceLease ==
  ASSUME LeaseInv, UNCHANGED setting, RecvTextureAnnounce
  PROVE  Moves
<1> DEFINE m == Head(toMain)
<1>1. /\ proc # "none" /\ toMain # <<>> /\ toMain' = Tail(toMain) /\ m.type = "TextureAnnounce"
      /\ UNCHANGED <<proc, ui, worker, toWorker>>
  BY DEF RecvTextureAnnounce, Receiving
<1>2. PICK i : streams' = [streams EXCEPT ![m.slide] = Announced(@, m, i)]
  BY DEF RecvTextureAnnounce
<1>3. StreamsOwn(streams') /\ \A s \in Slides : streams'[s].front = streams[s].front
  <2>1. StreamsOwn(streams)
    BY DEF LeaseInv, StateOwn
  <2>2. ASSUME NEW s \in Slides
        PROVE  /\ streams'[s].front = streams[s].front
               /\ DOMAIN streams'[s] = DOMAIN streams[s]
    BY <1>2, <2>1 DEF StreamsOwn, Announced, StreamFields
  <2>3. DOMAIN streams' = Slides
    BY <1>2, <2>1 DEF StreamsOwn
  <2> QED  BY <2>1, <2>2, <2>3 DEF StreamsOwn
<1>4. /\ AnswersOwn(toMain')
      /\ \A x : DoneCount(toMain', x) = DoneCount(toMain, x)
  <2>1. AnswersOwn(toMain)
    BY DEF LeaseInv, StateOwn
  <2>2. \A x : ~ Delivers(m, x)
    BY <1>1 DEF Delivers
  <2>3. \A x : /\ DoneCount(Tail(toMain), x) \in Nat
               /\ DoneCount(toMain, x) =
                    DoneCount(Tail(toMain), x) + IF Delivers(m, x) THEN 1 ELSE 0
    BY <1>1, <2>1, AnswersLess
  <2> HIDE DEF m
  <2>4. \A x : DoneCount(toMain, x) = DoneCount(Tail(toMain), x)
    BY <2>2, <2>3
  <2> QED  BY <1>1, <2>1, <2>4, AnswersLess
<1>5. StateOwn'
  BY <1>1, <1>3, <1>4 DEF LeaseInv, StateOwn
<1> QED  BY <1>1, <1>3, <1>4, <1>5, AllStays

LEMMA EndFrameLease ==
  ASSUME LeaseInv, UNCHANGED setting, NEW V \in VisibleSets, EndFrame(V)
  PROVE  Moves
<1>1. /\ UNCHANGED <<proc, streams, worker, toMain>> /\ ui'.retiring = ui.retiring /\ UIOwn(ui')
      /\ toWorker' = IF Begins(V) THEN Append(toWorker, FrameBegin(V)) ELSE toWorker
  BY DEF EndFrame, LeaseInv, StateOwn, UIOwn
<1>2. FrameBegin(V) \in InputMessages /\ \A x : FrameBegin(V) # Release(x[1], x[2])
  <2>1. V \in SUBSET Slides
    BY StreamAssumption DEF LeaseInv, StateOwn, VisibleSets
  <2>2. FrameBegin(V) \in InputMessages
    BY <2>1 DEF FrameBegin, InputMessages
  <2>3. \A x : FrameBegin(V).type # Release(x[1], x[2]).type
    BY DEF FrameBegin, Release
  <2> QED  BY <2>2, <2>3
<1>3. /\ toWorker' \in Seq(InputMessages)
      /\ \A x \in Leases : ReturnCount(toWorker', x) = ReturnCount(toWorker, x)
  <2>1. toWorker \in Seq(InputMessages)
    BY DEF LeaseInv, StateOwn
  <2>2. Append(toWorker, FrameBegin(V)) \in Seq(InputMessages)
    BY <1>2, <2>1
  <2>3. ASSUME NEW x \in Leases
        PROVE  ReturnCount(Append(toWorker, FrameBegin(V)), x) = ReturnCount(toWorker, x)
    <3>1. ReturnCount(toWorker, x) \in Nat
      BY <2>1, ReturnHits
    <3>2. ReturnCount(Append(toWorker, FrameBegin(V)), x) = ReturnCount(toWorker, x) + 0
      BY <1>2, <2>1, ReturnAppend
    <3> QED  BY <3>1, <3>2
  <2> QED  BY <1>1, <2>1, <2>2, <2>3
<1>4. StateOwn'
  BY <1>1, <1>3 DEF LeaseInv, StateOwn
<1> QED  BY <1>1, <1>3, <1>4, AllStays

(* A frame is shown: a dma-buf that is promoted changes the front, shm     *)
(* pixels are uploaded and their buffer goes back; an import that failed   *)
(* loses its buffer.                                                       *)
LEMMA DoneStreams ==
  ASSUME LeaseInv, NEW R, OneEach(R),
         streams' = [s \in Slides |->
               IF \E r \in R : r.slide = s
               THEN Shown(streams[s], CHOOSE r \in R : r.slide = s) ELSE streams[s]]
  PROVE  /\ StreamsOwn(streams')
         /\ \A s \in Slides :
              (\A r \in R : ~ (r.slide = s /\ r.rendered)) => streams'[s].front = streams[s].front
         /\ \A r \in R : r.rendered =>
              streams'[r.slide].front =
                IF Promotes(r) THEN r.buffer ELSE streams[r.slide].front
<1>1. StreamsOwn(streams) /\ DOMAIN streams' = Slides
  BY DEF LeaseInv, StateOwn
<1>2. ASSUME NEW s \in Slides, NEW r \in R, r.slide = s
      PROVE  streams'[s] = Shown(streams[s], r)
  <2>1. (CHOOSE q \in R : q.slide = s) = r
    BY <1>2 DEF OneEach
  <2> QED  BY <1>2, <2>1
<1>3. ASSUME NEW s \in Slides, \A r \in R : r.slide # s
      PROVE  streams'[s] = streams[s]
  BY <1>3
<1>4. ASSUME NEW s \in Slides, NEW r \in R
      PROVE  /\ DOMAIN Shown(streams[s], r) = DOMAIN streams[s]
             /\ Shown(streams[s], r).front =
                  IF Promotes(r) THEN r.buffer ELSE streams[s].front
  BY <1>1 DEF Shown, StreamsOwn, StreamFields
<1>5. \A r \in R : Promotes(r) => r.rendered
  BY DEF Promotes
<1>6. \A r \in R : r.slide \in Slides /\ (r.rendered => r.buffer \in Buffers)
  BY DEF OneEach
<1>7. ASSUME NEW s \in Slides
      PROVE  /\ DOMAIN streams'[s] = DOMAIN streams[s]
             /\ streams'[s].front \in Buffers \cup {-1}
             /\ (\A r \in R : ~ (r.slide = s /\ r.rendered)) => streams'[s].front = streams[s].front
  <2>1. CASE \A r \in R : r.slide # s
    BY <2>1, <1>1, <1>3 DEF StreamsOwn
  <2>2. ASSUME NEW r \in R, r.slide = s
        PROVE  /\ DOMAIN streams'[s] = DOMAIN streams[s]
               /\ streams'[s].front = IF Promotes(r) THEN r.buffer ELSE streams[s].front
    BY <2>2, <1>2, <1>4
  <2> QED  BY <2>1, <2>2, <1>1, <1>5, <1>6 DEF StreamsOwn
<1>8. StreamsOwn(streams')
  BY <1>1, <1>7 DEF StreamsOwn
<1>9. ASSUME NEW r \in R, r.rendered
      PROVE  streams'[r.slide].front = IF Promotes(r) THEN r.buffer ELSE streams[r.slide].front
  BY <1>2, <1>4, <1>6
<1> QED  BY <1>7, <1>8, <1>9

LEMMA DisplacedOwn ==
  ASSUME LeaseInv, NEW R, OneEach(R)
  PROVE  Displaced(R) \subseteq Leases /\ IsFiniteSet(Displaced(R))
<1>1. \A r \in R : r.slide \in Slides /\ streams[r.slide].front \in Buffers \cup {-1}
  BY DEF OneEach, LeaseInv, StateOwn, StreamsOwn
<1>2. Displaced(R) \subseteq Leases
  BY <1>1 DEF Displaced, Leases
<1> QED  BY <1>2, DisplacedFinite DEF OneEach

(* Where a buffer is, before and after main has read the frame.            *)
LEMMA DonePasses ==
  ASSUME LeaseInv, NEW R, OneEach(R), NEW x \in Leases,
         OneHolder(x), worker' = worker,
         StreamsOwn(streams), StreamsOwn(streams'),
         (\A r \in R : ~ (r.slide = x[1] /\ r.rendered)) => streams'[x[1]].front = streams[x[1]].front,
         \A r \in R : r.rendered =>
              streams'[r.slide].front =
                IF Promotes(r) THEN r.buffer ELSE streams[r.slide].front,
         ui'.retiring = ui.retiring \cup Displaced(R),
         ReturnCount(toWorker', x) = ReturnCount(toWorker, x) +
            IF \E r \in R : Uploads(r) /\ <<r.slide, r.buffer>> = x THEN 1 ELSE 0,
         DoneCount(toMain, x) = DoneCount(toMain', x) +
            IF \E r \in R : r.rendered /\ <<r.slide, r.buffer>> = x THEN 1 ELSE 0,
         ReturnCount(toWorker, x) \in Nat, ReturnCount(worker.queue, x) \in Nat,
         DoneCount(toMain', x) \in Nat
  PROVE  Passes(x)
<1>1. (WorkerHolds(x)' <=> WorkerHolds(x)) /\ (Busy(x)' <=> Busy(x))
      /\ ReturnCount(worker'.queue, x) = ReturnCount(worker.queue, x)
  BY DEF WorkerHolds, Busy
<1>2. x[1] \in Slides /\ x[2] \in Buffers /\ x = <<x[1], x[2]>>
  BY DEF Leases
<1>3. x \in Displaced(R) <=> \E r \in R : /\ r.slide = x[1] /\ Promotes(r)
                                           /\ streams[x[1]].front = x[2] /\ r.buffer # x[2]
  BY <1>2, FrontBuffers DEF Displaced
<1>4. CASE \A r \in R : ~ (r.slide = x[1] /\ r.rendered)
  <2>1. x \notin Displaced(R)
    BY <1>3, <1>4 DEF Promotes
  <2>2. ~ \E r \in R : Uploads(r) /\ <<r.slide, r.buffer>> = x
    BY <1>2, <1>4 DEF Uploads
  <2>3. ~ \E r \in R : r.rendered /\ <<r.slide, r.buffer>> = x
    BY <1>2, <1>4
  <2>4. InFront(x)' = InFront(x) /\ Retiring(x)' = Retiring(x)
    BY <1>4, <2>1 DEF InFront, Retiring
  <2>5. ReturnCount(toWorker', x) = ReturnCount(toWorker, x) /\ DoneCount(toMain, x) = DoneCount(toMain', x)
    BY <2>2, <2>3
  <2>6. MainHolds(x)' = MainHolds(x)
    BY <1>1, <2>4, <2>5 DEF MainHolds
  <2> QED  BY <1>1, <2>6 DEF Passes, Stays
<1>5. ASSUME NEW r \in R, r.slide = x[1], r.rendered
      PROVE  Passes(x)
  <2>1. \A q \in R : q.slide = x[1] => q = r
    BY <1>5 DEF OneEach
  <2>2. x \in Displaced(R) <=> Promotes(r) /\ streams[x[1]].front = x[2] /\ r.buffer # x[2]
    BY <1>3, <1>5, <2>1
  <2>3. (\E q \in R : Uploads(q) /\ <<q.slide, q.buffer>> = x) <=> Uploads(r) /\ r.buffer = x[2]
    BY <1>2, <1>5, <2>1
  <2>4. (\E q \in R : q.rendered /\ <<q.slide, q.buffer>> = x) <=> r.buffer = x[2]
    BY <1>2, <1>5, <2>1
  <2>5. streams'[x[1]].front = IF Promotes(r) THEN r.buffer ELSE streams[x[1]].front
    BY <1>5
  <2>6. Retiring(x)' = IF x \in ui.retiring \cup Displaced(R) THEN 1 ELSE 0
    BY DEF Retiring
  <2>7. Retiring(x) \in {0, 1} /\ InFront(x) \in {0, 1}
        /\ (x \in ui.retiring <=> Retiring(x) = 1)
        /\ (streams[x[1]].front = x[2] <=> InFront(x) = 1)
    BY DEF Retiring, InFront
  <2>8. CASE Promotes(r) /\ r.buffer = x[2]
    <3>1. DoneCount(toMain, x) = DoneCount(toMain', x) + 1
      BY <2>4, <2>8
    <3>2. ~ Uploads(r)
      BY <2>8 DEF Promotes, Uploads
    <3>3. ReturnCount(toWorker', x) = ReturnCount(toWorker, x)
      BY <2>3, <3>2
    <3>4. InFront(x)' = 1
      BY <2>5, <2>8 DEF InFront
    <3>5. Retiring(x)' = Retiring(x)
      BY <2>2, <2>6, <2>8 DEF Retiring
    <3>6. InFront(x) = 0
      BY <2>7, <3>1 DEF OneHolder, MainHolds
    <3>7. MainHolds(x)' = MainHolds(x)
      BY <1>1, <2>7, <3>1, <3>3, <3>4, <3>5, <3>6 DEF MainHolds
    <3> QED  BY <1>1, <3>7 DEF Passes, Stays
  <2>9. CASE Promotes(r) /\ r.buffer # x[2]
    <3>1. DoneCount(toMain, x) = DoneCount(toMain', x)
      BY <2>4, <2>9
    <3>2. ReturnCount(toWorker', x) = ReturnCount(toWorker, x)
      BY <2>3, <2>9
    <3>3. InFront(x)' = 0
      BY <2>5, <2>9 DEF InFront
    <3>4. Retiring(x)' = Retiring(x) + InFront(x)
      <4>1. CASE InFront(x) = 1
        <5>1. Retiring(x) = 0
          BY <2>7, <3>1, <4>1 DEF OneHolder, MainHolds
        <5>2. Retiring(x)' = 1
          BY <2>2, <2>6, <2>7, <2>9, <4>1
        <5> QED  BY <4>1, <5>1, <5>2
      <4>2. CASE InFront(x) = 0
        <5>1. x \notin Displaced(R)
          BY <2>2, <2>7, <4>2
        <5> QED  BY <2>6, <2>7, <4>2, <5>1
      <4> QED  BY <2>7, <4>1, <4>2
    <3>5. MainHolds(x)' = MainHolds(x)
      BY <1>1, <2>7, <3>1, <3>2, <3>3, <3>4 DEF MainHolds
    <3> QED  BY <1>1, <3>5 DEF Passes, Stays
  <2>10. CASE ~ Promotes(r)
    <3>1. InFront(x)' = InFront(x) /\ Retiring(x)' = Retiring(x)
      BY <2>2, <2>5, <2>6, <2>10 DEF InFront, Retiring
    <3>2. CASE r.buffer # x[2]
      <4>1. DoneCount(toMain, x) = DoneCount(toMain', x) /\ ReturnCount(toWorker', x) = ReturnCount(toWorker, x)
        BY <2>3, <2>4, <3>2
      <4>2. MainHolds(x)' = MainHolds(x)
        BY <1>1, <3>1, <4>1 DEF MainHolds
      <4> QED  BY <1>1, <4>2 DEF Passes, Stays
    <3>3. CASE r.buffer = x[2] /\ Uploads(r)
      <4>1. DoneCount(toMain, x) = DoneCount(toMain', x) + 1
        BY <2>4, <3>3
      <4>2. ReturnCount(toWorker', x) = ReturnCount(toWorker, x) + 1
        BY <2>3, <3>3
      <4>3. MainHolds(x)' = MainHolds(x)
        BY <1>1, <2>7, <3>1, <4>1, <4>2 DEF MainHolds
      <4> QED  BY <1>1, <4>3 DEF Passes, Stays
    <3>4. CASE r.buffer = x[2] /\ ~ Uploads(r)
      <4>1. DoneCount(toMain, x) = DoneCount(toMain', x) + 1
        BY <2>4, <3>4
      <4>2. ReturnCount(toWorker', x) = ReturnCount(toWorker, x)
        BY <2>3, <3>4
      <4>3. MainHolds(x)' = MainHolds(x) - 1 /\ MainHolds(x) >= 1
        BY <1>1, <2>7, <3>1, <4>1, <4>2 DEF MainHolds
      <4>4. MainHolds(x) = 1 /\ MainHolds(x)' = 0 /\ ~ WorkerHolds(x)
        BY <4>3 DEF OneHolder
      <4> QED  BY <1>1, <4>4 DEF Passes, GivenUp
    <3> QED  BY <3>2, <3>3, <3>4
  <2> QED  BY <2>8, <2>9, <2>10
<1> QED  BY <1>4, <1>5

LEMMA DoneLease ==
  ASSUME LeaseInv, UNCHANGED setting, RecvFrameDone
  PROVE  Moves
<1> DEFINE m == Head(toMain)
           R == m.results
           S == {Release(r.slide, r.buffer) : r \in {q \in R : Uploads(q)}}
<1>1. /\ proc # "none" /\ toMain # <<>> /\ toMain' = Tail(toMain) /\ m.type = "FrameDone"
      /\ toWorker' = Sent(InSomeOrder(S))
      /\ ui' = [ui EXCEPT !.outstanding = FALSE, !.retiring = @ \cup Displaced(R)]
      /\ streams' = [s \in Slides |->
               IF \E r \in R : r.slide = s
               THEN Shown(streams[s], CHOOSE r \in R : r.slide = s) ELSE streams[s]]
      /\ UNCHANGED <<proc, worker>>
  BY DEF RecvFrameDone, Receiving
<1>2. /\ AnswersOwn(toMain') /\ OneEach(R)
      /\ \A x : /\ DoneCount(toMain', x) \in Nat
                /\ DoneCount(toMain, x) = DoneCount(toMain', x) + IF Delivers(m, x) THEN 1 ELSE 0
  <2>1. AnswersOwn(toMain)
    BY DEF LeaseInv, StateOwn
  <2>2. /\ AnswersOwn(Tail(toMain))
        /\ Answer(m)
        /\ \A x : /\ DoneCount(Tail(toMain), x) \in Nat
                  /\ DoneCount(toMain, x) =
                       DoneCount(Tail(toMain), x) + IF Delivers(m, x) THEN 1 ELSE 0
    BY <1>1, <2>1, AnswersLess
  <2>3. toMain' = Tail(toMain) /\ m.type = "FrameDone"
    BY <1>1
  <2>4. OneEach(R)
    BY <2>2, <2>3 DEF Answer, Announces
  <2> HIDE DEF m, R
  <2> QED  BY <2>2, <2>3, <2>4
<1>3. IsFiniteSet(S) /\ S \subseteq InputMessages
  <2>1. \A r \in {q \in R : Uploads(q)} : r.slide \in Slides /\ r.buffer \in Buffers
    BY <1>2 DEF OneEach, Uploads
  <2>2. S \subseteq InputMessages
    BY <2>1 DEF Release, InputMessages
  <2> QED  BY <1>2, <2>2, UploadsFinite DEF OneEach
<1>4. \A x \in Leases :
        Release(x[1], x[2]) \in S <=> \E r \in R : Uploads(r) /\ <<r.slide, r.buffer>> = x
  <2>1. ASSUME NEW x \in Leases, NEW r
        PROVE  Release(x[1], x[2]) = Release(r.slide, r.buffer) <=> <<r.slide, r.buffer>> = x
    <3>1. x = <<x[1], x[2]>>
      BY DEF Leases
    <3>2. ASSUME Release(x[1], x[2]) = Release(r.slide, r.buffer)
          PROVE  x[1] = r.slide /\ x[2] = r.buffer
      <4>1. Release(x[1], x[2]).slide = Release(r.slide, r.buffer).slide
            /\ Release(x[1], x[2]).buffer = Release(r.slide, r.buffer).buffer
        BY <3>2
      <4> QED  BY <4>1 DEF Release
    <3> QED  BY <3>1, <3>2
  <2> QED  BY <2>1
<1> HIDE DEF S
<1>5. /\ StreamsOwn(streams')
      /\ \A s \in Slides :
           (\A r \in R : ~ (r.slide = s /\ r.rendered)) => streams'[s].front = streams[s].front
      /\ \A r \in R : r.rendered =>
           streams'[r.slide].front = IF Promotes(r) THEN r.buffer ELSE streams[r.slide].front
  <2> HIDE DEF R
  <2> QED  BY <1>1, <1>2, DoneStreams
<1>6. UIOwn(ui') /\ ui'.retiring = ui.retiring \cup Displaced(R)
  <2> HIDE DEF R
  <2>1. UIOwn(ui)
    BY DEF LeaseInv, StateOwn
  <2>2. ui'.retiring = ui.retiring \cup Displaced(R) /\ DOMAIN ui' = DOMAIN ui
    BY <1>1, <2>1 DEF UIOwn
  <2>3. IsFiniteSet(ui.retiring \cup Displaced(R)) /\ ui.retiring \cup Displaced(R) \subseteq Leases
    BY <1>2, <2>1, DisplacedOwn, FS_Union DEF UIOwn
  <2> QED  BY <2>1, <2>2, <2>3 DEF UIOwn
<1>7. toWorker \in Seq(InputMessages) /\ worker.queue \in Seq(InputMessages) /\ StreamsOwn(streams)
      /\ WorkerOwn(worker)
  BY DEF LeaseInv, StateOwn, WorkerOwn
<1>8. proc = "running" =>
        \A x \in Leases :
          /\ toWorker' \in Seq(InputMessages)
          /\ ReturnCount(toWorker', x) =
               ReturnCount(toWorker, x) + IF Release(x[1], x[2]) \in S THEN 1 ELSE 0
  BY <1>1, <1>3, <1>7, ReturnSent
<1>9. toWorker' \in Seq(InputMessages)
  BY <1>1, <1>3, <1>7, SentOwn
<1>10. StateOwn'
  BY <1>1, <1>2, <1>5, <1>6, <1>9 DEF LeaseInv, StateOwn
<1>11. ASSUME proc = "running", NEW x \in Leases
       PROVE  Passes(x)
  <2>1. OneHolder(x)
    BY <1>11 DEF LeaseInv
  <2>2. ReturnCount(toWorker', x) = ReturnCount(toWorker, x) +
          IF \E r \in R : Uploads(r) /\ <<r.slide, r.buffer>> = x THEN 1 ELSE 0
    BY <1>4, <1>8, <1>11
  <2>3. DoneCount(toMain, x) = DoneCount(toMain', x) +
          IF \E r \in R : r.rendered /\ <<r.slide, r.buffer>> = x THEN 1 ELSE 0
    <3>1. Delivers(m, x) <=> \E r \in R : r.rendered /\ <<r.slide, r.buffer>> = x
      BY <1>1 DEF Delivers
    <3> HIDE DEF m, R
    <3> QED  BY <1>2, <3>1
  <2>4. ReturnCount(toWorker, x) \in Nat /\ ReturnCount(worker.queue, x) \in Nat /\ DoneCount(toMain', x) \in Nat
    BY <1>2, <1>7, ReturnHits
  <2>5. x[1] \in Slides
    BY DEF Leases
  <2> HIDE DEF R
  <2> QED  BY <1>1, <1>2, <1>5, <1>6, <1>7, <2>1, <2>2, <2>3, <2>4, <2>5, DonePasses
<1> QED  BY <1>10, <1>11 DEF Moves

(* What was displaced goes back after the swap.                            *)
LEMMA PostSwapLease ==
  ASSUME LeaseInv, UNCHANGED setting, PostSwap
  PROVE  Moves
<1> DEFINE S == {Release(x[1], x[2]) : x \in ui.retiring}
<1>1. /\ toWorker' = Sent(InSomeOrder(S)) /\ UNCHANGED <<proc, streams, worker, toMain>>
      /\ ui' = [ui EXCEPT !.phase = "reap", !.retiring = {}]
  BY DEF PostSwap
<1>2. UIOwn(ui) /\ toWorker \in Seq(InputMessages) /\ WorkerOwn(worker) /\ AnswersOwn(toMain)
  BY DEF LeaseInv, StateOwn
<1>3. IsFiniteSet(S) /\ S \subseteq InputMessages
  <2>1. \A x \in ui.retiring : x[1] \in Slides /\ x[2] \in Buffers
    BY <1>2 DEF UIOwn, Leases
  <2>2. S \subseteq InputMessages
    BY <2>1 DEF Release, InputMessages
  <2> QED  BY <1>2, <2>2, RetiringFinite DEF UIOwn
<1>4. \A x \in Leases : Release(x[1], x[2]) \in S <=> x \in ui.retiring
  <2>1. ASSUME NEW x \in Leases, NEW y \in Leases, Release(x[1], x[2]) = Release(y[1], y[2])
        PROVE  x = y
    <3>1. Release(x[1], x[2]).slide = Release(y[1], y[2]).slide
          /\ Release(x[1], x[2]).buffer = Release(y[1], y[2]).buffer
      BY <2>1
    <3>2. x[1] = y[1] /\ x[2] = y[2]
      BY <3>1 DEF Release
    <3> QED  BY <3>2 DEF Leases
  <2> QED  BY <1>2, <2>1 DEF UIOwn
<1> HIDE DEF S
<1>5. UIOwn(ui') /\ ui'.retiring = {}
  BY <1>1, <1>2, FS_EmptySet DEF UIOwn
<1>6. toWorker' \in Seq(InputMessages)
  BY <1>1, <1>3, <1>2, SentOwn
<1>7. StateOwn'
  BY <1>1, <1>5, <1>6 DEF LeaseInv, StateOwn
<1>8. ASSUME proc = "running", NEW x \in Leases
      PROVE  Stays(x)
  <2>1. ReturnCount(toWorker', x) = ReturnCount(toWorker, x) + Retiring(x)
    <3>1. ReturnCount(toWorker', x) =
            ReturnCount(toWorker, x) + IF Release(x[1], x[2]) \in S THEN 1 ELSE 0
      BY <1>1, <1>2, <1>3, <1>8, ReturnSent
    <3> QED  BY <1>4, <3>1 DEF Retiring
  <2>2. Retiring(x)' = 0 /\ InFront(x)' = InFront(x) /\ Retiring(x) \in Nat /\ InFront(x) \in Nat
    BY <1>1, <1>5 DEF Retiring, InFront
  <2>3. ReturnCount(toWorker, x) \in Nat /\ ReturnCount(worker.queue, x) \in Nat
    BY <1>2, ReturnHits DEF WorkerOwn
  <2>4. DoneCount(toMain, x) \in Nat
    BY <1>2, DoneHits DEF AnswersOwn
  <2>5. MainHolds(x)' = MainHolds(x)
    BY <1>1, <2>1, <2>2, <2>3, <2>4 DEF MainHolds
  <2> QED  BY <1>1, <2>5 DEF Stays, WorkerHolds, Busy
<1> QED  BY <1>7, <1>8 DEF Moves, Passes

(* A new worker starts with every buffer free.                             *)
LEMMA SpawnLease ==
  ASSUME LeaseInv, UNCHANGED setting, Spawn
  PROVE  LeaseInv' /\ owner' = owner
<1>1. /\ proc = "none" /\ proc' = "running" /\ worker' = FreshWorker
      /\ toMain' = <<>> /\ toWorker' = <<>> /\ streams' = streams
      /\ ui' = [ui EXCEPT !.phase = "frame"]
  BY DEF Spawn
<1>2. UIOwn(ui') /\ ui'.retiring = {} /\ \A s \in Slides : streams[s].front = -1
  BY <1>1 DEF LeaseInv, StateOwn, UIOwn
<1>3. StateOwn'
  <2>1. <<>> \in Seq(InputMessages)
    OBVIOUS
  <2> QED  BY <1>1, <1>2, <2>1, FreshWorkerOwn, AnswersNothing DEF LeaseInv, StateOwn
<1>4. ASSUME NEW x \in Leases
      PROVE  MainHolds(x)' = 0 /\ ~ WorkerHolds(x)' /\ ~ Busy(x)'
  <2>1. x[1] \in Slides /\ x[2] \in Buffers
    BY DEF Leases
  <2>2. InFront(x)' = 0 /\ Retiring(x)' = 0
    BY <1>1, <1>2, <2>1, FrontBuffers DEF InFront, Retiring
  <2>3. ReturnCount(toWorker', x) = 0 /\ ReturnCount(worker'.queue, x) = 0 /\ DoneCount(toMain', x) = 0
    BY <1>1, ReturnEmpty, AnswersNothing DEF FreshWorker
  <2>4. MainHolds(x)' = 0
    BY <2>2, <2>3 DEF MainHolds
  <2>5. ~ WorkerHolds(x)' /\ ~ Busy(x)'
    BY <1>1, <2>1 DEF WorkerHolds, HeldBy, Busy, FreshWorker, FreshRing, NoJob
  <2> QED  BY <2>4, <2>5
<1>5. LeaseInv'
  BY <1>3, <1>4 DEF LeaseInv, OneHolder
<1>6. \A x \in Leases : OwnerOf(x) = "free" /\ OwnerOf(x)' = "free"
  BY <1>1, <1>4 DEF OwnerOf
<1> QED  BY <1>5, <1>6, OwnerIs

LEMMA CrashLease ==
  ASSUME LeaseInv, UNCHANGED setting, Crash
  PROVE  StateOwn' /\ proc' # "running"
<1>1. /\ proc' = "dead" /\ worker' = FreshWorker /\ toWorker' = <<>>
      /\ UNCHANGED <<ui, streams, toMain>>
  BY DEF Crash
<1>2. <<>> \in Seq(InputMessages)
  OBVIOUS
<1> QED  BY <1>1, <1>2, FreshWorkerOwn DEF LeaseInv, StateOwn

-----------------------------------------------------------------------------
(* The worker. *)

LEMMA PostedOwn ==
  ASSUME NEW q \in Seq(InputMessages), NEW m \in InputMessages
  PROVE  /\ Posted(q, m) \in Seq(InputMessages)
         /\ \A x \in Leases :
              ReturnCount(Posted(q, m), x) =
                ReturnCount(q, x) + IF m = Release(x[1], x[2]) THEN 1 ELSE 0
<1> DEFINE n == Len(q)
<1>1. CASE m.type = "FrameBegin" /\ q # <<>> /\ q[n].type = "FrameBegin"
  <2> DEFINE p == [q EXCEPT ![n] = m]
  <2>1. Posted(q, m) = p /\ n \in DOMAIN q
    BY <1>1 DEF Posted
  <2>2. p \in Seq(InputMessages) /\ DOMAIN p = DOMAIN q /\ p[n] = m
        /\ \A i \in DOMAIN q : i # n => p[i] = q[i]
    BY <2>1
  <2>3. ASSUME NEW x \in Leases
        PROVE  ReturnCount(p, x) = ReturnCount(q, x) /\ m # Release(x[1], x[2])
               /\ ReturnCount(q, x) \in Nat
    <3> HIDE DEF p, n
    <3>1. Returns(p, x) = Returns(q, x)
      BY <1>1, <2>2 DEF Returns
    <3>2. m # Release(x[1], x[2])
      BY <1>1 DEF Release
    <3> QED  BY <3>1, <3>2, ReturnHits DEF ReturnCount
  <2> HIDE DEF p
  <2>4. \A x \in Leases :
          ReturnCount(p, x) = ReturnCount(q, x) + IF m = Release(x[1], x[2]) THEN 1 ELSE 0
    BY <2>3
  <2> QED  BY <2>1, <2>2, <2>4
<1>2. CASE ~ (m.type = "FrameBegin" /\ q # <<>> /\ q[n].type = "FrameBegin")
  <2>1. Posted(q, m) = Append(q, m)
    BY <1>2 DEF Posted
  <2> QED  BY <2>1, ReturnAppend
<1> QED  BY <1>1, <1>2

LEMMA ReceiveLease ==
  ASSUME LeaseInv, UNCHANGED setting, IORecv
  PROVE  Moves
<1> DEFINE m == Head(toWorker)
<1>1. /\ toWorker # <<>> /\ toWorker' = Tail(toWorker)
      /\ worker' = [worker EXCEPT !.queue = Posted(@, m)]
      /\ UNCHANGED <<proc, ui, streams, toMain>>
  BY DEF IORecv, WorkerStep
<1>2. /\ toWorker \in Seq(InputMessages) /\ WorkerOwn(worker)
      /\ worker.queue \in Seq(InputMessages)
  BY DEF LeaseInv, StateOwn, WorkerOwn
<1>3. m \in InputMessages /\ Tail(toWorker) \in Seq(InputMessages)
  BY <1>1, <1>2
<1>4. ASSUME NEW x \in Leases
      PROVE  /\ ReturnCount(toWorker, x) =
                  ReturnCount(Tail(toWorker), x) + IF m = Release(x[1], x[2]) THEN 1 ELSE 0
             /\ ReturnCount(Tail(toWorker), x) \in Nat /\ ReturnCount(worker.queue, x) \in Nat
  BY <1>1, <1>2, ReturnTail, ReturnHits
<1> HIDE DEF m
<1>5. /\ Posted(worker.queue, m) \in Seq(InputMessages)
      /\ \A x \in Leases :
           ReturnCount(Posted(worker.queue, m), x) =
             ReturnCount(worker.queue, x) + IF m = Release(x[1], x[2]) THEN 1 ELSE 0
  BY <1>2, <1>3, PostedOwn
<1>6. /\ DOMAIN worker' = DOMAIN worker /\ worker'.queue = Posted(worker.queue, m)
      /\ worker'.ring = worker.ring /\ worker'.job = worker.job
  BY <1>1, <1>2 DEF WorkerOwn, WorkerFields
<1>7. WorkerOwn(worker')
  BY <1>2, <1>5, <1>6 DEF WorkerOwn
<1>8. StateOwn'
  BY <1>1, <1>3, <1>7 DEF LeaseInv, StateOwn
<1>9. ASSUME NEW x \in Leases
      PROVE  ReturnCount(toWorker', x) + ReturnCount(worker'.queue, x) =
               ReturnCount(toWorker, x) + ReturnCount(worker.queue, x)
  <2>1. ReturnCount(toWorker', x) = ReturnCount(Tail(toWorker), x)
        /\ ReturnCount(worker'.queue, x) = ReturnCount(Posted(worker.queue, m), x)
    BY <1>1, <1>6
  <2>2. ReturnCount(Posted(worker.queue, m), x) =
          ReturnCount(worker.queue, x) + IF m = Release(x[1], x[2]) THEN 1 ELSE 0
    BY <1>5
  <2> QED  BY <1>4, <2>1, <2>2
<1> QED  BY <1>1, <1>6, <1>8, <1>9, AllStays

(* The ring has its buffer back.                                           *)
LEMMA ReleaseLease ==
  ASSUME LeaseInv, UNCHANGED setting, HandleBufferRelease
  PROVE  Moves
<1> DEFINE m == Head(worker.queue)
<1>1. /\ worker.queue # <<>> /\ m.type = "BufferRelease"
      /\ worker' = [worker EXCEPT !.queue = Tail(@), !.ring[m.slide] = Released(@, m.buffer)]
      /\ proc = "running" /\ UNCHANGED <<proc, ui, streams, toMain, toWorker>>
  BY DEF HandleBufferRelease, WorkerStep
<1>2. /\ toWorker \in Seq(InputMessages) /\ WorkerOwn(worker) /\ AnswersOwn(toMain)
      /\ worker.queue \in Seq(InputMessages) /\ worker.ring \in [Slides -> Rings]
  BY DEF LeaseInv, StateOwn, WorkerOwn
<1>3. m \in InputMessages /\ Tail(worker.queue) \in Seq(InputMessages)
  BY <1>1, <1>2
<1>4. m.slide \in Slides /\ m.buffer \in Buffers /\ m = Release(m.slide, m.buffer)
  BY <1>1, <1>3 DEF InputMessages, Release
<1>5. \A x \in Leases :
        /\ ReturnCount(worker.queue, x) =
             ReturnCount(Tail(worker.queue), x) + IF m = Release(x[1], x[2]) THEN 1 ELSE 0
        /\ ReturnCount(Tail(worker.queue), x) \in Nat
  BY <1>1, <1>2, ReturnTail
<1> HIDE DEF m
<1>6. /\ DOMAIN worker' = DOMAIN worker /\ worker'.queue = Tail(worker.queue)
      /\ worker'.ring = [worker.ring EXCEPT ![m.slide] = Released(@, m.buffer)]
      /\ worker'.job = worker.job
  BY <1>1, <1>2 DEF WorkerOwn, WorkerFields
<1>7. worker'.ring \in [Slides -> Rings]
  <2>1. worker.ring[m.slide] \in Rings
    BY <1>2, <1>4
  <2>2. Released(worker.ring[m.slide], m.buffer) \in Rings
    BY <2>1 DEF Rings, Released
  <2> QED  BY <1>2, <1>6, <2>2
<1>8. StateOwn'
  <2>1. WorkerOwn(worker')
    BY <1>2, <1>3, <1>6, <1>7 DEF WorkerOwn
  <2> QED  BY <1>1, <2>1 DEF LeaseInv, StateOwn
<1>9. ASSUME NEW x \in Leases
      PROVE  Passes(x)
  <2>1. OneHolder(x) /\ x[1] \in Slides /\ x = <<x[1], x[2]>>
    BY <1>1 DEF LeaseInv, Leases
  <2>2. WorkerHolds(x)' <=> WorkerHolds(x)
    BY <1>6 DEF WorkerHolds
  <2>3. InFront(x)' = InFront(x) /\ Retiring(x)' = Retiring(x)
        /\ InFront(x) \in Nat /\ Retiring(x) \in Nat
    BY <1>1 DEF InFront, Retiring
  <2>4. ReturnCount(toWorker, x) \in Nat /\ DoneCount(toMain, x) \in Nat
    BY <1>2, ReturnHits, DoneHits DEF AnswersOwn
  <2>5. CASE m = Release(x[1], x[2])
    <3>1. ReturnCount(worker.queue, x) = ReturnCount(worker'.queue, x) + 1
      BY <1>5, <1>6, <2>5
    <3>2. MainHolds(x) = MainHolds(x)' + 1 /\ MainHolds(x)' \in Nat
      <4>1. ReturnCount(worker'.queue, x) \in Nat
        BY <1>5, <1>6
      <4>2. toWorker' = toWorker /\ toMain' = toMain
        BY <1>1
      <4> QED  BY <2>3, <2>4, <3>1, <4>1, <4>2 DEF MainHolds
    <3>3. MainHolds(x) = 1 /\ MainHolds(x)' = 0 /\ ~ WorkerHolds(x)
      BY <2>1, <3>2 DEF OneHolder
    <3> QED  BY <2>2, <3>3 DEF Passes, GivenUp
  <2>6. CASE m # Release(x[1], x[2])
    <3>1. ReturnCount(worker.queue, x) = ReturnCount(worker'.queue, x)
      BY <1>5, <1>6, <2>6
    <3>2. MainHolds(x)' = MainHolds(x)
      BY <1>1, <2>3, <3>1 DEF MainHolds
    <3>3. ~ (x[1] = m.slide /\ x[2] = m.buffer)
      BY <1>4, <2>6
    <3>4. Busy(x)' <=> Busy(x)
      BY <1>2, <1>6, <2>1, <3>3 DEF Busy, Released, Rings
    <3> QED  BY <2>2, <3>2, <3>4 DEF Passes, Stays
  <2> QED  BY <2>5, <2>6
<1> QED  BY <1>8, <1>9 DEF Moves

LEMMA BeginLease ==
  ASSUME LeaseInv, UNCHANGED setting, HandleFrameBegin
  PROVE  Moves
<1> DEFINE m == Head(worker.queue)
           j == [NoJob EXCEPT !.frame = TRUE, !.todo = m.slides]
<1>1. /\ ~ worker.job.frame /\ worker.queue # <<>> /\ m.type = "FrameBegin"
      /\ worker' = [worker EXCEPT !.queue = Tail(@), !.job = j]
      /\ proc = "running" /\ UNCHANGED <<proc, ui, streams, toMain, toWorker>>
  BY DEF HandleFrameBegin, WorkerStep, Idle, Job, LeaseInv, StateOwn, WorkerOwn, JobOwn
<1>2. /\ WorkerOwn(worker) /\ worker.queue \in Seq(InputMessages) /\ JobOwn(worker.job)
  BY DEF LeaseInv, StateOwn, WorkerOwn
<1>3. m \in InputMessages /\ Tail(worker.queue) \in Seq(InputMessages)
  BY <1>1, <1>2
<1>4. m.slides \subseteq Slides /\ \A x : m # Release(x[1], x[2])
  <2>1. \A x : m # Release(x[1], x[2])
    BY <1>1 DEF Release
  <2> QED  BY <1>1, <1>3, <2>1 DEF InputMessages
<1>5. \A x \in Leases : ReturnCount(worker.queue, x) = ReturnCount(Tail(worker.queue), x)
  <2>1. \A x \in Leases :
        /\ ReturnCount(worker.queue, x) =
             ReturnCount(Tail(worker.queue), x) + IF m = Release(x[1], x[2]) THEN 1 ELSE 0
        /\ ReturnCount(Tail(worker.queue), x) \in Nat
    BY <1>1, <1>2, ReturnTail
  <2> HIDE DEF m
  <2> QED  BY <1>4, <2>1
<1> HIDE DEF m
<1>6. JobOwn(j) /\ j.target = <<>> /\ j.results = {}
  BY <1>4, FS_EmptySet DEF JobOwn, NoJob, JobFields, OneEach
<1> HIDE DEF j
<1>7. /\ DOMAIN worker' = DOMAIN worker /\ worker'.queue = Tail(worker.queue)
      /\ worker'.ring = worker.ring /\ worker'.job = j
  BY <1>1, <1>2 DEF WorkerOwn, WorkerFields
<1>8. StateOwn'
  <2>1. WorkerOwn(worker')
    BY <1>2, <1>3, <1>6, <1>7 DEF WorkerOwn
  <2> QED  BY <1>1, <2>1 DEF LeaseInv, StateOwn
<1>9. ASSUME NEW x \in Leases
      PROVE  Stays(x)
  <2>1. ~ WorkerHolds(x) /\ ~ WorkerHolds(x)'
    BY <1>1, <1>2, <1>6, <1>7 DEF WorkerHolds, HeldBy, JobOwn
  <2>2. InFront(x)' = InFront(x) /\ Retiring(x)' = Retiring(x) /\ (Busy(x)' <=> Busy(x))
    BY <1>1, <1>7 DEF InFront, Retiring, Busy
  <2>3. MainHolds(x)' = MainHolds(x)
    BY <1>1, <1>5, <1>7, <2>2 DEF MainHolds
  <2> QED  BY <2>1, <2>2, <2>3 DEF Stays
<1> QED  BY <1>8, <1>9 DEF Moves, Passes

LEMMA SetSourceLease ==
  ASSUME LeaseInv, UNCHANGED setting, NEW s, HandleSetSource(s)
  PROVE  Moves
<1>1. PICK C : /\ worker' = [worker EXCEPT !.content = C]
               /\ UNCHANGED <<proc, ui, streams, toMain, toWorker>>
  BY DEF HandleSetSource, WorkerStep
<1>2. WorkerOwn(worker)
  BY DEF LeaseInv, StateOwn
<1>3. /\ DOMAIN worker' = DOMAIN worker /\ worker'.queue = worker.queue
      /\ worker'.ring = worker.ring /\ worker'.job = worker.job
  BY <1>1, <1>2 DEF WorkerOwn, WorkerFields
<1>4. StateOwn'
  <2>1. WorkerOwn(worker')
    BY <1>2, <1>3 DEF WorkerOwn
  <2> QED  BY <1>1, <2>1 DEF LeaseInv, StateOwn
<1> QED  BY <1>1, <1>3, <1>4, AllStays

LEMMA CurrentOwn ==
  ASSUME LeaseInv, worker.job.todo # {}
  PROVE  /\ Current = Smallest(worker.job.todo)
         /\ Current \in worker.job.todo /\ Current \in Slides
<1> DEFINE T == worker.job.todo
<1>1. T \subseteq Slides
  BY DEF LeaseInv, StateOwn, WorkerOwn, JobOwn
<1>2. Current = Smallest(T)
  BY DEF Current, Smallest, Job
<1>3. \E s \in T : \A u \in T : s <= u
  BY <1>1, SmallestOfNat, StreamAssumption
<1> HIDE DEF T
<1>4. Smallest(T) \in T
  BY <1>3 DEF Smallest
<1> QED  BY <1>1, <1>2, <1>4 DEF T

(* A search finds a free buffer, if there is one.                          *)
LEMMA CandidateIn ==
  ASSUME NEW r \in Rings, Free(r) # {}
  PROVE  Candidate(r) \in Free(r)
<1> DEFINE F == Free(r)
           D == {Distance(r, b) : b \in F}
<1>1. KBuffers \in Nat /\ KBuffers > 0 /\ r.next \in Int /\ F \subseteq Buffers /\ Buffers \subseteq Int
  BY KBuffersAssumption DEF Rings, Buffers, Free
<1>2. \A b \in Int : Distance(r, b) \in Nat
  BY <1>1 DEF Distance
<1>3. \E b \in F : \A d \in F : Distance(r, b) <= Distance(r, d)
  <2>1. D \in SUBSET Nat /\ D # {}
    BY <1>1, <1>2
  <2>2. PICK n \in D : \A k \in D : n <= k
    <3> HIDE DEF D
    <3> QED  BY <2>1, SmallestOfNat
  <2> QED  BY <2>2
<1>4. Candidate(r) = CHOOSE b \in F : \A d \in F : Distance(r, b) <= Distance(r, d)
  BY DEF Candidate
<1> HIDE DEF F
<1>5. Candidate(r) \in F
  BY <1>3, <1>4
<1> QED  BY <1>5 DEF F

LEMMA CandidateFree ==
  ASSUME NEW r \in Rings, Candidate(r) # kInvalid
  PROVE  /\ Candidate(r) \in Buffers /\ Candidate(r) \notin r.busy
         /\ Acquired(r) \in Rings /\ Acquired(r).busy = r.busy \cup {Candidate(r)}
<1> DEFINE c == Candidate(r)
<1>1. Free(r) # {}
  BY DEF Candidate
<1>2. c \in Buffers /\ c \notin r.busy
  BY <1>1, CandidateIn DEF Free
<1>3. KBuffers \in Nat /\ KBuffers > 0 /\ \A b \in Int : (b + 1) % KBuffers \in Buffers
  BY KBuffersAssumption DEF Buffers
<1> HIDE DEF c
<1>4. Acquired(r) = [busy |-> r.busy \cup {c}, next |-> (c + 1) % KBuffers]
  BY <1>1 DEF Acquired, c
<1>5. Acquired(r) \in Rings
  BY <1>2, <1>3, <1>4 DEF Rings, Buffers
<1> QED  BY <1>2, <1>4, <1>5 DEF c

(* The worker takes, renders and drops buffers; what main holds is as it was. *)
LEMMA MainAside ==
  ASSUME NEW x \in Leases, UNCHANGED <<ui, streams, toWorker>>,
         worker'.queue = worker.queue, DoneCount(toMain', x) = DoneCount(toMain, x)
  PROVE  MainHolds(x)' = MainHolds(x)
<1>1. InFront(x)' = InFront(x) /\ Retiring(x)' = Retiring(x)
  BY DEF InFront, Retiring
<1> QED  BY <1>1 DEF MainHolds

LEMMA OneResultMore ==
  ASSUME NEW j, JobOwn(j), NEW c \in j.todo, NEW r, r.slide = c, r.rendered => r.buffer \in Buffers,
         NEW k, JobFields \subseteq DOMAIN k, k.frame = TRUE, k.target = <<>>,
         k.todo = j.todo \ {c}, k.results = j.results \cup {r}
  PROVE  JobOwn(k)
<1> DEFINE R == j.results
<1>1. /\ IsFiniteSet(R) /\ c \in Slides /\ k.results = R \cup {r}
      /\ \A q \in R : q.slide \in Slides /\ (q.rendered => q.buffer \in Buffers) /\ q.slide # c
      /\ \A p, q \in R : p.slide = q.slide => p = q
  BY DEF JobOwn, OneEach
<1> HIDE DEF R
<1>2. OneEach(R \cup {r})
  <2>1. IsFiniteSet(R \cup {r})
    BY <1>1, OneMore
  <2>2. \A q \in R \cup {r} : q.slide \in Slides /\ (q.rendered => q.buffer \in Buffers)
    BY <1>1
  <2>3. \A p, q \in R \cup {r} : p.slide = q.slide => p = q
    BY <1>1
  <2> QED  BY <2>1, <2>2, <2>3 DEF OneEach
<1> QED  BY <1>1, <1>2 DEF JobOwn, R

LEMMA SkippedLease ==
  ASSUME LeaseInv, UNCHANGED <<setting, proc, ui, streams, toMain, toWorker>>, AtSlide,
         NEW w, DOMAIN w = DOMAIN worker, w.queue = worker.queue, w.job = worker.job,
         w.ring \in [Slides -> Rings],
         \A s \in Slides : w.ring[s].busy = worker.ring[s].busy,
         worker' = Skipped(w)
  PROVE  Moves
<1> DEFINE r == Result(Current, kInvalid, w.transport, FALSE)
           j == worker.job
           k == worker'.job
<1>1. /\ WorkerOwn(worker) /\ JobOwn(j) /\ j.frame = TRUE /\ j.target = <<>> /\ j.todo # {}
      /\ JobFields \subseteq DOMAIN j /\ WorkerFields \subseteq DOMAIN worker
  BY DEF LeaseInv, StateOwn, WorkerOwn, JobOwn, AtSlide, Idle, Job
<1>2. Current \in j.todo
  BY <1>1, CurrentOwn
<1>3. r.slide = Current /\ r.buffer = kInvalid /\ ~ r.rendered
  BY DEF Result
<1> HIDE DEF r
<1>4. /\ DOMAIN worker' = DOMAIN worker /\ worker'.queue = worker.queue /\ worker'.ring = w.ring
      /\ DOMAIN k = DOMAIN j /\ k.frame = TRUE /\ k.target = <<>>
      /\ k.todo = j.todo \ {Current} /\ k.results = j.results \cup {r}
  BY <1>1 DEF Skipped, r, WorkerFields, JobFields
<1> HIDE DEF j, k
<1>5. JobOwn(k)
  BY <1>1, <1>2, <1>3, <1>4, OneResultMore
<1>6. StateOwn'
  <2>1. WorkerOwn(worker')
    BY <1>1, <1>4, <1>5 DEF WorkerOwn, k
  <2> QED  BY <2>1 DEF LeaseInv, StateOwn
<1>7. ASSUME NEW x \in Leases
      PROVE  Stays(x)
  <2>1. x[1] \in Slides /\ x # <<r.slide, r.buffer>>
    BY <1>3, FrontBuffers DEF Leases
  <2>2. WorkerHolds(x)' <=> WorkerHolds(x)
    BY <1>1, <1>4, <2>1 DEF WorkerHolds, HeldBy, j, k
  <2>3. Busy(x)' <=> Busy(x)
    BY <1>4, <2>1 DEF Busy
  <2> QED  BY <1>4, <2>2, <2>3, MainAside DEF Stays
<1> QED  BY <1>6, <1>7 DEF Moves, Passes

LEMMA SkipLease ==
  ASSUME LeaseInv, UNCHANGED setting, SkipSlide
  PROVE  Moves
<1>1. AtSlide /\ worker' = Skipped(worker) /\ UNCHANGED <<proc, ui, streams, toMain, toWorker>>
  BY DEF SkipSlide, WorkerStep
<1>2. worker.ring \in [Slides -> Rings]
  BY DEF LeaseInv, StateOwn, WorkerOwn
<1> QED  BY <1>1, <1>2, SkippedLease

(* The buffer that could not be made goes back into the ring.              *)
LEMMA ShmFailsLease ==
  ASSUME LeaseInv, UNCHANGED setting, ShmFails
  PROVE  Moves
<1> DEFINE w == [worker EXCEPT !.transport = "shm",
                   !.ring[Current] = Released(Acquired(@), Buffer)]
<1>1. /\ AtSlide /\ Buffer # kInvalid /\ worker' = Skipped(w)
      /\ UNCHANGED <<proc, ui, streams, toMain, toWorker>>
  BY DEF ShmFails, TakesBuffer, WorkerStep
<1>2. WorkerOwn(worker) /\ worker.ring \in [Slides -> Rings] /\ worker.job.todo # {}
  BY <1>1 DEF LeaseInv, StateOwn, WorkerOwn, AtSlide, Job
<1>3. Current \in Slides /\ worker.ring[Current] \in Rings
  BY <1>2, CurrentOwn
<1>4. /\ Acquired(worker.ring[Current]) \in Rings
      /\ Acquired(worker.ring[Current]).busy = worker.ring[Current].busy \cup {Buffer}
      /\ Buffer \notin worker.ring[Current].busy
  BY <1>1, <1>3, CandidateFree DEF Buffer
<1>5. /\ Released(Acquired(worker.ring[Current]), Buffer) \in Rings
      /\ Released(Acquired(worker.ring[Current]), Buffer).busy = worker.ring[Current].busy
  BY <1>4 DEF Rings, Released
<1>6. /\ DOMAIN w = DOMAIN worker /\ w.queue = worker.queue /\ w.job = worker.job
      /\ w.ring = [worker.ring EXCEPT ![Current] = Released(Acquired(@), Buffer)]
  BY <1>2 DEF WorkerOwn, WorkerFields
<1> HIDE DEF w
<1>7. w.ring \in [Slides -> Rings] /\ \A s \in Slides : w.ring[s].busy = worker.ring[s].busy
  BY <1>2, <1>3, <1>5, <1>6
<1> QED  BY <1>1, <1>6, <1>7, SkippedLease

(* A free buffer is the worker's: nobody else held it.                     *)
LEMMA BegunLease ==
  ASSUME LeaseInv, UNCHANGED <<setting, proc, ui, streams, toWorker>>, proc = "running",
         AtSlide, Buffer # kInvalid,
         NEW w, DOMAIN w = DOMAIN worker, w.queue = worker.queue, w.job = worker.job,
         w.ring = worker.ring, NEW t, worker' = Begun(w, t),
         AnswersOwn(toMain'), \A x : DoneCount(toMain', x) = DoneCount(toMain, x)
  PROVE  Moves
<1> DEFINE j == worker.job
           k == worker'.job
           c == Current
           b == Buffer
           g == worker.ring
<1>1. /\ WorkerOwn(worker) /\ JobOwn(j) /\ j.frame = TRUE /\ j.target = <<>> /\ j.todo # {}
      /\ JobFields \subseteq DOMAIN j /\ WorkerFields \subseteq DOMAIN worker
      /\ g \in [Slides -> Rings]
  BY DEF LeaseInv, StateOwn, WorkerOwn, JobOwn, AtSlide, Idle, Job
<1>2. c \in Slides /\ c = Smallest(j.todo) /\ g[c] \in Rings
  BY <1>1, CurrentOwn
<1>3. /\ b \in Buffers /\ b \notin g[c].busy /\ Acquired(g[c]) \in Rings
      /\ Acquired(g[c]).busy = g[c].busy \cup {b}
  BY <1>2, CandidateFree DEF Buffer
<1>4. /\ DOMAIN worker' = DOMAIN worker /\ worker'.queue = worker.queue
      /\ worker'.ring = [g EXCEPT ![c] = Acquired(@)]
      /\ DOMAIN k = DOMAIN j /\ k.frame = TRUE /\ k.target = <<c, t>> /\ k.buffer = b
      /\ k.todo = j.todo /\ k.results = j.results
  <2> HIDE DEF b, c
  <2> QED  BY <1>1 DEF Begun, WorkerFields, JobFields, b, c
<1> HIDE DEF j, k, b, c, g
<1>5. JobOwn(k)
  <2>1. k.target[1] = c
    BY <1>4
  <2> QED  BY <1>1, <1>2, <1>3, <1>4, <2>1 DEF JobOwn
<1>6. StateOwn'
  <2>1. worker'.ring \in [Slides -> Rings]
    BY <1>1, <1>2, <1>3, <1>4
  <2>2. WorkerOwn(worker')
    BY <1>1, <1>4, <1>5, <2>1 DEF WorkerOwn, k
  <2> QED  BY <2>2 DEF LeaseInv, StateOwn
<1>7. ASSUME NEW x \in Leases
      PROVE  Passes(x)
  <2>1. x[1] \in Slides /\ x = <<x[1], x[2]>> /\ MainHolds(x)' = MainHolds(x) /\ OneHolder(x)
    BY <1>4, MainAside DEF Leases, LeaseInv
  <2>2. WorkerHolds(x)' <=> x = <<c, b>> \/ WorkerHolds(x)
    <3>1. k.target # <<>> /\ k.target[1] = c
      BY <1>4
    <3> QED  BY <1>1, <1>4, <3>1 DEF WorkerHolds, HeldBy, j, k
  <2>3. CASE x = <<c, b>>
    <3>1. ~ Busy(x) /\ Busy(x)'
      BY <1>1, <1>2, <1>3, <1>4, <2>3 DEF Busy, g
    <3> QED  BY <2>1, <2>2, <2>3, <3>1 DEF Passes, Taken
  <2>4. CASE x # <<c, b>>
    <3>1. Busy(x)' <=> Busy(x)
      <4>1. CASE x[1] = c
        <5>1. worker'.ring[x[1]].busy = g[x[1]].busy \cup {b} /\ x[2] # b
          BY <1>1, <1>2, <1>3, <1>4, <2>1, <2>4, <4>1
        <5> QED  BY <5>1 DEF Busy, g
      <4>2. CASE x[1] # c
        BY <1>1, <1>4, <2>1, <4>2 DEF Busy, g
      <4> QED  BY <4>1, <4>2
    <3> QED  BY <2>1, <2>2, <2>4, <3>1 DEF Passes, Stays
  <2> QED  BY <2>3, <2>4
<1> QED  BY <1>6, <1>7 DEF Moves

LEMMA RenderLease ==
  ASSUME LeaseInv, UNCHANGED setting, BeginDmabuf \/ BeginShm
  PROVE  Moves
<1>1. /\ proc = "running" /\ AtSlide /\ Buffer # kInvalid
      /\ UNCHANGED <<proc, ui, streams, toWorker>>
  BY DEF BeginDmabuf, BeginShm, TakesBuffer, WorkerStep
<1>2. AnswersOwn(toMain') /\ \A x : DoneCount(toMain', x) = DoneCount(toMain, x)
  <2>1. ASSUME NEW tr \in {"dmabuf", "shm"}
        PROVE  Announce(Current, Buffer, tr) \in Announces
    <3>1. worker.job.todo # {} /\ worker.ring \in [Slides -> Rings]
      BY <1>1 DEF AtSlide, Job, LeaseInv, StateOwn, WorkerOwn
    <3>2. Current \in Slides /\ worker.ring[Current] \in Rings
      BY <3>1, CurrentOwn
    <3>3. Buffer \in Buffers
      BY <1>1, <3>2, CandidateFree DEF Buffer
    <3> QED  BY <3>2, <3>3 DEF Announce, Announces
  <2>2. \/ toMain' = toMain
        \/ \E m \in Announces : toMain' = Append(toMain, m)
    BY <2>1 DEF BeginDmabuf, BeginShm
  <2>3. AnswersOwn(toMain)
    BY DEF LeaseInv, StateOwn
  <2>4. ASSUME NEW m \in Announces, toMain' = Append(toMain, m)
        PROVE  AnswersOwn(toMain') /\ \A x : DoneCount(toMain', x) = DoneCount(toMain, x)
    <3>1. Answer(m) /\ \A x : ~ Delivers(m, x)
      BY DEF Delivers, Answer, Announces
    <3>2. /\ AnswersOwn(toMain')
          /\ \A x : /\ DoneCount(toMain, x) \in Nat
                    /\ DoneCount(toMain', x) =
                         DoneCount(toMain, x) + IF Delivers(m, x) THEN 1 ELSE 0
      BY <2>3, <2>4, <3>1, AnswersMore
    <3> QED  BY <3>1, <3>2
  <2> QED  BY <2>2, <2>3, <2>4
<1>3. WorkerFields \subseteq DOMAIN worker
  BY DEF LeaseInv, StateOwn, WorkerOwn
<1>4. CASE BeginDmabuf
  <2> DEFINE w == [worker EXCEPT !.announced = @ \cup {<<Current, Buffer>>}]
  <2>1. worker' = Begun(w, Buffer)
    BY <1>4 DEF BeginDmabuf, WorkerStep
  <2>2. /\ DOMAIN w = DOMAIN worker /\ w.queue = worker.queue /\ w.job = worker.job
        /\ w.ring = worker.ring
    BY <1>3 DEF WorkerFields
  <2> HIDE DEF w
  <2> QED  BY <1>1, <1>2, <2>1, <2>2, BegunLease
<1>5. CASE BeginShm
  <2> DEFINE w == [worker EXCEPT !.transport = "shm", !.shm = @ \cup {<<Current, Buffer>>}]
  <2>1. worker' = Begun(w, 0)
    BY <1>5 DEF BeginShm, WorkerStep
  <2>2. /\ DOMAIN w = DOMAIN worker /\ w.queue = worker.queue /\ w.job = worker.job
        /\ w.ring = worker.ring
    BY <1>3 DEF WorkerFields
  <2> HIDE DEF w
  <2> QED  BY <1>1, <1>2, <2>1, <2>2, BegunLease
<1> QED  BY <1>4, <1>5

LEMMA FinishLease ==
  ASSUME LeaseInv, UNCHANGED setting, FinishSlide
  PROVE  Moves
<1> DEFINE j == worker.job
           k == worker'.job
<1>1. /\ j.frame = TRUE /\ j.target # <<>> /\ UNCHANGED <<proc, ui, streams, toMain, toWorker>>
      /\ WorkerOwn(worker) /\ JobOwn(j)
  BY DEF FinishSlide, WorkerStep, Idle, Job, LeaseInv, StateOwn, WorkerOwn, JobOwn
<1>2. j.todo # {} /\ j.target[1] = Smallest(j.todo) /\ j.buffer \in Buffers
  BY <1>1 DEF JobOwn
<1>3. Current = j.target[1] /\ Current \in j.todo
  BY <1>2, CurrentOwn
<1>4. PICK C, ok :
        worker' = [worker EXCEPT
          !.content = C,
          !.job = [NoJob EXCEPT !.frame = TRUE, !.todo = j.todo \ {Current},
                     !.results = j.results \cup {Result(Current, j.buffer, worker.transport, ok)}]]
  BY DEF FinishSlide, WorkerStep, Job
<1> DEFINE r == Result(Current, j.buffer, worker.transport, ok)
<1>5. r.slide = Current /\ r.buffer = j.buffer
  BY DEF Result
<1> HIDE DEF r
<1>6. /\ DOMAIN worker' = DOMAIN worker /\ worker'.queue = worker.queue /\ worker'.ring = worker.ring
      /\ JobFields \subseteq DOMAIN k /\ k.frame = TRUE /\ k.target = <<>>
      /\ k.todo = j.todo \ {Current} /\ k.results = j.results \cup {r}
  BY <1>1, <1>4 DEF r, WorkerOwn, WorkerFields, JobFields, NoJob
<1> HIDE DEF j, k
<1>7. JobOwn(k)
  BY <1>1, <1>2, <1>3, <1>5, <1>6, OneResultMore
<1>8. StateOwn'
  <2>1. WorkerOwn(worker')
    BY <1>1, <1>6, <1>7 DEF WorkerOwn, k
  <2> QED  BY <1>1, <2>1 DEF LeaseInv, StateOwn
<1>9. ASSUME NEW x \in Leases
      PROVE  Stays(x)
  <2>1. WorkerHolds(x)' <=> WorkerHolds(x)
    BY <1>1, <1>3, <1>5, <1>6 DEF WorkerHolds, HeldBy, j, k
  <2>2. Busy(x)' <=> Busy(x)
    BY <1>6 DEF Busy
  <2>3. DoneCount(toMain', x) = DoneCount(toMain, x)
    BY <1>1
  <2> QED  BY <1>1, <1>6, <2>1, <2>2, <2>3, MainAside DEF Stays
<1> QED  BY <1>8, <1>9 DEF Moves, Passes

(* The frame hands its buffers over; those of a slide that threw without   *)
(* a message are forgotten.                                                *)
LEMMA SendLease ==
  ASSUME LeaseInv, UNCHANGED setting, SendFrameDone
  PROVE  Moves
<1> DEFINE j == worker.job
           m == FrameDone(j.results)
<1>1. /\ j.frame = TRUE /\ j.todo = {} /\ UNCHANGED <<proc, ui, streams, toWorker>>
      /\ toMain' = Append(toMain, m) /\ worker' = [worker EXCEPT !.job = NoJob]
      /\ WorkerOwn(worker) /\ JobOwn(j) /\ AnswersOwn(toMain)
  BY DEF SendFrameDone, WorkerStep, Idle, Job, LeaseInv, StateOwn, WorkerOwn, JobOwn
<1>2. j.target = <<>> /\ OneEach(j.results)
  BY <1>1 DEF JobOwn
<1>3. m.type = "FrameDone" /\ m.results = j.results
  BY DEF FrameDone
<1> HIDE DEF m
<1>4. /\ AnswersOwn(toMain')
      /\ \A x : /\ DoneCount(toMain, x) \in Nat
                /\ DoneCount(toMain', x) = DoneCount(toMain, x) + IF Delivers(m, x) THEN 1 ELSE 0
  <2>1. Answer(m)
    BY <1>2, <1>3 DEF Answer
  <2> QED  BY <1>1, <2>1, AnswersMore
<1>5. /\ DOMAIN worker' = DOMAIN worker /\ worker'.queue = worker.queue /\ worker'.ring = worker.ring
      /\ worker'.job = NoJob
  BY <1>1 DEF WorkerOwn, WorkerFields
<1>6. StateOwn'
  <2>1. JobOwn(NoJob)
    BY FS_EmptySet DEF JobOwn, NoJob, JobFields, OneEach
  <2>2. WorkerOwn(worker')
    BY <1>1, <1>5, <2>1 DEF WorkerOwn
  <2> QED  BY <1>1, <1>4, <2>2 DEF LeaseInv, StateOwn
<1>7. ASSUME NEW x \in Leases, proc = "running"
      PROVE  Passes(x)
  <2>1. ~ WorkerHolds(x)' /\ (Busy(x)' <=> Busy(x)) /\ OneHolder(x)
    BY <1>5, <1>7 DEF WorkerHolds, HeldBy, NoJob, Busy, LeaseInv
  <2>2. WorkerHolds(x) <=> \E r \in j.results : <<r.slide, r.buffer>> = x
    BY <1>2 DEF WorkerHolds, HeldBy
  <2>3. Delivers(m, x) => WorkerHolds(x)
    BY <1>3, <2>2 DEF Delivers
  <2>4. InFront(x)' = InFront(x) /\ Retiring(x)' = Retiring(x)
        /\ InFront(x) \in Nat /\ Retiring(x) \in Nat
    BY <1>1 DEF InFront, Retiring
  <2>5. ReturnCount(toWorker, x) \in Nat /\ ReturnCount(worker.queue, x) \in Nat
    BY <1>1, ReturnHits DEF WorkerOwn, LeaseInv, StateOwn
  <2>6. toWorker' = toWorker
    BY <1>1
  <2>7. CASE Delivers(m, x)
    <3>1. DoneCount(toMain', x) = DoneCount(toMain, x) + 1 /\ DoneCount(toMain, x) \in Nat
      BY <1>4, <2>7
    <3>2. MainHolds(x)' = MainHolds(x) + 1
      BY <1>5, <2>4, <2>5, <2>6, <3>1 DEF MainHolds
    <3> QED  BY <2>1, <2>3, <2>7, <3>2 DEF Passes, HandedOver
  <2>8. CASE ~ Delivers(m, x)
    <3>1. DoneCount(toMain', x) = DoneCount(toMain, x)
      BY <1>4, <2>8
    <3>2. MainHolds(x)' = MainHolds(x)
      BY <1>5, <2>4, <2>6, <3>1 DEF MainHolds
    <3>3. CASE WorkerHolds(x)
      BY <2>1, <3>2, <3>3 DEF Passes, HandedOver
    <3>4. CASE ~ WorkerHolds(x)
      BY <2>1, <3>2, <3>4 DEF Passes, Stays
    <3> QED  BY <3>3, <3>4
  <2> QED  BY <2>7, <2>8
<1> QED  BY <1>6, <1>7 DEF Moves

-----------------------------------------------------------------------------
LEMMA StepLease ==
  ASSUME LeaseInv, [Next /\ UNCHANGED setting]_<<vars, setting>>
  PROVE  LeaseInv' /\ [Lease!Next]_owner
<1>1. CASE UNCHANGED <<vars, setting>>
  <2>1. UNCHANGED <<setting, proc, ui, streams, worker, toMain, toWorker>>
    BY <1>1 DEF vars
  <2>2. StateOwn'
    BY <2>1 DEF LeaseInv, StateOwn
  <2>3. Moves
    BY <2>1, <2>2, AllStays
  <2> QED  BY <2>1, <2>2, <2>3, RunningStep, AllFree DEF Moves
<1>2. CASE Spawn /\ UNCHANGED setting
  BY <1>2, SpawnLease
<1>3. CASE Crash /\ UNCHANGED setting
  BY <1>3, CrashLease, AllFree
<1>4. ASSUME UNCHANGED <<setting, proc>>, Moves
      PROVE  LeaseInv' /\ [Lease!Next]_owner
  <2>1. CASE proc = "running"
    BY <1>4, <2>1, RunningStep DEF Moves
  <2>2. CASE proc # "running"
    BY <1>4, <2>2, AllFree DEF Moves
  <2> QED  BY <2>1, <2>2
<1>5. CASE Reap /\ UNCHANGED setting
  BY <1>5, ReapLease, AllFree DEF Moves
<1>6. CASE (NothingToReap \/ Drained \/ NoSpawn) /\ UNCHANGED setting
  <2>1. UNCHANGED proc
    BY <1>6 DEF NothingToReap, Drained, NoSpawn
  <2> QED  BY <1>4, <1>6, <2>1, QuietLease
<1>7. CASE RecvTextureAnnounce /\ UNCHANGED setting
  <2>1. UNCHANGED proc
    BY <1>7 DEF RecvTextureAnnounce
  <2> QED  BY <1>4, <1>7, <2>1, AnnounceLease
<1>8. CASE RecvFrameDone /\ UNCHANGED setting
  <2>1. UNCHANGED proc
    BY <1>8 DEF RecvFrameDone
  <2> QED  BY <1>4, <1>8, <2>1, DoneLease
<1>9. ASSUME NEW V \in VisibleSets, EndFrame(V), UNCHANGED setting
      PROVE  LeaseInv' /\ [Lease!Next]_owner
  <2>1. UNCHANGED proc
    BY <1>9 DEF EndFrame
  <2> QED  BY <1>4, <1>9, <2>1, EndFrameLease
<1>10. CASE PostSwap /\ UNCHANGED setting
  <2>1. UNCHANGED proc
    BY <1>10 DEF PostSwap
  <2> QED  BY <1>4, <1>10, <2>1, PostSwapLease
<1>11. CASE (IORecv \/ WorkThread) /\ UNCHANGED setting
  <2>1. UNCHANGED proc
    BY <1>11 DEF WorkThread, IORecv, HandleBufferRelease, HandleFrameBegin, SkipSlide,
                 BeginDmabuf, BeginShm, ShmFails, FinishSlide, SendFrameDone, WorkerStep
  <2>2. Moves
    BY <1>11, ReceiveLease, ReleaseLease, BeginLease, SkipLease, RenderLease, ShmFailsLease,
       FinishLease, SendLease DEF WorkThread
  <2> QED  BY <1>4, <1>11, <2>1, <2>2
<1>12. ASSUME NEW s, HandleSetSource(s), UNCHANGED setting
       PROVE  LeaseInv' /\ [Lease!Next]_owner
  <2>1. UNCHANGED proc
    BY <1>12 DEF HandleSetSource, WorkerStep
  <2> QED  BY <1>4, <1>12, <2>1, SetSourceLease
<1> QED  BY <1>1, <1>2, <1>3, <1>5, <1>6, <1>7, <1>8, <1>9, <1>10, <1>11, <1>12 DEF Next, UIStep

(* Ring, announces, FrameDone, promotion, postSwap and BufferRelease       *)
(* implement the lease: a buffer has one owner at a time, and the worker   *)
(* takes it only when it is back in the ring, through failed imports,      *)
(* export fallback, slides that throw, crashes and restarts                *)
(* (BufferRing.h:27-48, WorkerApp.cpp:238-305, RemoteEngine.cpp:340-398,   *)
(* 467-480).                                                               *)
THEOREM BufferLeaseHolds == Spec => ImplementsLease
<1>1. Init => LeaseInv /\ Lease!Init
  BY InitLease
<1>2. LeaseInv /\ [Next /\ UNCHANGED setting]_<<vars, setting>> => LeaseInv' /\ [Lease!Next]_owner
  BY StepLease
<1> QED  BY <1>1, <1>2, PTL DEF Spec, ImplementsLease, Lease!Spec

-----------------------------------------------------------------------------
(* What is displayed. *)

Phases == {"reap", "drain", "update", "frame", "swap"}
PictureOwn(st, g) ==
  /\ st.transport \in {"none", "dmabuf", "shm"}
  /\ st.tex \in {NoTexture, OwnTexture} \cup ((1..g) \X Buffers)
  /\ st.buffer_tex \in [Buffers -> 0..g]

(* A dma-buf of this worker is displayed only while it is the front; the   *)
(* target of a dma-buf is the buffer itself.                               *)
PictureInv ==
  /\ setting \in Settings /\ gen \in 0..MaxGen /\ ui.phase \in Phases
  /\ worker.transport \in {"dmabuf", "shm"}
  /\ worker.transport = "dmabuf" /\ worker.job.target # <<>> =>
       worker.job.target[2] = worker.job.buffer
  /\ \A s \in Slides : PictureOwn(streams[s], gen)
  /\ proc # "none" =>
       \A s \in Slides, b \in Buffers : streams[s].tex = <<gen, b>> => streams[s].front = b

LEMMA SettingOwn ==
  ASSUME setting \in Settings
  PROVE  MaxGen \in Nat /\ Transport \in {"dmabuf", "shm"}
BY StreamAssumption DEF MaxGen, Transport

LEMMA TexturesDiffer == \A g, b : <<g, b>> # NoTexture /\ <<g, b>> # OwnTexture
BY DEF NoTexture, OwnTexture

LEMMA InitPicture == Init => PictureInv
<1> SUFFICES ASSUME Init PROVE PictureInv
  OBVIOUS
<1>1. setting \in Settings /\ gen = 0 /\ proc = "none" /\ MaxGen \in Nat /\ Transport \in {"dmabuf", "shm"}
  BY SettingOwn DEF Init
<1>2. ui.phase \in Phases /\ worker.transport \in {"dmabuf", "shm"} /\ worker.job.target = <<>>
  BY <1>1 DEF Init, Phases, FreshWorker, NoJob
<1>3. \A s \in Slides : PictureOwn(streams[s], 0)
  BY DEF Init, PictureOwn, FreshStream
<1> QED  BY <1>1, <1>2, <1>3 DEF PictureInv

(* Whatever leaves the streams alone.                                      *)
LEMMA PictureStays ==
  ASSUME PictureInv, UNCHANGED <<setting, gen, streams>>, proc' # "none" => proc # "none",
         ui'.phase \in Phases, worker'.transport \in {"dmabuf", "shm"},
         worker'.transport = "dmabuf" /\ worker'.job.target # <<>> =>
           worker'.job.target[2] = worker'.job.buffer
  PROVE  PictureInv'
<1>1. MaxGen' = MaxGen
  BY DEF MaxGen
<1> QED  BY <1>1 DEF PictureInv

LEMMA UIPicture ==
  ASSUME LeaseInv, PictureInv, UNCHANGED setting,
         NothingToReap \/ Drained \/ NoSpawn \/ (\E V \in VisibleSets : EndFrame(V)) \/ PostSwap
  PROVE  PictureInv'
<1>1. UNCHANGED <<proc, gen, streams, worker>>
  BY DEF NothingToReap, Drained, NoSpawn, EndFrame, PostSwap
<1>2. ui'.phase \in Phases
  BY DEF NothingToReap, Drained, NoSpawn, EndFrame, PostSwap, Phases, LeaseInv, StateOwn, UIOwn
<1>3. worker'.transport \in {"dmabuf", "shm"}
      /\ (worker'.transport = "dmabuf" /\ worker'.job.target # <<>> =>
            worker'.job.target[2] = worker'.job.buffer)
  BY <1>1 DEF PictureInv
<1> QED  BY <1>1, <1>2, <1>3, PictureStays

LEMMA ReapPicture ==
  ASSUME LeaseInv, PictureInv, UNCHANGED setting, Reap
  PROVE  PictureInv'
<1>1. /\ proc' = "none" /\ UNCHANGED <<gen, worker>> /\ ui'.phase = "drain"
      /\ streams' = [s \in Slides |-> ForgetsFront(streams[s])]
  BY DEF Reap, AfterDeath
<1>2. \A s \in Slides : PictureOwn(streams'[s], gen)
  BY <1>1 DEF PictureInv, PictureOwn, ForgetsFront, LeaseInv, StateOwn, StreamsOwn, StreamFields
<1>3. MaxGen' = MaxGen
  BY DEF MaxGen
<1> QED  BY <1>1, <1>2, <1>3 DEF PictureInv, Phases

LEMMA AnnouncePicture ==
  ASSUME LeaseInv, PictureInv, UNCHANGED setting, RecvTextureAnnounce
  PROVE  PictureInv'
<1> DEFINE m == Head(toMain)
<1>1. /\ toMain # <<>> /\ m.type = "TextureAnnounce" /\ UNCHANGED <<proc, gen, ui, worker>>
  BY DEF RecvTextureAnnounce, Receiving
<1>2. PICK i \in BOOLEAN : streams' = [streams EXCEPT ![m.slide] = Announced(@, m, i)]
  BY DEF RecvTextureAnnounce
<1>3. m \in Announces
  <2>1. Answer(m)
    BY <1>1, AnswersLess DEF LeaseInv, StateOwn
  <2> QED  BY <1>1, <2>1 DEF Answer
<1>4. /\ StreamsOwn(streams) /\ gen \in Nat /\ m.transport \in {"dmabuf", "shm"} /\ m.buffer \in Buffers
      /\ m.slide \in Slides
  BY <1>3, SettingOwn DEF LeaseInv, StateOwn, Announces, PictureInv
<1>5. ASSUME NEW s \in Slides
      PROVE  /\ PictureOwn(streams'[s], gen)
             /\ streams'[s].tex = streams[s].tex /\ streams'[s].front = streams[s].front
  <2>1. PictureOwn(streams[s], gen) /\ StreamFields \subseteq DOMAIN streams[s]
    BY <1>4 DEF PictureInv, StreamsOwn
  <2>2. CASE s = m.slide
    <3> DEFINE st == streams[s]
               v == Announced(st, m, i)
    <3>1. streams'[s] = v
      BY <1>2, <1>4, <2>2 DEF StreamsOwn
    <3>2. /\ v.transport = m.transport /\ v.tex = st.tex /\ v.front = st.front
          /\ v.buffer_tex = [st.buffer_tex EXCEPT ![m.buffer] = IF i THEN gen ELSE @]
      BY <2>1 DEF Announced, StreamFields
    <3>3. v.buffer_tex \in [Buffers -> 0..gen]
      BY <1>4, <2>1, <3>2 DEF PictureOwn
    <3> HIDE DEF v
    <3> QED  BY <1>4, <2>1, <3>1, <3>2, <3>3 DEF PictureOwn
  <2>3. CASE s # m.slide
    BY <1>2, <1>4, <2>1, <2>3 DEF StreamsOwn
  <2> QED  BY <2>2, <2>3
<1>6. MaxGen' = MaxGen
  BY DEF MaxGen
<1> QED  BY <1>1, <1>5, <1>6 DEF PictureInv

LEMMA DonePicture ==
  ASSUME LeaseInv, PictureInv, UNCHANGED setting, RecvFrameDone
  PROVE  PictureInv'
<1> DEFINE m == Head(toMain)
           R == m.results
<1>1. /\ proc # "none" /\ toMain # <<>> /\ m.type = "FrameDone" /\ UNCHANGED <<proc, gen, worker>>
      /\ streams' = [s \in Slides |->
               IF \E r \in R : r.slide = s
               THEN Shown(streams[s], CHOOSE r \in R : r.slide = s) ELSE streams[s]]
      /\ ui' = [ui EXCEPT !.outstanding = FALSE, !.retiring = @ \cup Displaced(R)]
  BY DEF RecvFrameDone, Receiving
<1>2. OneEach(R)
  <2>1. Answer(m)
    BY <1>1, AnswersLess DEF LeaseInv, StateOwn
  <2> QED  BY <1>1, <2>1 DEF Answer, Announces
<1> HIDE DEF R
<1>3. ui'.phase \in Phases
  BY <1>1 DEF PictureInv, LeaseInv, StateOwn, UIOwn
<1>4. ASSUME NEW s \in Slides
      PROVE  /\ PictureOwn(streams'[s], gen)
             /\ \A b \in Buffers : streams'[s].tex = <<gen, b>> => streams'[s].front = b
  <2> DEFINE st == streams[s]
  <2>1. /\ PictureOwn(st, gen) /\ StreamFields \subseteq DOMAIN st
        /\ \A b \in Buffers : st.tex = <<gen, b>> => st.front = b
    BY <1>1 DEF PictureInv, LeaseInv, StateOwn, StreamsOwn
  <2>2. CASE ~ \E r \in R : r.slide = s
    BY <1>1, <2>1, <2>2
  <2>3. CASE \E r \in R : r.slide = s
    <3>1. PICK r \in R : r.slide = s /\ streams'[s] = Shown(st, r)
      BY <1>1, <2>3
    <3> HIDE DEF st
    <3>2. CASE Promotes(r)
      <4>1. /\ r.buffer \in Buffers /\ st.buffer_tex[r.buffer] # 0
        BY <1>2, <3>1, <3>2 DEF Promotes, OneEach, st
      <4>2. /\ streams'[s].transport = st.transport /\ streams'[s].buffer_tex = st.buffer_tex
            /\ streams'[s].tex = <<st.buffer_tex[r.buffer], r.buffer>> /\ streams'[s].front = r.buffer
        BY <2>1, <3>1, <3>2 DEF Shown, StreamFields
      <4>3. gen \in Nat /\ st.buffer_tex[r.buffer] \in 1..gen
        BY <2>1, <4>1, SettingOwn DEF PictureOwn, PictureInv
      <4> QED  BY <2>1, <4>1, <4>2, <4>3 DEF PictureOwn
    <3>3. CASE ~ Promotes(r) /\ Uploads(r) /\ st.tex = NoTexture
      <4>1. /\ streams'[s].transport = st.transport /\ streams'[s].buffer_tex = st.buffer_tex
            /\ streams'[s].tex = OwnTexture
        BY <2>1, <3>1, <3>3 DEF Shown, StreamFields
      <4> QED  BY <2>1, <4>1, TexturesDiffer DEF PictureOwn
    <3>4. CASE ~ Promotes(r) /\ ~ (Uploads(r) /\ st.tex = NoTexture)
      BY <2>1, <3>1, <3>4 DEF Shown
    <3> QED  BY <3>2, <3>3, <3>4
  <2> QED  BY <2>2, <2>3
<1>5. MaxGen' = MaxGen
  BY DEF MaxGen
<1> QED  BY <1>1, <1>3, <1>4, <1>5 DEF PictureInv

LEMMA SpawnPicture ==
  ASSUME LeaseInv, PictureInv, UNCHANGED setting, Spawn
  PROVE  PictureInv'
<1>1. /\ gen < MaxGen /\ gen' = gen + 1 /\ worker' = FreshWorker /\ streams' = streams
      /\ ui' = [ui EXCEPT !.phase = "frame"] /\ MaxGen' = MaxGen
  BY DEF Spawn, MaxGen
<1>2. gen \in Nat /\ MaxGen \in Nat /\ Transport \in {"dmabuf", "shm"} /\ gen' \in 0..MaxGen
  BY <1>1, SettingOwn DEF PictureInv
<1>3. ui'.phase \in Phases
  BY <1>1 DEF PictureInv, LeaseInv, StateOwn, UIOwn, Phases
<1>4. worker'.transport \in {"dmabuf", "shm"} /\ worker'.job.target = <<>>
  BY <1>1, <1>2 DEF FreshWorker, NoJob
<1>5. ASSUME NEW s \in Slides
      PROVE  /\ PictureOwn(streams[s], gen + 1)
             /\ \A b \in Buffers : streams[s].tex # <<gen + 1, b>>
  <2> DEFINE st == streams[s]
  <2>1. PictureOwn(st, gen)
    BY DEF PictureInv
  <2> HIDE DEF st
  <2>2. 1..gen \subseteq 1..(gen + 1) /\ 0..gen \subseteq 0..(gen + 1) /\ gen + 1 \notin 1..gen
    BY <1>2
  <2>3. st.buffer_tex \in [Buffers -> 0..(gen + 1)]
    BY <2>1, <2>2 DEF PictureOwn
  <2>4. st.tex \in {NoTexture, OwnTexture} \cup ((1..(gen + 1)) \X Buffers)
    BY <2>1, <2>2 DEF PictureOwn
  <2>5. ASSUME NEW b \in Buffers, st.tex = <<gen + 1, b>>
        PROVE  FALSE
    <3>1. st.tex \in (1..gen) \X Buffers
      BY <2>1, <2>5, TexturesDiffer DEF PictureOwn
    <3>2. st.tex[1] \in 1..gen
      BY <3>1
    <3> QED  BY <2>2, <2>5, <3>2
  <2> QED  BY <2>1, <2>3, <2>4, <2>5 DEF PictureOwn, st
<1>6. setting' \in Settings
  BY DEF PictureInv
<1> QED  BY <1>1, <1>2, <1>3, <1>4, <1>5, <1>6 DEF PictureInv

LEMMA WorkerPicture ==
  ASSUME LeaseInv, PictureInv, UNCHANGED setting,
         IORecv \/ WorkThread \/ Crash \/ \E s \in Slides : HandleSetSource(s)
  PROVE  PictureInv'
<1> DEFINE Aimed(w) == /\ w.transport \in {"dmabuf", "shm"}
                       /\ w.transport = "dmabuf" /\ w.job.target # <<>> => w.job.target[2] = w.job.buffer
<1>1. UNCHANGED <<gen, ui, streams>> /\ (proc' # "none" => proc # "none")
  BY DEF IORecv, WorkThread, HandleBufferRelease, HandleFrameBegin, SkipSlide, BeginDmabuf,
         BeginShm, ShmFails, FinishSlide, SendFrameDone, HandleSetSource, WorkerStep, Crash
<1>2. /\ WorkerFields \subseteq DOMAIN worker /\ JobFields \subseteq DOMAIN worker.job
      /\ Aimed(worker) /\ ui.phase \in Phases
  BY DEF LeaseInv, StateOwn, WorkerOwn, JobOwn, PictureInv
<1>3. CASE IORecv \/ HandleBufferRelease \/ \E s \in Slides : HandleSetSource(s)
  <2>1. worker'.transport = worker.transport /\ worker'.job = worker.job
    BY <1>2, <1>3 DEF IORecv, HandleBufferRelease, HandleSetSource, WorkerStep, WorkerFields
  <2>2. Aimed(worker') /\ ui'.phase \in Phases
    BY <1>1, <1>2, <2>1
  <2> QED  BY <1>1, <2>2, PictureStays
<1>4. CASE HandleFrameBegin \/ FinishSlide \/ SendFrameDone
  <2>1. worker'.transport = worker.transport /\ worker'.job.target = <<>>
    <3>1. CASE HandleFrameBegin
      BY <1>2, <3>1 DEF HandleFrameBegin, WorkerStep, NoJob, WorkerFields
    <3>2. CASE FinishSlide
      <4>1. PICK C, ok : worker' = [worker EXCEPT
              !.content = C,
              !.job = [NoJob EXCEPT !.frame = TRUE, !.todo = Job.todo \ {Current},
                         !.results = Job.results \cup
                           {Result(Current, Job.buffer, worker.transport, ok)}]]
        BY <3>2 DEF FinishSlide, WorkerStep
      <4>2. \A T, R : [NoJob EXCEPT !.frame = TRUE, !.todo = T, !.results = R].target = <<>>
        BY DEF NoJob
      <4> QED  BY <1>2, <4>1, <4>2 DEF WorkerFields
    <3>3. CASE SendFrameDone
      BY <1>2, <3>3 DEF SendFrameDone, WorkerStep, NoJob, WorkerFields
    <3> QED  BY <1>4, <3>1, <3>2, <3>3
  <2> QED  BY <1>1, <1>2, <2>1, PictureStays
<1>5. CASE SkipSlide \/ ShmFails
  <2>1. PICK w : /\ worker' = Skipped(w) /\ WorkerFields \subseteq DOMAIN w /\ w.job = worker.job
                 /\ w.transport \in {worker.transport, "shm"}
    <3>1. CASE SkipSlide
      BY <1>2, <3>1 DEF SkipSlide, WorkerStep
    <3>2. CASE ShmFails
      <4> DEFINE w == [worker EXCEPT !.transport = "shm",
                        !.ring[Current] = Released(Acquired(@), Buffer)]
      <4>1. worker' = Skipped(w)
        BY <3>2 DEF ShmFails, WorkerStep
      <4>2. WorkerFields \subseteq DOMAIN w /\ w.job = worker.job /\ w.transport = "shm"
        BY <1>2 DEF WorkerFields
      <4> HIDE DEF w
      <4> QED  BY <4>1, <4>2
    <3> QED  BY <1>5, <3>1, <3>2
  <2>2. worker'.transport \in {worker.transport, "shm"} /\ worker'.job.target = worker.job.target
    BY <1>2, <2>1 DEF Skipped, WorkerFields, JobFields
  <2>3. worker.job.target = <<>>
    BY <1>5 DEF SkipSlide, ShmFails, TakesBuffer, AtSlide, Job
  <2> QED  BY <1>1, <1>2, <2>2, <2>3, PictureStays
<1>6. CASE BeginDmabuf
  <2> DEFINE w == [worker EXCEPT !.announced = @ \cup {<<Current, Buffer>>}]
             c == Current
             b == Buffer
  <2>1. worker' = Begun(w, b)
    BY <1>6 DEF BeginDmabuf, WorkerStep
  <2>2. WorkerFields \subseteq DOMAIN w /\ w.job = worker.job /\ w.transport = worker.transport
    BY <1>2 DEF WorkerFields
  <2> HIDE DEF w
  <2>3. Begun(w, b) = [w EXCEPT !.ring[c] = Acquired(@), !.job.target = <<c, b>>, !.job.buffer = b]
    BY DEF Begun
  <2> HIDE DEF c, b
  <2>4. /\ worker'.transport = worker.transport
        /\ worker'.job = [worker.job EXCEPT !.target = <<c, b>>, !.buffer = b]
    BY <2>1, <2>2, <2>3 DEF WorkerFields
  <2>5. worker'.job.target[2] = worker'.job.buffer
    BY <1>2, <2>4 DEF JobFields
  <2> QED  BY <1>1, <1>2, <2>4, <2>5, PictureStays
<1>7. CASE BeginShm
  <2> DEFINE w == [worker EXCEPT !.transport = "shm", !.shm = @ \cup {<<Current, Buffer>>}]
  <2>1. worker' = Begun(w, 0)
    BY <1>7 DEF BeginShm, WorkerStep
  <2>2. WorkerFields \subseteq DOMAIN w /\ w.transport = "shm"
    BY <1>2 DEF WorkerFields
  <2> HIDE DEF w
  <2>3. worker'.transport = "shm"
    BY <2>1, <2>2 DEF Begun, WorkerFields
  <2> QED  BY <1>1, <1>2, <2>3, PictureStays
<1>8. CASE Crash
  <2>1. worker'.transport = Transport /\ worker'.job.target = <<>>
    BY <1>8 DEF Crash, FreshWorker, NoJob
  <2>2. Transport \in {"dmabuf", "shm"}
    BY SettingOwn DEF PictureInv
  <2> QED  BY <1>1, <1>2, <2>1, <2>2, PictureStays
<1> QED  BY <1>3, <1>4, <1>5, <1>6, <1>7, <1>8 DEF WorkThread

LEMMA StepPicture ==
  ASSUME LeaseInv, PictureInv, [Next /\ UNCHANGED setting]_<<vars, setting>>
  PROVE  PictureInv'
<1>1. CASE UNCHANGED <<vars, setting>>
  <2>1. UNCHANGED <<setting, proc, gen, ui, streams, worker>>
    BY <1>1 DEF vars
  <2> QED  BY <2>1, PictureStays DEF PictureInv
<1>2. CASE UIStep /\ UNCHANGED setting
  BY <1>2, UIPicture, ReapPicture, AnnouncePicture, DonePicture, SpawnPicture DEF UIStep
<1>3. CASE (IORecv \/ WorkThread \/ Crash \/ \E s \in UNION VisibleSets : HandleSetSource(s))
           /\ UNCHANGED setting
  <2>1. UNION VisibleSets \subseteq Slides
    BY StreamAssumption DEF PictureInv, VisibleSets
  <2> QED  BY <1>3, <2>1, WorkerPicture
<1> QED  BY <1>1, <1>2, <1>3 DEF Next

LEMMA TearingFree ==
  ASSUME LeaseInv, PictureInv
  PROVE  NoTearingDmabuf
<1> SUFFICES ASSUME worker.transport = "dmabuf", NEW s \in Slides, NEW b \in Buffers, Rendering(s, b)
             PROVE  ~ Sampled(s, b)
  BY DEF NoTearingDmabuf, NoTearing
<1> DEFINE x == <<s, b>>
<1>1. proc = "running" /\ worker.job.target = x /\ x \in Leases /\ OneHolder(x)
  BY DEF Rendering, Job, Leases, LeaseInv
<1>2. worker.job.target # <<>> /\ worker.job.target[1] = s /\ worker.job.buffer = b
  BY <1>1 DEF PictureInv
<1>3. WorkerHolds(x)
  BY <1>2 DEF WorkerHolds, HeldBy
<1>4. MainHolds(x) = 0
  BY <1>1, <1>3 DEF OneHolder
<1>5. /\ ReturnCount(toWorker, x) \in Nat /\ ReturnCount(worker.queue, x) \in Nat
      /\ DoneCount(toMain, x) \in Nat /\ InFront(x) \in {0, 1} /\ Retiring(x) \in {0, 1}
  <2> HIDE DEF x
  <2>1. /\ toWorker \in Seq(InputMessages) /\ worker.queue \in Seq(InputMessages)
        /\ AnswersOwn(toMain)
    BY DEF LeaseInv, StateOwn, WorkerOwn
  <2> QED  BY <1>1, <2>1, ReturnHits, DoneHits DEF AnswersOwn, InFront, Retiring
<1>6. InFront(x) = 0 /\ Retiring(x) = 0
  BY <1>4, <1>5 DEF MainHolds
<1>7. streams[s].front # b /\ x \notin ui.retiring
  <2>1. x[1] = s /\ x[2] = b
    OBVIOUS
  <2> HIDE DEF x
  <2> QED  BY <1>6, <2>1 DEF InFront, Retiring
<1> QED  BY <1>1, <1>7 DEF Sampled, PictureInv

LEMMA FrameTypes ==
  ASSUME LeaseInv, PictureInv, FrameInv
  PROVE  TypeOK
<1>1. /\ proc \in {"none", "running", "dead"} /\ gen \in 0..MaxGen /\ ui.phase \in Phases
      /\ ui.outstanding \in BOOLEAN /\ ui.retiring \subseteq Leases
      /\ worker.transport \in {"dmabuf", "shm"}
  BY DEF LeaseInv, StateOwn, UIOwn, PictureInv, FrameInv, UIShape
<1>2. ASSUME NEW s \in Slides
      PROVE  /\ streams[s].transport \in {"none", "dmabuf", "shm"}
             /\ streams[s].tex \in {NoTexture, OwnTexture} \cup ((1..MaxGen) \X Buffers)
             /\ streams[s].buffer_tex \in [Buffers -> 0..gen]
             /\ streams[s].front \in Buffers \cup {-1} /\ worker.ring[s] \in Rings
  <2>1. PictureOwn(streams[s], gen)
    BY DEF PictureInv
  <2>2. 1..gen \subseteq 1..MaxGen
    BY <1>1, SettingOwn DEF PictureInv
  <2>3. streams[s].front \in Buffers \cup {-1} /\ worker.ring[s] \in Rings
    BY DEF LeaseInv, StateOwn, StreamsOwn, WorkerOwn
  <2> QED  BY <2>1, <2>2, <2>3 DEF PictureOwn
<1>3. InputMessages \subseteq Messages /\ Announces \subseteq Messages
  BY DEF InputMessages, Messages, Announces
<1>4. /\ \A i \in DOMAIN toWorker : toWorker[i] \in InputMessages
      /\ \A i \in DOMAIN worker.queue : worker.queue[i] \in InputMessages
  <2>1. toWorker \in Seq(InputMessages) /\ worker.queue \in Seq(InputMessages)
    BY DEF LeaseInv, StateOwn, WorkerOwn
  <2>2. ASSUME NEW q \in Seq(InputMessages)
        PROVE  \A i \in DOMAIN q : q[i] \in InputMessages
    OBVIOUS
  <2> QED  BY <2>1, <2>2
<1>5. \A i \in DOMAIN toMain : Answer(toMain[i])
  <2>1. PICK M : toMain \in Seq(M) /\ \A m \in M : Answer(m)
    BY DEF LeaseInv, StateOwn, AnswersOwn
  <2> QED  BY <2>1
<1>6. \A i \in DOMAIN toMain :
        \/ toMain[i] \in Messages
        \/ \A r \in toMain[i].results :
             r.slide \in Slides /\ (r.rendered => r.buffer \in Buffers)
  BY <1>3, <1>5 DEF Answer, OneEach
<1> QED  BY <1>1, <1>2, <1>3, <1>4, <1>6 DEF TypeOK, Phases

(* "Starvation can never tear": while the worker is on dma-bufs it never   *)
(* renders into memory main samples, the displayed texture or one it       *)
(* displaced before the swap; a new worker's buffers are other memory      *)
(* (BufferRing.h:14-17, RemoteEngine.cpp:386-398, 467-474).                *)
THEOREM DmabufNeverTears == Spec => []NoTearingDmabuf
<1>1. Init => LeaseInv /\ PictureInv
  BY InitLease, InitPicture
<1>2. LeaseInv /\ PictureInv /\ [Next /\ UNCHANGED setting]_<<vars, setting>>
        => LeaseInv' /\ PictureInv'
  BY StepLease, StepPicture
<1>3. LeaseInv /\ PictureInv => NoTearingDmabuf
  BY TearingFree
<1> QED  BY <1>1, <1>2, <1>3, PTL DEF Spec

(* Both processes and both directions of the socket keep their types, so   *)
(* every slide and buffer index a message carries is one of the ring's.    *)
THEOREM FramesTyped == Spec => []TypeOK
<1>1. Init => LeaseInv /\ PictureInv /\ FrameInv
  BY InitLease, InitPicture, InitFrame
<1>2. LeaseInv /\ PictureInv /\ FrameInv /\ [Next /\ UNCHANGED setting]_<<vars, setting>>
        => LeaseInv' /\ PictureInv' /\ FrameInv'
  BY StepLease, StepPicture, StepFrame
<1>3. LeaseInv /\ PictureInv /\ FrameInv => TypeOK
  BY FrameTypes
<1> QED  BY <1>1, <1>2, <1>3, PTL DEF Spec

-----------------------------------------------------------------------------
(* What main has been told of a slide's transport. *)

Tells(m, s) == m.type = "TextureAnnounce" /\ m.slide = s

(* When main comes to place i of the queue q, the last announce of slide s *)
(* it has read, there or before, said tr.                                  *)
ToldAt(q, st, i, s, tr) ==
  \/ /\ st[s].transport = tr
     /\ \A l \in 1..(i - 1) : ~ Tells(q[l], s)
  \/ \E k \in 1..(i - 1) :
       /\ Tells(q[k], s) /\ q[k].transport = tr
       /\ \A l \in (k + 1)..(i - 1) : ~ Tells(q[l], s)

DonesTold(q, st) ==
  \A i \in 1..Len(q) : q[i].type = "FrameDone" =>
    \A r \in q[i].results : r.rendered => ToldAt(q, st, i, r.slide, r.transport)

(* Behind the queue, main will know what the worker's results and buffers  *)
(* are.  A worker that has made a shm buffer stays with shm.               *)
Known(w, q, st) ==
  LET At(s, tr) == ToldAt(q, st, Len(q) + 1, s, tr)
  IN  /\ \A r \in w.job.results : r.rendered => At(r.slide, r.transport)
      /\ w.job.target # <<>> => At(w.job.target[1], w.transport)
      /\ \A x \in w.announced : x[1] \in Slides /\ (w.transport = "dmabuf" => At(x[1], "dmabuf"))
      /\ \A x \in w.shm : x[1] \in Slides /\ w.transport = "shm" /\ At(x[1], "shm")

ToldInv ==
  /\ DonesTold(toMain, streams)
  /\ proc = "running" => Known(worker, toMain, streams)

(* A message more, at the end: what was told stands, what it tells holds.  *)
LEMMA ToldAppend ==
  ASSUME NEW M, NEW q \in Seq(M), NEW m, NEW st, NEW s, NEW tr
  PROVE  /\ \A i \in 1..(Len(q) + 1) :
              ToldAt(q, st, i, s, tr) <=> ToldAt(Append(q, m), st, i, s, tr)
         /\ ~ Tells(m, s) /\ ToldAt(q, st, Len(q) + 1, s, tr)
              => ToldAt(Append(q, m), st, Len(Append(q, m)) + 1, s, tr)
         /\ Tells(m, s) /\ m.transport = tr
              => ToldAt(Append(q, m), st, Len(Append(q, m)) + 1, s, tr)
<1> DEFINE p == Append(q, m)
           n == Len(q)
<1>1. /\ n \in Nat /\ Len(p) = n + 1 /\ p[n + 1] = m
      /\ \A i \in 1..n : p[i] = q[i]
  OBVIOUS
<1> HIDE DEF p, n
<1>2. ASSUME NEW i \in 1..(n + 1)
      PROVE  ToldAt(q, st, i, s, tr) <=> ToldAt(p, st, i, s, tr)
  <2>1. \A l \in 1..(i - 1) : p[l] = q[l] /\ \A k \in (l + 1)..(i - 1) : p[k] = q[k]
    BY <1>1
  <2> QED  BY <2>1 DEF ToldAt
<1>3. ASSUME ~ Tells(m, s), ToldAt(q, st, n + 1, s, tr)
      PROVE  ToldAt(p, st, Len(p) + 1, s, tr)
  <2>1. (n + 1) - 1 = n /\ (Len(p) + 1) - 1 = n + 1
    BY <1>1
  <2>2. CASE st[s].transport = tr /\ \A l \in 1..n : ~ Tells(q[l], s)
    <3>1. \A l \in 1..(n + 1) : ~ Tells(p[l], s)
      BY <1>1, <1>3, <2>2
    <3> QED  BY <2>1, <2>2, <3>1 DEF ToldAt
  <2>3. ASSUME NEW k \in 1..n, Tells(q[k], s), q[k].transport = tr,
               \A l \in (k + 1)..n : ~ Tells(q[l], s)
        PROVE  ToldAt(p, st, Len(p) + 1, s, tr)
    <3>1. /\ k \in 1..(n + 1) /\ p[k] = q[k]
          /\ \A l \in (k + 1)..(n + 1) : l = n + 1 \/ (l \in (k + 1)..n /\ p[l] = q[l])
      BY <1>1
    <3>2. \A l \in (k + 1)..(n + 1) : ~ Tells(p[l], s)
      BY <1>1, <1>3, <2>3, <3>1
    <3> QED  BY <2>1, <2>3, <3>1, <3>2 DEF ToldAt
  <2> QED  BY <1>3, <2>1, <2>2, <2>3 DEF ToldAt
<1>4. ASSUME Tells(m, s), m.transport = tr
      PROVE  ToldAt(p, st, Len(p) + 1, s, tr)
  <2>1. n + 1 \in 1..((Len(p) + 1) - 1) /\ \A l \in ((n + 1) + 1)..((Len(p) + 1) - 1) : FALSE
    BY <1>1
  <2> QED  BY <1>1, <1>4, <2>1 DEF ToldAt
<1> QED  BY <1>2, <1>3, <1>4 DEF p, n

(* Main reads the first message and believes it.                           *)
LEMMA ToldTail ==
  ASSUME NEW M, NEW q \in Seq(M), q # <<>>, NEW st, NEW sd, NEW s, NEW tr,
         sd[s].transport = IF Tells(q[1], s) THEN q[1].transport ELSE st[s].transport,
         NEW i \in 1..Len(q), ToldAt(q, st, i + 1, s, tr)
  PROVE  ToldAt(Tail(q), sd, i, s, tr)
<1> DEFINE p == Tail(q)
<1>1. /\ Len(q) \in Nat \ {0} /\ \A l \in 1..(Len(q) - 1) : p[l] = q[l + 1]
      /\ i \in Nat \ {0} /\ (i + 1) - 1 = i
  OBVIOUS
<1>0. \A l \in 1..(i - 1) : p[l] = q[l + 1] /\ l + 1 \in 1..i
  BY <1>1
<1> HIDE DEF p
<1>2. CASE st[s].transport = tr /\ \A l \in 1..i : ~ Tells(q[l], s)
  <2>1. sd[s].transport = tr
    BY <1>1, <1>2
  <2>2. \A l \in 1..(i - 1) : ~ Tells(p[l], s)
    BY <1>0, <1>2
  <2> QED  BY <2>1, <2>2 DEF ToldAt, p
<1>3. ASSUME NEW k \in 1..i, Tells(q[k], s), q[k].transport = tr,
             \A l \in (k + 1)..i : ~ Tells(q[l], s)
      PROVE  ToldAt(p, sd, i, s, tr)
  <2>1. CASE k = 1
    <3>1. \A l \in 1..(i - 1) : l + 1 \in (k + 1)..i
      BY <1>1, <2>1
    <3>2. \A l \in 1..(i - 1) : ~ Tells(p[l], s)
      BY <1>0, <1>3, <3>1
    <3> QED  BY <1>3, <2>1, <3>2 DEF ToldAt
  <2>2. CASE k # 1
    <3>1. k - 1 \in 1..(i - 1) /\ (k - 1) + 1 = k
      BY <1>1, <2>2
    <3>2. p[k - 1] = q[k]
      BY <1>0, <3>1
    <3>3. \A l \in ((k - 1) + 1)..(i - 1) : l \in 1..(i - 1) /\ l + 1 \in (k + 1)..i
      BY <1>1, <2>2
    <3>4. \A l \in ((k - 1) + 1)..(i - 1) : ~ Tells(p[l], s)
      BY <1>0, <1>3, <3>3
    <3> QED  BY <1>3, <3>1, <3>2, <3>4 DEF ToldAt
  <2> QED  BY <2>1, <2>2
<1> QED  BY <1>1, <1>2, <1>3 DEF ToldAt, p

(* A queue that is read behaves as before; so does one that grows by what  *)
(* tells nothing.                                                          *)
LEMMA KnownRead ==
  ASSUME LeaseInv, ToldInv, toMain # <<>>, toMain' = Tail(toMain), UNCHANGED <<proc, worker>>,
         \A s \in Slides :
           streams'[s].transport =
             IF Tells(toMain[1], s) THEN toMain[1].transport ELSE streams[s].transport
  PROVE  ToldInv'
<1>1. PICK M : toMain \in Seq(M) /\ \A m \in M : Answer(m)
  BY DEF LeaseInv, StateOwn, AnswersOwn
<1>2. /\ Len(toMain) \in Nat \ {0} /\ Len(toMain') = Len(toMain) - 1
      /\ \A i \in 1..Len(toMain') :
           i \in 1..Len(toMain) /\ i + 1 \in 1..Len(toMain) /\ toMain'[i] = toMain[i + 1]
      /\ \A i \in 1..Len(toMain) : Answer(toMain[i])
      /\ Len(toMain') + 1 \in 1..Len(toMain) /\ (Len(toMain') + 1) + 1 = Len(toMain) + 1
  BY <1>1
<1>3. ASSUME NEW s \in Slides, NEW tr, NEW i \in 1..Len(toMain), ToldAt(toMain, streams, i + 1, s, tr)
      PROVE  ToldAt(toMain', streams', i, s, tr)
  BY <1>1, <1>3, ToldTail
<1>4. DonesTold(toMain', streams')
  <2> SUFFICES ASSUME NEW i \in 1..Len(toMain'), toMain'[i].type = "FrameDone",
                      NEW r \in toMain'[i].results, r.rendered
               PROVE  ToldAt(toMain', streams', i, r.slide, r.transport)
    BY DEF DonesTold
  <2>1. ToldAt(toMain, streams, i + 1, r.slide, r.transport)
    BY <1>2 DEF ToldInv, DonesTold
  <2>2. r.slide \in Slides
    BY <1>2 DEF Answer, Announces, OneEach
  <2> QED  BY <1>2, <1>3, <2>1, <2>2
<1>5. ASSUME proc = "running" PROVE Known(worker, toMain', streams')
  <2>1. /\ \A r \in worker.job.results : r.slide \in Slides
        /\ worker.job.target # <<>> => worker.job.target[1] \in Slides
    <3>1. JobOwn(worker.job)
      BY DEF LeaseInv, StateOwn, WorkerOwn
    <3>2. worker.job.target # <<>> => worker.job.target[1] \in Slides
      BY <3>1, CurrentOwn DEF JobOwn
    <3> QED  BY <3>1, <3>2 DEF JobOwn, OneEach
  <2>2. \A s \in Slides : \A tr : ToldAt(toMain, streams, Len(toMain) + 1, s, tr)
          => ToldAt(toMain', streams', Len(toMain') + 1, s, tr)
    BY <1>2, <1>3
  <2> QED  BY <1>5, <2>1, <2>2 DEF ToldInv, Known
<1> QED  BY <1>4, <1>5 DEF ToldInv

LEMMA KnownWorks ==
  ASSUME LeaseInv, ToldInv, UNCHANGED <<streams, toMain>>,
         proc' = "running" => Known(worker', toMain, streams)
  PROVE  ToldInv'
BY DEF ToldInv

LEMMA KnownFresh ==
  ASSUME NEW q, NEW st
  PROVE  Known(FreshWorker, q, st)
BY DEF Known, FreshWorker, NoJob

LEMMA InitTold == Init => ToldInv
<1> SUFFICES ASSUME Init PROVE ToldInv
  OBVIOUS
<1>1. toMain = <<>> /\ Len(toMain) = 0 /\ proc = "none"
  BY DEF Init
<1>2. DonesTold(toMain, streams)
  BY <1>1 DEF DonesTold
<1> QED  BY <1>1, <1>2 DEF ToldInv

(* Steps that leave alone what main will know.                             *)
LEMMA QuietTold ==
  ASSUME LeaseInv, ToldInv, UNCHANGED <<proc, streams, toMain>>,
         worker'.job.results = worker.job.results, worker'.job.target = worker.job.target,
         worker'.announced = worker.announced, worker'.shm = worker.shm,
         worker'.transport = worker.transport
  PROVE  ToldInv'
<1>1. proc' = "running" => Known(worker', toMain, streams)
  BY DEF ToldInv, Known
<1> QED  BY <1>1, KnownWorks

LEMMA UITold ==
  ASSUME LeaseInv, ToldInv,
         NothingToReap \/ Drained \/ NoSpawn \/ (\E V \in VisibleSets : EndFrame(V)) \/ PostSwap
  PROVE  ToldInv'
<1>1. UNCHANGED <<proc, streams, worker, toMain>>
  BY DEF NothingToReap, Drained, NoSpawn, EndFrame, PostSwap
<1> QED  BY <1>1, KnownWorks DEF ToldInv

LEMMA FreshTold ==
  ASSUME LeaseInv, ToldInv, Reap \/ Spawn \/ Crash
  PROVE  ToldInv'
<1>1. CASE Reap \/ Spawn
  <2>1. toMain' = <<>> /\ Len(toMain') = 0 /\ (proc' = "running" => worker' = FreshWorker)
    <3>1. CASE Reap
      BY <3>1, Zenon DEF Reap
    <3>2. CASE Spawn
      BY <3>2 DEF Spawn
    <3> QED  BY <1>1, <3>1, <3>2
  <2>2. DonesTold(toMain', streams')
    BY <2>1 DEF DonesTold
  <2> QED  BY <2>1, <2>2, KnownFresh DEF ToldInv
<1>2. CASE Crash
  BY <1>2 DEF Crash, ToldInv
<1> QED  BY <1>1, <1>2

LEMMA AnnounceTold ==
  ASSUME LeaseInv, ToldInv, RecvTextureAnnounce
  PROVE  ToldInv'
<1> DEFINE m == Head(toMain)
<1>1. /\ toMain # <<>> /\ toMain' = Tail(toMain) /\ m.type = "TextureAnnounce"
      /\ UNCHANGED <<proc, worker>>
  BY DEF RecvTextureAnnounce, Receiving
<1>2. PICK i : streams' = [streams EXCEPT ![m.slide] = Announced(@, m, i)]
  BY DEF RecvTextureAnnounce
<1>3. m = toMain[1]
  BY <1>1
<1>4. StreamsOwn(streams)
  BY DEF LeaseInv, StateOwn
<1> HIDE DEF m
<1>5. ASSUME NEW s \in Slides
      PROVE  streams'[s].transport = IF Tells(m, s) THEN m.transport ELSE streams[s].transport
  <2>1. CASE s = m.slide
    <3>1. streams'[s] = Announced(streams[s], m, i)
      BY <1>2, <1>4, <2>1 DEF StreamsOwn
    <3>2. StreamFields \subseteq DOMAIN streams[s]
      BY <1>4 DEF StreamsOwn
    <3>3. streams'[s].transport = m.transport
      BY <3>1, <3>2 DEF Announced, StreamFields
    <3> QED  BY <1>1, <2>1, <3>3 DEF Tells
  <2>2. CASE s # m.slide
    BY <1>2, <1>4, <2>2 DEF StreamsOwn, Tells
  <2> QED  BY <2>1, <2>2
<1> QED  BY <1>1, <1>3, <1>5, KnownRead

LEMMA DoneTold ==
  ASSUME LeaseInv, ToldInv, RecvFrameDone
  PROVE  ToldInv'
<1> DEFINE m == Head(toMain)
           R == m.results
<1>1. /\ toMain # <<>> /\ toMain' = Tail(toMain) /\ m.type = "FrameDone"
      /\ UNCHANGED <<proc, worker>>
      /\ streams' = [s \in Slides |->
               IF \E r \in R : r.slide = s
               THEN Shown(streams[s], CHOOSE r \in R : r.slide = s) ELSE streams[s]]
  BY DEF RecvFrameDone, Receiving
<1>2. m = toMain[1]
  BY <1>1
<1>3. StreamsOwn(streams)
  BY DEF LeaseInv, StateOwn
<1> HIDE DEF m, R
<1>4. ASSUME NEW s \in Slides
      PROVE  streams'[s].transport = streams[s].transport
  <2>1. ASSUME NEW r PROVE Shown(streams[s], r).transport = streams[s].transport
    BY <1>3 DEF Shown, StreamsOwn, StreamFields
  <2> QED  BY <1>1, <2>1
<1>5. \A s : ~ Tells(toMain[1], s)
  BY <1>1, <1>2 DEF Tells
<1> QED  BY <1>1, <1>4, <1>5, KnownRead

-----------------------------------------------------------------------------
LEMMA InputTold ==
  ASSUME LeaseInv, ToldInv, IORecv \/ HandleBufferRelease \/ HandleFrameBegin \/ \E s \in Slides : HandleSetSource(s)
  PROVE  ToldInv'
<1>1. WorkerFields \subseteq DOMAIN worker /\ JobOwn(worker.job)
  BY DEF LeaseInv, StateOwn, WorkerOwn
<1>2. CASE IORecv \/ HandleBufferRelease \/ \E s \in Slides : HandleSetSource(s)
  <2>1. /\ UNCHANGED <<proc, streams, toMain>> /\ worker'.job = worker.job
        /\ worker'.announced = worker.announced /\ worker'.shm = worker.shm
        /\ worker'.transport = worker.transport
    BY <1>1, <1>2 DEF IORecv, HandleBufferRelease, HandleSetSource, WorkerStep, WorkerFields
  <2> QED  BY <2>1, QuietTold
<1>3. CASE HandleFrameBegin
  <2>1. /\ UNCHANGED <<proc, streams, toMain>>
        /\ worker'.announced = worker.announced /\ worker'.shm = worker.shm
        /\ worker'.transport = worker.transport
        /\ worker'.job.results = {} /\ worker'.job.target = <<>>
    BY <1>1, <1>3 DEF HandleFrameBegin, WorkerStep, WorkerFields, NoJob
  <2>2. worker.job.results = {} /\ worker.job.target = <<>>
    BY <1>1, <1>3 DEF HandleFrameBegin, Idle, Job, JobOwn
  <2> QED  BY <2>1, <2>2, QuietTold
<1> QED  BY <1>2, <1>3

(* A slide that is not rendered has nothing to tell; a worker that finds   *)
(* it cannot export stops saying dmabuf.                                   *)
LEMMA SkipTold ==
  ASSUME LeaseInv, ToldInv, SkipSlide \/ ShmFails
  PROVE  ToldInv'
<1>1. WorkerFields \subseteq DOMAIN worker /\ JobFields \subseteq DOMAIN worker.job
  BY DEF LeaseInv, StateOwn, WorkerOwn, JobOwn
<1>2. UNCHANGED <<proc, streams, toMain>> /\ proc = "running" /\ Job.target = <<>>
  BY DEF SkipSlide, ShmFails, TakesBuffer, AtSlide, WorkerStep
<1>3. PICK w : /\ worker' = Skipped(w) /\ WorkerFields \subseteq DOMAIN w /\ w.job = worker.job
               /\ w.transport = worker.transport \/ w.transport = "shm"
               /\ w.announced = worker.announced /\ w.shm = worker.shm
  <2>1. CASE SkipSlide
    BY <1>1, <2>1 DEF SkipSlide, WorkerStep
  <2>2. CASE ShmFails
    <3> DEFINE w == [worker EXCEPT !.transport = "shm",
                      !.ring[Current] = Released(Acquired(@), Buffer)]
    <3>1. worker' = Skipped(w)
      BY <2>2 DEF ShmFails, WorkerStep
    <3>2. /\ WorkerFields \subseteq DOMAIN w /\ w.job = worker.job /\ w.transport = "shm"
          /\ w.announced = worker.announced /\ w.shm = worker.shm
      BY <1>1 DEF WorkerFields
    <3> HIDE DEF w
    <3> QED  BY <3>1, <3>2
  <2> QED  BY <2>1, <2>2
<1> DEFINE r == Result(Current, kInvalid, w.transport, FALSE)
<1>4. r.rendered = FALSE
  BY DEF Result
<1> HIDE DEF r
<1>5. /\ worker'.job.results = worker.job.results \cup {r} /\ worker'.job.target = <<>>
      /\ worker'.transport = w.transport
      /\ worker'.announced = worker.announced /\ worker'.shm = worker.shm
  BY <1>1, <1>2, <1>3 DEF Skipped, WorkerFields, JobFields, Job, r
<1>6. Known(worker, toMain, streams)
  BY <1>2 DEF ToldInv
<1>7. Known(worker', toMain, streams)
  <2>1. \A q \in worker'.job.results : q.rendered => q \in worker.job.results
    BY <1>4, <1>5
  <2>2. worker'.transport = "dmabuf" => worker.transport = "dmabuf"
    BY <1>3, <1>5
  <2>3. \A x \in worker'.shm : worker'.transport = "shm"
    BY <1>3, <1>5, <1>6 DEF Known
  <2> QED  BY <1>5, <1>6, <2>1, <2>2, <2>3 DEF Known
<1> QED  BY <1>2, <1>7, KnownWorks

(* The result says what the slide was rendered to.                         *)
LEMMA FinishTold ==
  ASSUME LeaseInv, ToldInv, FinishSlide
  PROVE  ToldInv'
<1> DEFINE j == worker.job
<1>1. /\ WorkerFields \subseteq DOMAIN worker /\ JobOwn(j) /\ j.target # <<>>
      /\ proc = "running" /\ UNCHANGED <<proc, streams, toMain>>
  BY DEF FinishSlide, WorkerStep, Job, LeaseInv, StateOwn, WorkerOwn
<1>2. Current = j.target[1]
  BY <1>1, CurrentOwn DEF JobOwn
<1>3. PICK C, ok :
        worker' = [worker EXCEPT
          !.content = C,
          !.job = [NoJob EXCEPT !.frame = TRUE, !.todo = j.todo \ {Current},
                     !.results = j.results \cup {Result(Current, j.buffer, worker.transport, ok)}]]
  BY DEF FinishSlide, WorkerStep, Job
<1> DEFINE r == Result(Current, j.buffer, worker.transport, ok)
<1>4. r.slide = Current /\ r.transport = worker.transport
  BY DEF Result
<1> HIDE DEF r
<1>5. /\ worker'.job.results = j.results \cup {r} /\ worker'.job.target = <<>>
      /\ worker'.transport = worker.transport
      /\ worker'.announced = worker.announced /\ worker'.shm = worker.shm
  BY <1>1, <1>3 DEF r, WorkerFields, NoJob
<1>6. Known(worker, toMain, streams)
  BY <1>1 DEF ToldInv
<1>7. Known(worker', toMain, streams)
  <2>1. \A q \in worker'.job.results : q \in j.results \/ q = r
    BY <1>5
  <2>2. ToldAt(toMain, streams, Len(toMain) + 1, r.slide, r.transport)
    BY <1>1, <1>2, <1>4, <1>6 DEF Known
  <2> QED  BY <1>5, <1>6, <2>1, <2>2 DEF Known
<1> QED  BY <1>1, <1>7, KnownWorks

-----------------------------------------------------------------------------
(* A message is sent: main will know what it tells, and otherwise what it  *)
(* would have known.                                                       *)
LEMMA ToldMore ==
  ASSUME LeaseInv, ToldInv, proc = "running", UNCHANGED streams, NEW m, toMain' = Append(toMain, m),
         m.type = "FrameDone" =>
           \A r \in m.results : r.rendered =>
             ToldAt(toMain, streams, Len(toMain) + 1, r.slide, r.transport)
  PROVE  /\ DonesTold(toMain', streams')
         /\ \A s, tr :
              \/ ~ Tells(m, s) /\ ToldAt(toMain, streams, Len(toMain) + 1, s, tr)
              \/ Tells(m, s) /\ m.transport = tr
              => ToldAt(toMain', streams', Len(toMain') + 1, s, tr)
<1>1. PICK M : toMain \in Seq(M)
  BY DEF LeaseInv, StateOwn, AnswersOwn
<1> DEFINE n == Len(toMain)
<1>2. /\ n \in Nat /\ Len(toMain') = n + 1 /\ toMain'[n + 1] = m
      /\ \A i \in 1..n : toMain'[i] = toMain[i]
  BY <1>1
<1>3. ASSUME NEW s, NEW tr
      PROVE  /\ \A i \in 1..(n + 1) :
                  ToldAt(toMain, streams, i, s, tr) => ToldAt(toMain', streams', i, s, tr)
             /\ \/ ~ Tells(m, s) /\ ToldAt(toMain, streams, n + 1, s, tr)
                \/ Tells(m, s) /\ m.transport = tr
                => ToldAt(toMain', streams', Len(toMain') + 1, s, tr)
  BY <1>1, ToldAppend
<1> HIDE DEF n
<1>4. ASSUME NEW i \in 1..Len(toMain'), toMain'[i].type = "FrameDone",
             NEW r \in toMain'[i].results, r.rendered
      PROVE  ToldAt(toMain', streams', i, r.slide, r.transport)
  <2>1. i \in 1..(n + 1) /\ (i \in 1..n \/ i = n + 1)
    BY <1>2
  <2>2. CASE i \in 1..n
    <3>1. ToldAt(toMain, streams, i, r.slide, r.transport)
      BY <1>2, <1>4, <2>2 DEF ToldInv, DonesTold, n
    <3> QED  BY <1>3, <2>1, <3>1
  <2>3. CASE i = n + 1
    <3>1. ToldAt(toMain, streams, n + 1, r.slide, r.transport)
      BY <1>2, <1>4, <2>3 DEF n
    <3> QED  BY <1>3, <2>1, <2>3, <3>1
  <2> QED  BY <2>1, <2>2, <2>3
<1>5. DonesTold(toMain', streams')
  BY <1>4 DEF DonesTold
<1> QED  BY <1>3, <1>5 DEF n

(* A buffer is announced before it is rendered to, unless this worker has  *)
(* announced it before, with the transport it still uses.                  *)
LEMMA BeginTold ==
  ASSUME LeaseInv, ToldInv, AtSlide, proc = "running", UNCHANGED <<proc, streams>>,
         NEW tr, NEW S, NEW b, worker'.transport = tr,
         worker'.job.results = worker.job.results,
         worker'.job.target # <<>>, worker'.job.target[1] = Current,
         \/ /\ tr = "dmabuf" /\ worker.transport = "dmabuf" /\ S = worker.announced
            /\ worker'.announced = S \cup {<<Current, b>>} /\ worker'.shm = worker.shm
         \/ /\ tr = "shm" /\ S = worker.shm
            /\ worker'.shm = S \cup {<<Current, b>>} /\ worker'.announced = worker.announced,
         toMain' = IF <<Current, b>> \in S THEN toMain ELSE Append(toMain, Announce(Current, b, tr))
  PROVE  ToldInv'
<1> DEFINE c == Current
           m == Announce(c, b, tr)
           At(s, t) == ToldAt(toMain, streams, Len(toMain) + 1, s, t)
           Will(s, t) == ToldAt(toMain', streams', Len(toMain') + 1, s, t)
<1>1. JobOwn(worker.job) /\ worker.job.todo # {} /\ c \in worker.job.todo /\ c \in Slides
  BY CurrentOwn DEF LeaseInv, StateOwn, WorkerOwn, AtSlide, Job
<1>2. Known(worker, toMain, streams)
  BY DEF ToldInv
<1>3. /\ \A r \in worker.job.results : r.slide # c /\ (r.rendered => At(r.slide, r.transport))
      /\ \A x \in worker.announced : x[1] \in Slides /\ (worker.transport = "dmabuf" => At(x[1], "dmabuf"))
      /\ \A x \in worker.shm : x[1] \in Slides /\ worker.transport = "shm" /\ At(x[1], "shm")
  BY <1>1, <1>2 DEF Known, JobOwn
<1>4. /\ m.type = "TextureAnnounce" /\ m.transport = tr /\ \A s : Tells(m, s) <=> s = c
  BY DEF Announce, Tells
<1> HIDE DEF c, m
<1>5. DonesTold(toMain', streams') /\ Will(c, tr) /\ \A s, t : s # c /\ At(s, t) => Will(s, t)
  <2>1. CASE <<c, b>> \in S
    <3>1. toMain' = toMain /\ At(c, tr)
      <4>1. <<c, b>>[1] = c
        OBVIOUS
      <4> QED  BY <1>3, <2>1, <4>1 DEF c
    <3> QED  BY <3>1 DEF ToldInv
  <2>2. CASE <<c, b>> \notin S
    <3>1. toMain' = Append(toMain, m)
      BY <2>2 DEF c, m
    <3> QED  BY <1>4, <3>1, ToldMore
  <2> QED  BY <2>1, <2>2
<1> HIDE DEF At
<1>6. Known(worker', toMain', streams')
  <2>1. \A r \in worker'.job.results : r.rendered => Will(r.slide, r.transport)
    BY <1>3, <1>5
  <2>2. Will(worker'.job.target[1], worker'.transport)
    BY <1>5 DEF c
  <2>3. \A x \in worker'.announced : x[1] \in Slides /\ (worker'.transport = "dmabuf" => Will(x[1], "dmabuf"))
    BY <1>1, <1>3, <1>5 DEF c
  <2>4. \A x \in worker'.shm : x[1] \in Slides /\ worker'.transport = "shm" /\ Will(x[1], "shm")
    BY <1>1, <1>3, <1>5 DEF c
  <2> QED  BY <2>1, <2>2, <2>3, <2>4 DEF Known
<1> QED  BY <1>5, <1>6 DEF ToldInv

LEMMA RenderTold ==
  ASSUME LeaseInv, ToldInv, BeginDmabuf \/ BeginShm
  PROVE  ToldInv'
<1> DEFINE c == Current
           b == Buffer
<1>1. /\ WorkerFields \subseteq DOMAIN worker /\ JobFields \subseteq DOMAIN worker.job
      /\ AtSlide /\ proc = "running" /\ UNCHANGED <<proc, streams>>
  BY DEF LeaseInv, StateOwn, WorkerOwn, JobOwn, BeginDmabuf, BeginShm, TakesBuffer, WorkerStep
<1>2. \A w, t : Begun(w, t) = [w EXCEPT !.ring[c] = Acquired(@), !.job.target = <<c, t>>, !.job.buffer = b]
  BY DEF Begun
<1>3. CASE BeginDmabuf
  <2> DEFINE w == [worker EXCEPT !.announced = @ \cup {<<c, b>>}]
  <2>1. /\ worker' = Begun(w, b) /\ worker.transport = "dmabuf"
        /\ toMain' = IF <<c, b>> \in worker.announced THEN toMain
                     ELSE Append(toMain, Announce(c, b, "dmabuf"))
    BY <1>3 DEF BeginDmabuf, WorkerStep
  <2>2. /\ WorkerFields \subseteq DOMAIN w /\ w.job = worker.job /\ w.transport = "dmabuf"
        /\ w.announced = worker.announced \cup {<<c, b>>} /\ w.shm = worker.shm
    BY <1>1, <2>1 DEF WorkerFields
  <2> HIDE DEF w, c, b
  <2>3. /\ worker'.transport = "dmabuf" /\ worker'.announced = w.announced /\ worker'.shm = w.shm
        /\ worker'.job = [worker.job EXCEPT !.target = <<c, b>>, !.buffer = b]
    BY <1>2, <2>1, <2>2 DEF WorkerFields
  <2>4. /\ worker'.job.results = worker.job.results
        /\ worker'.job.target # <<>> /\ worker'.job.target[1] = c
    BY <1>1, <2>3 DEF JobFields
  <2> QED  BY <1>1, <2>1, <2>2, <2>3, <2>4, BeginTold DEF c
<1>4. CASE BeginShm
  <2> DEFINE w == [worker EXCEPT !.transport = "shm", !.shm = @ \cup {<<c, b>>}]
  <2>1. /\ worker' = Begun(w, 0)
        /\ toMain' = IF <<c, b>> \in worker.shm THEN toMain
                     ELSE Append(toMain, Announce(c, b, "shm"))
    BY <1>4 DEF BeginShm, WorkerStep
  <2>2. /\ WorkerFields \subseteq DOMAIN w /\ w.job = worker.job /\ w.transport = "shm"
        /\ w.shm = worker.shm \cup {<<c, b>>} /\ w.announced = worker.announced
    BY <1>1 DEF WorkerFields
  <2> HIDE DEF w, c, b
  <2>3. /\ worker'.transport = "shm" /\ worker'.announced = w.announced /\ worker'.shm = w.shm
        /\ worker'.job = [worker.job EXCEPT !.target = <<c, 0>>, !.buffer = b]
    BY <1>2, <2>1, <2>2 DEF WorkerFields
  <2>4. /\ worker'.job.results = worker.job.results
        /\ worker'.job.target # <<>> /\ worker'.job.target[1] = c
    BY <1>1, <2>3 DEF JobFields
  <2> QED  BY <1>1, <2>1, <2>2, <2>3, <2>4, BeginTold DEF c
<1> QED  BY <1>3, <1>4

LEMMA SendTold ==
  ASSUME LeaseInv, ToldInv, SendFrameDone
  PROVE  ToldInv'
<1> DEFINE R == worker.job.results
           m == FrameDone(R)
<1>1. /\ proc = "running" /\ UNCHANGED <<proc, streams>> /\ toMain' = Append(toMain, m)
      /\ worker' = [worker EXCEPT !.job = NoJob]
      /\ WorkerFields \subseteq DOMAIN worker
  BY DEF SendFrameDone, WorkerStep, Job, LeaseInv, StateOwn, WorkerOwn
<1>2. m.type = "FrameDone" /\ m.results = R /\ \A s : ~ Tells(m, s)
  BY DEF FrameDone, Tells
<1> HIDE DEF m
<1>3. Known(worker, toMain, streams)
  BY <1>1 DEF ToldInv
<1>4. /\ DonesTold(toMain', streams')
      /\ \A s, tr : ToldAt(toMain, streams, Len(toMain) + 1, s, tr)
                      => ToldAt(toMain', streams', Len(toMain') + 1, s, tr)
  <2>1. \A r \in R : r.rendered => ToldAt(toMain, streams, Len(toMain) + 1, r.slide, r.transport)
    BY <1>3 DEF Known
  <2> QED  BY <1>1, <1>2, <2>1, ToldMore
<1>5. /\ worker'.job.results = {} /\ worker'.job.target = <<>>
      /\ worker'.announced = worker.announced /\ worker'.shm = worker.shm
      /\ worker'.transport = worker.transport
  BY <1>1 DEF WorkerFields, NoJob
<1>6. Known(worker', toMain', streams')
  BY <1>3, <1>4, <1>5 DEF Known
<1> QED  BY <1>4, <1>6 DEF ToldInv

LEMMA StepTold ==
  ASSUME LeaseInv, ToldInv, [Next /\ UNCHANGED setting]_<<vars, setting>>
  PROVE  ToldInv'
<1>1. CASE UNCHANGED <<vars, setting>>
  <2>1. UNCHANGED <<proc, streams, worker, toMain>>
    BY <1>1 DEF vars
  <2> QED  BY <2>1 DEF ToldInv
<1>2. CASE UIStep
  BY <1>2, UITold, FreshTold, AnnounceTold, DoneTold DEF UIStep
<1>3. CASE IORecv \/ WorkThread \/ Crash
  BY <1>3, InputTold, SkipTold, RenderTold, FinishTold, SendTold, FreshTold DEF WorkThread
<1>4. ASSUME NEW s \in UNION VisibleSets, HandleSetSource(s), UNCHANGED setting
      PROVE  ToldInv'
  <2>1. UNION VisibleSets \subseteq Slides
    BY StreamAssumption DEF LeaseInv, StateOwn, VisibleSets
  <2> QED  BY <1>4, <2>1, InputTold
<1> QED  BY <1>1, <1>2, <1>3, <1>4 DEF Next

LEMMA TransportTold ==
  ASSUME LeaseInv, ToldInv
  PROVE  TransportAgrees
<1> SUFFICES ASSUME toMain # <<>>, Head(toMain).type = "FrameDone",
                    NEW r \in Head(toMain).results, r.rendered
             PROVE  streams[r.slide].transport = r.transport
  BY DEF TransportAgrees
<1>1. PICK M : toMain \in Seq(M)
  BY DEF LeaseInv, StateOwn, AnswersOwn
<1>2. 1 \in 1..Len(toMain) /\ Head(toMain) = toMain[1] /\ ~ \E k \in 1..(1 - 1) : TRUE
  BY <1>1
<1>3. ToldAt(toMain, streams, 1, r.slide, r.transport)
  BY <1>2 DEF ToldInv, DonesTold
<1> QED  BY <1>2, <1>3 DEF ToldAt

(* Main takes a rendered buffer for what the worker made of it, when a     *)
(* FrameDone is read: the worker announces a slide's transport ahead of    *)
(* the first result that used it, and the socket keeps the order, through  *)
(* a fallback in the middle of a frame and through restarts                *)
(* (WorkerApp.cpp:238-305, RemoteEngine.cpp:340-398).                      *)
THEOREM TransportsAgree == Spec => []TransportAgrees
<1>1. Init => LeaseInv /\ ToldInv
  BY InitLease, InitTold
<1>2. LeaseInv /\ ToldInv /\ [Next /\ UNCHANGED setting]_<<vars, setting>>
        => LeaseInv' /\ ToldInv'
  BY StepLease, StepTold
<1>3. LeaseInv /\ ToldInv => TransportAgrees
  BY TransportTold
<1> QED  BY <1>1, <1>2, <1>3, PTL DEF Spec

-----------------------------------------------------------------------------
(* What main displays. *)

NewDmabuf(m) == m.type = "TextureAnnounce" /\ m.transport = "dmabuf"

(* A dma-buf whose announce is on the way is not on display, and no frame  *)
(* that hands it over is ahead of its announce: so an import never         *)
(* replaces the texture main displays.                                     *)
NewOnes(q, st) ==
  \A i \in 1..Len(q) : NewDmabuf(q[i]) =>
    /\ st[q[i].slide].front # q[i].buffer
    /\ \A j \in 1..(i - 1) : ~ Delivers(q[j], <<q[i].slide, q[i].buffer>>)

DisplayInv == DisplayedLive /\ NewOnes(toMain, streams)

LEMMA DisplayStays ==
  ASSUME DisplayInv, UNCHANGED <<streams, toMain>>
  PROVE  DisplayInv'
BY DEF DisplayInv, DisplayedLive

(* Main reads a message, and puts on display at most what it delivers.     *)
LEMMA NewTail ==
  ASSUME NEW M, NEW q \in Seq(M), q # <<>>, NEW st, NEW sd, NewOnes(q, st),
         \A i \in 1..Len(q) : NewDmabuf(q[i]) =>
           \/ sd[q[i].slide].front = st[q[i].slide].front
           \/ Delivers(q[1], <<q[i].slide, sd[q[i].slide].front>>)
  PROVE  NewOnes(Tail(q), sd)
<1> DEFINE n == Len(q)
           p == Tail(q)
<1>1. n \in Nat /\ n >= 1 /\ Len(p) = n - 1 /\ \A k \in 1..(n - 1) : p[k] = q[k + 1]
  BY SMT
<1> HIDE DEF n, p
<1> SUFFICES ASSUME NEW i \in 1..(n - 1), NewDmabuf(p[i])
             PROVE  /\ sd[p[i].slide].front # p[i].buffer
                    /\ \A j \in 1..(i - 1) : ~ Delivers(p[j], <<p[i].slide, p[i].buffer>>)
  BY <1>1 DEF NewOnes, p
<1>2. i + 1 \in 1..n /\ p[i] = q[i + 1] /\ 1 \in 1..((i + 1) - 1)
  BY <1>1
<1> DEFINE m == q[i + 1]
           x == <<m.slide, m.buffer>>
<1>3. /\ st[m.slide].front # m.buffer
      /\ \A j \in 1..((i + 1) - 1) : ~ Delivers(q[j], x)
  BY <1>2 DEF NewOnes, n
<1>4. \/ sd[m.slide].front = st[m.slide].front
      \/ Delivers(q[1], <<m.slide, sd[m.slide].front>>)
  BY <1>2 DEF n
<1>5. sd[m.slide].front # m.buffer
  BY <1>2, <1>3, <1>4
<1>6. ASSUME NEW j \in 1..(i - 1)
      PROVE  ~ Delivers(p[j], x)
  <2>1. p[j] = q[j + 1] /\ j + 1 \in 1..((i + 1) - 1)
    BY <1>1
  <2> QED  BY <1>3, <2>1
<1> QED  BY <1>2, <1>5, <1>6

(* The worker sends a message.                                             *)
LEMMA NewAppend ==
  ASSUME NEW M, NEW q \in Seq(M), NEW m, NEW st, NewOnes(q, st),
         NewDmabuf(m) =>
           /\ st[m.slide].front # m.buffer
           /\ \A j \in 1..Len(q) : ~ Delivers(q[j], <<m.slide, m.buffer>>)
  PROVE  NewOnes(Append(q, m), st)
<1> DEFINE n == Len(q)
           p == Append(q, m)
<1>1. n \in Nat /\ Len(p) = n + 1 /\ p[n + 1] = m /\ \A k \in 1..n : p[k] = q[k]
  OBVIOUS
<1> HIDE DEF n, p
<1> SUFFICES ASSUME NEW i \in 1..(n + 1), NewDmabuf(p[i])
             PROVE  /\ st[p[i].slide].front # p[i].buffer
                    /\ \A j \in 1..(i - 1) : ~ Delivers(p[j], <<p[i].slide, p[i].buffer>>)
  BY <1>1 DEF NewOnes, p
<1>2. \A j \in 1..(i - 1) : p[j] = q[j] /\ j \in 1..n
  BY <1>1
<1>3. CASE i \in 1..n
  <2>1. p[i] = q[i]
    BY <1>1, <1>3
  <2> QED  BY <1>2, <1>3, <2>1 DEF NewOnes, n
<1>4. CASE i = n + 1
  <2>1. p[i] = m
    BY <1>1, <1>4
  <2> QED  BY <1>2, <2>1 DEF n
<1>5. i \in 1..n \/ i = n + 1
  BY <1>1
<1> QED  BY <1>3, <1>4, <1>5

(* No frame on the way delivers what main does not hold.                   *)
LEMMA NoneOnTheWay ==
  ASSUME LeaseInv, NEW x \in Leases, MainHolds(x) = 0
  PROVE  /\ streams[x[1]].front # x[2] /\ x \notin ui.retiring
         /\ \A j \in 1..Len(toMain) : ~ Delivers(toMain[j], x)
         /\ \A i \in 1..Len(toWorker) : toWorker[i] # Release(x[1], x[2])
         /\ \A i \in 1..Len(worker.queue) : worker.queue[i] # Release(x[1], x[2])
<1>1. /\ toWorker \in Seq(InputMessages) /\ worker.queue \in Seq(InputMessages)
  BY DEF LeaseInv, StateOwn, WorkerOwn
<1>2. PICK M : toMain \in Seq(M)
  BY DEF LeaseInv, StateOwn, AnswersOwn
<1> DEFINE S == {Release(x[1], x[2])}
           D == {m \in M : Delivers(m, x)}
<1>3. /\ ReturnCount(toWorker, x) \in Nat /\ ReturnCount(worker.queue, x) \in Nat
      /\ DoneCount(toMain, x) \in Nat /\ InFront(x) \in {0, 1} /\ Retiring(x) \in {0, 1}
  BY <1>1, <1>2, ReturnHits, DoneHits DEF InFront, Retiring
<1>4. /\ ReturnCount(toWorker, x) = 0 /\ ReturnCount(worker.queue, x) = 0
      /\ DoneCount(toMain, x) = 0 /\ InFront(x) = 0 /\ Retiring(x) = 0
  <2> DEFINE a == ReturnCount(toWorker, x)
             b == ReturnCount(worker.queue, x)
             c == DoneCount(toMain, x)
             d == InFront(x)
             e == Retiring(x)
  <2>1. a + b + c + d + e = 0
    BY DEF MainHolds
  <2>2. a \in Nat /\ b \in Nat /\ c \in Nat /\ d \in Nat /\ e \in Nat
    BY <1>3
  <2> HIDE DEF a, b, c, d, e
  <2>3. a = 0 /\ b = 0 /\ c = 0 /\ d = 0 /\ e = 0
    BY <2>1, <2>2
  <2> QED  BY <2>3 DEF a, b, c, d, e
<1>5. streams[x[1]].front # x[2] /\ x \notin ui.retiring
  BY <1>4 DEF InFront, Retiring
<1>6. ASSUME NEW K, NEW q \in Seq(K), NEW T, HitCount(q, T) = 0
      PROVE  \A i \in 1..Len(q) : q[i] \notin T
  <2>1. IsFiniteSet(Hits(q, T)) /\ Hits(q, T) = {}
    BY <1>6, HitsFinite, FS_EmptySet DEF HitCount
  <2> QED  BY <2>1 DEF Hits
<1>7. HitCount(toWorker, S) = 0 /\ HitCount(worker.queue, S) = 0 /\ HitCount(toMain, D) = 0
  BY <1>1, <1>2, <1>4, ReturnHits, DoneHits
<1>8. /\ \A i \in 1..Len(toWorker) : toWorker[i] \notin S
      /\ \A i \in 1..Len(worker.queue) : worker.queue[i] \notin S
      /\ \A i \in 1..Len(toMain) : toMain[i] \notin D
  <2> HIDE DEF S, D
  <2> QED  BY <1>1, <1>2, <1>6, <1>7
<1>9. \A i \in 1..Len(toMain) : toMain[i] \in M
  BY <1>2
<1> QED  BY <1>5, <1>8, <1>9

LEMMA InitDisplay == Init => DisplayInv
<1> SUFFICES ASSUME Init PROVE DisplayInv
  OBVIOUS
<1>1. toMain = <<>> /\ \A s \in Slides : streams[s].front = -1
  BY DEF Init, FreshStream
<1> QED  BY <1>1 DEF DisplayInv, DisplayedLive, NewOnes

(* Without a worker nothing is the front, and nothing is on the way.       *)
LEMMA DeathDisplay ==
  ASSUME LeaseInv, DisplayInv, Reap \/ Spawn
  PROVE  DisplayInv'
<1>1. CASE Reap
  <2>1. toMain' = <<>> /\ streams' = [s \in Slides |-> ForgetsFront(streams[s])]
    BY <1>1, Zenon DEF Reap
  <2>2. \A s \in Slides : streams'[s].front = -1
    BY <2>1 DEF ForgetsFront, LeaseInv, StateOwn, StreamsOwn, StreamFields
  <2> QED  BY <2>1, <2>2 DEF DisplayInv, DisplayedLive, NewOnes
<1>2. CASE Spawn
  <2>1. toMain' = <<>> /\ streams' = streams
    BY <1>2 DEF Spawn
  <2> QED  BY <2>1 DEF DisplayInv, DisplayedLive, NewOnes
<1> QED  BY <1>1, <1>2

(* An import that succeeds is of a buffer that is not the front.           *)
LEMMA AnnounceDisplay ==
  ASSUME LeaseInv, PictureInv, DisplayInv, RecvTextureAnnounce
  PROVE  DisplayInv'
<1> DEFINE m == Head(toMain)
<1>1. /\ toMain # <<>> /\ toMain' = Tail(toMain) /\ m.type = "TextureAnnounce"
  BY DEF RecvTextureAnnounce, Receiving
<1>2. PICK i \in BOOLEAN : /\ streams' = [streams EXCEPT ![m.slide] = Announced(@, m, i)]
                           /\ m.transport = "shm" => ~ i
  BY DEF RecvTextureAnnounce
<1>3. m \in Announces
  <2>1. Answer(m)
    BY <1>1, AnswersLess DEF LeaseInv, StateOwn
  <2> QED  BY <1>1, <2>1 DEF Answer
<1>4. PICK M : toMain \in Seq(M)
  BY DEF LeaseInv, StateOwn, AnswersOwn
<1>5. m = toMain[1] /\ 1 \in 1..Len(toMain)
  BY <1>1, <1>4
<1>6. i => streams[m.slide].front # m.buffer
  <2>1. i => NewDmabuf(m)
    BY <1>1, <1>2, <1>3 DEF NewDmabuf, Announces
  <2> QED  BY <1>5, <2>1 DEF DisplayInv, NewOnes
<1>7. m.slide \in Slides /\ m.buffer \in Buffers /\ StreamsOwn(streams)
  BY <1>3 DEF Announces, LeaseInv, StateOwn
<1> HIDE DEF m
<1>8. ASSUME NEW s \in Slides
      PROVE  /\ streams'[s].front = streams[s].front /\ streams'[s].tex = streams[s].tex
             /\ streams[s].front # -1 =>
                  streams'[s].buffer_tex[streams[s].front] = streams[s].buffer_tex[streams[s].front]
  <2>1. /\ StreamFields \subseteq DOMAIN streams[s] /\ streams[s].front \in Buffers \cup {-1}
        /\ streams[s].buffer_tex \in [Buffers -> 0..gen]
    BY <1>7 DEF StreamsOwn, PictureInv, PictureOwn
  <2>2. CASE s = m.slide
    <3> DEFINE st == streams[s]
               v == Announced(st, m, i)
    <3>1. streams'[s] = v
      BY <1>2, <1>7, <2>2 DEF StreamsOwn
    <3>2. /\ v.tex = st.tex /\ v.front = st.front
          /\ v.buffer_tex = [st.buffer_tex EXCEPT ![m.buffer] = IF i THEN gen ELSE @]
      BY <2>1 DEF Announced, StreamFields
    <3> HIDE DEF v
    <3> QED  BY <1>6, <1>7, <2>1, <2>2, <3>1, <3>2
  <2>3. CASE s # m.slide
    BY <1>2, <1>7, <2>3 DEF StreamsOwn
  <2> QED  BY <2>2, <2>3
<1>9. DisplayedLive'
  BY <1>8 DEF DisplayInv, DisplayedLive
<1>10. \A k \in 1..Len(toMain) : NewDmabuf(toMain[k]) => toMain[k].slide \in Slides
  <2>1. PICK K : toMain \in Seq(K) /\ \A k \in K : Answer(k)
    BY DEF LeaseInv, StateOwn, AnswersOwn
  <2>2. \A k \in 1..Len(toMain) : Answer(toMain[k])
    BY <2>1
  <2> QED  BY <2>2 DEF Answer, Announces, NewDmabuf
<1>11. NewOnes(Tail(toMain), streams')
  BY <1>1, <1>4, <1>8, <1>10, NewTail DEF DisplayInv
<1> QED  BY <1>1, <1>9, <1>11 DEF DisplayInv

(* A promotion displays the front; what was announced is not delivered     *)
(* before.                                                                 *)
LEMMA DoneDisplay ==
  ASSUME LeaseInv, DisplayInv, RecvFrameDone
  PROVE  DisplayInv'
<1> DEFINE m == Head(toMain)
           R == m.results
<1>1. /\ toMain # <<>> /\ toMain' = Tail(toMain) /\ m.type = "FrameDone"
      /\ streams' = [s \in Slides |->
               IF \E r \in R : r.slide = s
               THEN Shown(streams[s], CHOOSE r \in R : r.slide = s) ELSE streams[s]]
  BY DEF RecvFrameDone, Receiving
<1>2. PICK K : toMain \in Seq(K) /\ \A k \in K : Answer(k)
  BY DEF LeaseInv, StateOwn, AnswersOwn
<1>3. m = toMain[1] /\ \A k \in 1..Len(toMain) : Answer(toMain[k])
  BY <1>1, <1>2
<1>4. OneEach(R) /\ StreamsOwn(streams)
  BY <1>1, <1>2, AnswersLess DEF LeaseInv, StateOwn, Answer, Announces
<1>5. \A x : (\E r \in R : r.rendered /\ <<r.slide, r.buffer>> = x) => Delivers(m, x)
  BY <1>1 DEF Delivers
<1> HIDE DEF R, m
<1>6. ASSUME NEW s \in Slides
      PROVE  /\ \/ streams'[s].front = streams[s].front
                \/ Delivers(m, <<s, streams'[s].front>>)
             /\ streams'[s].front # -1 =>
                  streams'[s].tex = <<streams'[s].buffer_tex[streams'[s].front], streams'[s].front>>
  <2> DEFINE st == streams[s]
  <2>1. /\ StreamFields \subseteq DOMAIN st
        /\ st.front # -1 => st.tex = <<st.buffer_tex[st.front], st.front>>
    BY <1>4 DEF StreamsOwn, DisplayInv, DisplayedLive
  <2>2. CASE ~ \E r \in R : r.slide = s
    BY <1>1, <2>1, <2>2
  <2>3. CASE \E r \in R : r.slide = s
    <3>1. PICK r \in R : r.slide = s /\ streams'[s] = Shown(st, r)
      BY <1>1, <2>3
    <3> HIDE DEF st
    <3>2. CASE Promotes(r)
      <4>1. /\ streams'[s].buffer_tex = st.buffer_tex
            /\ streams'[s].tex = <<st.buffer_tex[r.buffer], r.buffer>> /\ streams'[s].front = r.buffer
        BY <2>1, <3>1, <3>2 DEF Shown, StreamFields
      <4>2. Delivers(m, <<s, r.buffer>>)
        BY <1>5, <3>1, <3>2 DEF Promotes
      <4> QED  BY <4>1, <4>2
    <3>3. CASE ~ Promotes(r) /\ Uploads(r) /\ st.tex = NoTexture
      <4>1. st.front = -1
        BY <2>1, <3>3, TexturesDiffer
      <4>2. streams'[s].front = st.front
        BY <2>1, <3>1, <3>3 DEF Shown, StreamFields
      <4> QED  BY <4>1, <4>2 DEF st
    <3>4. CASE ~ Promotes(r) /\ ~ (Uploads(r) /\ st.tex = NoTexture)
      BY <2>1, <3>1, <3>4 DEF Shown, st
    <3> QED  BY <3>2, <3>3, <3>4
  <2> QED  BY <2>2, <2>3
<1>7. DisplayedLive'
  BY <1>6 DEF DisplayedLive
<1>8. \A k \in 1..Len(toMain) : NewDmabuf(toMain[k]) => toMain[k].slide \in Slides
  BY <1>3 DEF Answer, Announces, NewDmabuf
<1>9. NewOnes(Tail(toMain), streams')
  BY <1>1, <1>2, <1>3, <1>6, <1>8, NewTail DEF DisplayInv
<1> QED  BY <1>1, <1>7, <1>9 DEF DisplayInv

(* A buffer is announced when the ring has it free.                        *)
LEMMA SendDisplay ==
  ASSUME LeaseInv, DisplayInv, BeginDmabuf \/ BeginShm \/ SendFrameDone
  PROVE  DisplayInv'
<1>1. proc = "running" /\ streams' = streams
  BY DEF BeginDmabuf, BeginShm, SendFrameDone, TakesBuffer, WorkerStep
<1>2. PICK M : toMain \in Seq(M)
  BY DEF LeaseInv, StateOwn, AnswersOwn
<1>3. ASSUME NEW m, toMain' = Append(toMain, m), ~ NewDmabuf(m)
      PROVE  DisplayInv'
  <2>1. NewOnes(toMain', streams)
    BY <1>2, <1>3, NewAppend DEF DisplayInv
  <2> QED  BY <1>1, <2>1 DEF DisplayInv, DisplayedLive
<1>4. CASE SendFrameDone
  <2>1. ~ NewDmabuf(FrameDone(Job.results))
    BY DEF FrameDone, NewDmabuf
  <2> QED  BY <1>3, <1>4, <2>1 DEF SendFrameDone
<1>5. CASE BeginShm
  <2>1. ~ NewDmabuf(Announce(Current, Buffer, "shm"))
    BY DEF Announce, NewDmabuf
  <2> QED  BY <1>1, <1>3, <1>5, <2>1, DisplayStays DEF BeginShm
<1>6. CASE BeginDmabuf
  <2> DEFINE x == <<Current, Buffer>>
             m == Announce(Current, Buffer, "dmabuf")
  <2>1. /\ AtSlide /\ Buffer # kInvalid
        /\ toMain' = toMain \/ toMain' = Append(toMain, m)
    BY <1>6 DEF BeginDmabuf, TakesBuffer
  <2>2. worker.job.todo # {} /\ worker.ring \in [Slides -> Rings]
    BY <2>1 DEF AtSlide, Job, LeaseInv, StateOwn, WorkerOwn
  <2>3. Current \in Slides /\ worker.ring[Current] \in Rings
    BY <2>2, CurrentOwn
  <2>4. Buffer \in Buffers /\ Buffer \notin worker.ring[Current].busy
    BY <2>1, <2>3, CandidateFree DEF Buffer
  <2>5. x \in Leases /\ x[1] = Current /\ x[2] = Buffer
    BY <2>3, <2>4 DEF Leases
  <2>6. m.slide = Current /\ m.buffer = Buffer
    BY DEF Announce
  <2> HIDE DEF x, m
  <2>7. MainHolds(x) = 0
    BY <1>1, <2>4, <2>5 DEF LeaseInv, OneHolder, Busy
  <2>8. /\ streams[m.slide].front # m.buffer
        /\ \A j \in 1..Len(toMain) : ~ Delivers(toMain[j], <<m.slide, m.buffer>>)
    BY <2>5, <2>6, <2>7, NoneOnTheWay DEF x
  <2>9. NewOnes(Append(toMain, m), streams)
    BY <1>2, <2>8, NewAppend DEF DisplayInv
  <2>10. CASE toMain' = Append(toMain, m)
    BY <1>1, <2>9, <2>10 DEF DisplayInv, DisplayedLive
  <2>11. CASE toMain' = toMain
    BY <1>1, <2>11, DisplayStays
  <2> QED  BY <2>1, <2>10, <2>11
<1> QED  BY <1>4, <1>5, <1>6

LEMMA StepDisplay ==
  ASSUME LeaseInv, PictureInv, DisplayInv, [Next /\ UNCHANGED setting]_<<vars, setting>>
  PROVE  DisplayInv'
<1>1. CASE UNCHANGED <<vars, setting>>
  <2>1. UNCHANGED <<streams, toMain>>
    BY <1>1 DEF vars
  <2> QED  BY <2>1, DisplayStays
<1>2. CASE NothingToReap \/ Drained \/ NoSpawn \/ (\E V \in VisibleSets : EndFrame(V)) \/ PostSwap
  <2>1. UNCHANGED <<streams, toMain>>
    BY <1>2 DEF NothingToReap, Drained, NoSpawn, EndFrame, PostSwap
  <2> QED  BY <2>1, DisplayStays
<1>3. CASE \/ IORecv \/ HandleBufferRelease \/ HandleFrameBegin \/ SkipSlide \/ ShmFails
           \/ FinishSlide \/ Crash \/ \E s \in UNION VisibleSets : HandleSetSource(s)
  <2>1. UNCHANGED <<streams, toMain>>
    BY <1>3 DEF IORecv, HandleBufferRelease, HandleFrameBegin, SkipSlide, ShmFails, FinishSlide,
         Crash, HandleSetSource, WorkerStep
  <2> QED  BY <2>1, DisplayStays
<1> QED  BY <1>1, <1>2, <1>3, DeathDisplay, AnnounceDisplay, DoneDisplay, SendDisplay
         DEF Next, UIStep, WorkThread

(* Once this worker's first frame of a slide is promoted, what the slide   *)
(* shows is the texture of its front buffer, imported by this process: a   *)
(* later announce never replaces the texture on display, since a buffer is *)
(* announced only when the ring has it free and the socket keeps the order *)
(* (RemoteEngine.cpp:340-398, WorkerApp.cpp:238-305).                      *)
THEOREM DisplayIsLive == Spec => []DisplayedLive
<1>1. Init => LeaseInv /\ PictureInv /\ DisplayInv
  BY InitLease, InitPicture, InitDisplay
<1>2. LeaseInv /\ PictureInv /\ DisplayInv /\ [Next /\ UNCHANGED setting]_<<vars, setting>>
        => LeaseInv' /\ PictureInv' /\ DisplayInv'
  BY StepLease, StepPicture, StepDisplay
<1>3. DisplayInv => DisplayedLive
  BY DEF DisplayInv
<1> QED  BY <1>1, <1>2, <1>3, PTL DEF Spec

-----------------------------------------------------------------------------
(* Three buffers are enough. *)

NoFrame(q) == \A k \in 1..Len(q) : q[k].type # "FrameBegin"

(* A release of x with no FrameBegin behind it.                            *)
Trails(q, x) ==
  \E i \in 1..Len(q) :
    /\ q[i] = Release(x[1], x[2])
    /\ \A k \in (i + 1)..Len(q) : q[k].type # "FrameBegin"

(* Buffers of which the worker may not have heard, when it comes to the    *)
(* frame it was sent last, that they are free.                             *)
Late(x) ==
  \/ x \in ui.retiring \/ Trails(toWorker, x)
  \/ NoFrame(toWorker) /\ Trails(worker.queue, x)

(* What a frame displaced is released before the next frame is read, so of *)
(* every slide at most one buffer is late.                                 *)
LateInv ==
  /\ ui.phase = "reap" => ui.retiring = {}
  /\ ui.outstanding /\ ui.phase # "swap" => ui.retiring = {}
  /\ proc = "running" =>
       /\ \A x, y \in ui.retiring : x[1] = y[1] => x = y
       /\ ui.outstanding =>
            \A x, y \in Leases : Late(x) /\ Late(y) /\ x[1] = y[1] => x = y

LEMMA TrailsAppend ==
  ASSUME NEW M, NEW q \in Seq(M), NEW m, NEW x, Trails(Append(q, m), x)
  PROVE  m = Release(x[1], x[2]) \/ (m.type # "FrameBegin" /\ Trails(q, x))
<1> DEFINE n == Len(q)
           p == Append(q, m)
<1>1. n \in Nat /\ Len(p) = n + 1 /\ p[n + 1] = m /\ \A k \in 1..n : p[k] = q[k]
  OBVIOUS
<1> HIDE DEF n, p
<1>2. PICK i \in 1..(n + 1) : /\ p[i] = Release(x[1], x[2])
                              /\ \A k \in (i + 1)..(n + 1) : p[k].type # "FrameBegin"
  BY <1>1 DEF Trails, p
<1>3. CASE i = n + 1
  BY <1>1, <1>2, <1>3
<1>4. CASE i \in 1..n
  <2>1. n + 1 \in (i + 1)..(n + 1) /\ \A k \in (i + 1)..n : k \in (i + 1)..(n + 1) /\ k \in 1..n
    BY <1>1, <1>4
  <2>2. m.type # "FrameBegin" /\ q[i] = Release(x[1], x[2])
        /\ \A k \in (i + 1)..n : q[k].type # "FrameBegin"
    BY <1>1, <1>2, <1>4, <2>1
  <2> QED  BY <1>4, <2>2 DEF Trails, n
<1> QED  BY <1>1, <1>3, <1>4

LEMMA TrailsTail ==
  ASSUME NEW M, NEW q \in Seq(M), q # <<>>, NEW x
  PROVE  /\ Trails(Tail(q), x) => Trails(q, x)
         /\ NoFrame(Tail(q)) /\ Head(q) = Release(x[1], x[2]) => Trails(q, x)
         /\ NoFrame(Tail(q)) /\ Head(q).type # "FrameBegin" => NoFrame(q)
<1> DEFINE n == Len(q)
           p == Tail(q)
<1>1. n \in Nat /\ n >= 1 /\ Len(p) = n - 1 /\ Head(q) = q[1] /\ \A k \in 1..(n - 1) : p[k] = q[k + 1]
  BY SMT
<1> HIDE DEF n, p
<1>2. \A k \in 2..n : k - 1 \in 1..(n - 1) /\ q[k] = p[k - 1]
  BY <1>1
<1>3. ASSUME Trails(p, x)
      PROVE  Trails(q, x)
  <2>1. PICK i \in 1..(n - 1) : /\ p[i] = Release(x[1], x[2])
                                /\ \A k \in (i + 1)..(n - 1) : p[k].type # "FrameBegin"
    BY <1>1, <1>3 DEF Trails
  <2>2. i + 1 \in 1..n /\ q[i + 1] = Release(x[1], x[2])
    BY <1>1, <2>1
  <2>3. ASSUME NEW k \in ((i + 1) + 1)..n
        PROVE  q[k].type # "FrameBegin"
    <3>1. k - 1 \in (i + 1)..(n - 1) /\ k \in 2..n
      BY <1>1
    <3> QED  BY <1>2, <2>1, <3>1
  <2> QED  BY <2>2, <2>3 DEF Trails, n
<1>4. ASSUME NoFrame(p)
      PROVE  \A k \in 2..n : q[k].type # "FrameBegin"
  BY <1>1, <1>2, <1>4 DEF NoFrame
<1>5. ASSUME NoFrame(p), Head(q) = Release(x[1], x[2])
      PROVE  Trails(q, x)
  <2>1. 1 \in 1..n /\ q[1] = Release(x[1], x[2]) /\ \A k \in (1 + 1)..n : q[k].type # "FrameBegin"
    BY <1>1, <1>4, <1>5
  <2> QED  BY <2>1 DEF Trails, n
<1>6. ASSUME NoFrame(p), Head(q).type # "FrameBegin"
      PROVE  NoFrame(q)
  <2>1. \A k \in 1..n : k = 1 \/ k \in 2..n
    BY <1>1
  <2> QED  BY <1>1, <1>4, <1>6, <2>1 DEF NoFrame, n
<1> QED  BY <1>3, <1>5, <1>6 DEF p

(* Releases are sent: they trail, and what trailed trails on.              *)
LEMMA TrailsSent ==
  ASSUME NEW M, toWorker \in Seq(M), NEW S, IsFiniteSet(S), \A m \in S : m.type = "BufferRelease",
         NEW x
  PROVE  LET q == Sent(InSomeOrder(S))
         IN  /\ Trails(q, x) => Trails(toWorker, x) \/ Release(x[1], x[2]) \in S
             /\ NoFrame(q) => NoFrame(toWorker)
<1> DEFINE o == InSomeOrder(S)
           n == Len(toWorker)
           l == Cardinality(S)
           p == toWorker \o o
<1>1. o \in [1..l -> S] /\ l \in Nat
  BY OrderExists, FS_CardinalityType DEF InSomeOrder
<1> HIDE DEF o, l
<1>2. /\ o \in Seq(S) /\ Len(o) = l /\ n \in Nat
  BY <1>1
<1>3. /\ Len(p) = n + l /\ \A k \in 1..n : p[k] = toWorker[k]
      /\ \A k \in 1..l : p[n + k] = o[k] /\ o[k] \in S
  BY <1>1, <1>2
<1> HIDE DEF p, n
<1>4. ASSUME Trails(p, x)
      PROVE  Trails(toWorker, x) \/ Release(x[1], x[2]) \in S
  <2>1. PICK i \in 1..(n + l) : /\ p[i] = Release(x[1], x[2])
                                /\ \A k \in (i + 1)..(n + l) : p[k].type # "FrameBegin"
    BY <1>3, <1>4 DEF Trails
  <2>2. CASE i \in 1..n
    <3>1. \A k \in (i + 1)..n : k \in (i + 1)..(n + l) /\ k \in 1..n
      BY <1>1, <1>2, <2>2
    <3>2. toWorker[i] = Release(x[1], x[2]) /\ \A k \in (i + 1)..n : toWorker[k].type # "FrameBegin"
      BY <1>3, <2>1, <2>2, <3>1
    <3> QED  BY <2>2, <3>2 DEF Trails, n
  <2>3. CASE i \notin 1..n
    <3>1. PICK k \in Int : k = i - n
      BY <1>2
    <3>2. k \in 1..l /\ n + k = i
      BY <1>1, <1>2, <2>3, <3>1
    <3>3. p[n + k] \in S
      BY <1>3, <3>2
    <3> QED  BY <2>1, <3>2, <3>3
  <2> QED  BY <2>2, <2>3
<1>5. ASSUME NoFrame(p)
      PROVE  NoFrame(toWorker)
  <2>1. \A k \in 1..n : k \in 1..(n + l)
    BY <1>1, <1>2
  <2> QED  BY <1>3, <1>5, <2>1 DEF NoFrame, n
<1> QED  BY <1>4, <1>5 DEF Sent, p, o

LEMMA InitLate == Init => LateInv
BY DEF Init, LateInv

(* What leaves alone what main and the worker have to tell each other.     *)
LEMMA LateStays ==
  ASSUME LateInv, UNCHANGED <<ui, toWorker>>, proc' = "running" => proc = "running",
         \A x \in Leases : NoFrame(toWorker) /\ Trails(worker'.queue, x) => Late(x)
  PROVE  LateInv'
<1>1. \A x \in Leases : Late(x)' => Late(x)
  BY DEF Late
<1>2. ui' = ui
  OBVIOUS
<1> QED  BY <1>1, <1>2 DEF LateInv

LEMMA UILate ==
  ASSUME LeaseInv, FrameInv, LateInv, NothingToReap \/ Drained \/ NoSpawn
  PROVE  LateInv'
<1>1. /\ UNCHANGED <<proc, worker, toWorker>> /\ ui.phase # "swap" /\ ui'.phase \notin {"swap", "reap"}
      /\ ui'.retiring = ui.retiring /\ ui'.outstanding = ui.outstanding
  BY DEF NothingToReap, Drained, NoSpawn, LeaseInv, StateOwn, UIOwn
<1>2. \A x : Late(x)' <=> Late(x)
  BY <1>1 DEF Late
<1> QED  BY <1>1, <1>2 DEF LateInv

LEMMA DeathLate ==
  ASSUME LeaseInv, FrameInv, LateInv, Reap \/ Spawn \/ Crash
  PROVE  LateInv'
<1>1. CASE Reap
  BY <1>1 DEF Reap, AfterDeath, LateInv
<1>2. CASE Spawn
  <2>1. /\ proc = "none" /\ ui' = [ui EXCEPT !.phase = "frame"]
        /\ ui.retiring = {} /\ ~ ui.outstanding
    BY <1>2 DEF Spawn, LeaseInv, StateOwn, FrameInv
  <2>2. ui'.phase = "frame" /\ ui'.retiring = {} /\ ui'.outstanding = ui.outstanding
    BY <2>1 DEF LeaseInv, StateOwn, UIOwn
  <2> QED  BY <2>1, <2>2 DEF LateInv
<1>3. CASE Crash
  <2>1. proc' = "dead" /\ ui' = ui
    BY <1>3 DEF Crash
  <2> QED  BY <2>1 DEF LateInv
<1> QED  BY <1>1, <1>2, <1>3

LEMMA AnnounceLate ==
  ASSUME LateInv, RecvTextureAnnounce
  PROVE  LateInv'
<1>1. UNCHANGED <<proc, ui, worker, toWorker>>
  BY DEF RecvTextureAnnounce
<1> QED  BY <1>1, LateStays DEF Late

(* A frame is read only when one was owed, so nothing was displaced since  *)
(* the last swap; it displaces one buffer of a slide.                      *)
LEMMA DoneLate ==
  ASSUME LeaseInv, FrameInv, LateInv, RecvFrameDone
  PROVE  LateInv'
<1> DEFINE R == Head(toMain).results
<1>1. /\ ui.phase = "drain" /\ toMain # <<>> /\ Head(toMain).type = "FrameDone"
      /\ ui' = [ui EXCEPT !.outstanding = FALSE, !.retiring = @ \cup Displaced(R)]
      /\ proc' = proc
  BY DEF RecvFrameDone, Receiving
<1> HIDE DEF R
<1>2. /\ ui'.phase = "drain" /\ ui'.outstanding = FALSE
      /\ ui'.retiring = ui.retiring \cup Displaced(R)
  BY <1>1 DEF LeaseInv, StateOwn, UIOwn
<1>3. proc = "running" => ui.outstanding
  <2>1. IsQueue(toMain) /\ CountOf(toMain, "FrameDone") > 0 /\ CountOf(toMain, "FrameDone") \in Nat
    <3>1. /\ CountOf(toMain, "FrameDone") = CountOf(Tail(toMain), "FrameDone") + 1
          /\ CountOf(Tail(toMain), "FrameDone") \in Nat /\ IsQueue(toMain)
      BY <1>1, QueueFacts, CarriesIsQueue DEF FrameInv
    <3> QED  BY <3>1
  <2>2. CountOf(toWorker, "FrameBegin") \in Nat /\ CountOf(worker.queue, "FrameBegin") \in Nat
    BY QueueFacts DEF FrameInv, WorkerShape
  <2>3. proc = "running" => InFlight = IF ui.outstanding THEN 1 ELSE 0
    BY DEF FrameInv
  <2> QED  BY <2>1, <2>2, <2>3 DEF InFlight
<1>4. proc = "running" => ui.retiring = {}
  BY <1>1, <1>3 DEF LateInv
<1>5. \A x, y \in Displaced(R) : x[1] = y[1] => x = y
  BY DEF Displaced
<1> QED  BY <1>1, <1>2, <1>4, <1>5 DEF LateInv

(* Behind a FrameBegin nothing trails.                                     *)
LEMMA EndFrameLate ==
  ASSUME LeaseInv, FrameInv, LateInv, NEW V, EndFrame(V)
  PROVE  LateInv'
<1>1. /\ ui.phase = "frame" /\ UNCHANGED <<proc, worker>>
      /\ ui' = [ui EXCEPT !.phase = "swap", !.outstanding = @ \/ Begins(V)]
      /\ toWorker' = IF Begins(V) THEN Append(toWorker, FrameBegin(V)) ELSE toWorker
  BY DEF EndFrame
<1>2. /\ ui'.phase = "swap" /\ ui'.outstanding = (ui.outstanding \/ Begins(V))
      /\ ui'.retiring = ui.retiring /\ ui.outstanding \in BOOLEAN
      /\ ui.retiring \subseteq Leases
  BY <1>1 DEF FrameInv, UIShape, LeaseInv, StateOwn, UIOwn
<1>3. CASE ~ Begins(V)
  <2>1. toWorker' = toWorker /\ ui'.outstanding = ui.outstanding
    BY <1>1, <1>2, <1>3
  <2>2. \A x : Late(x)' <=> Late(x)
    BY <1>1, <1>2, <2>1 DEF Late
  <2> QED  BY <1>1, <1>2, <2>1, <2>2 DEF LateInv
<1>4. CASE Begins(V)
  <2> DEFINE m == FrameBegin(V)
             n == Len(toWorker)
  <2>1. toWorker' = Append(toWorker, m) /\ m.type = "FrameBegin" /\ proc = "running"
    BY <1>1, <1>4 DEF FrameBegin, Begins
  <2>2. toWorker \in Seq(InputMessages)
    BY DEF LeaseInv, StateOwn
  <2>3. \A x : ~ Trails(toWorker', x)
    <3>1. \A x : m # Release(x[1], x[2])
      BY <2>1 DEF Release
    <3> QED  BY <2>1, <2>2, <3>1, TrailsAppend
  <2>4. ~ NoFrame(toWorker')
    <3>1. n + 1 \in 1..Len(toWorker') /\ toWorker'[n + 1] = m
      BY <2>1, <2>2
    <3> QED  BY <2>1, <3>1 DEF NoFrame
  <2>5. \A x : Late(x)' <=> x \in ui.retiring
    BY <1>2, <2>3, <2>4 DEF Late
  <2> QED  BY <1>1, <1>2, <2>1, <2>5 DEF LateInv
<1> QED  BY <1>3, <1>4

(* What was retiring trails from now on.                                   *)
LEMMA PostSwapLate ==
  ASSUME LeaseInv, FrameInv, LateInv, PostSwap
  PROVE  LateInv'
<1> DEFINE S == {Release(x[1], x[2]) : x \in ui.retiring}
<1>1. /\ toWorker' = Sent(InSomeOrder(S)) /\ UNCHANGED <<proc, worker>>
      /\ ui' = [ui EXCEPT !.phase = "reap", !.retiring = {}]
  BY DEF PostSwap
<1>2. /\ ui'.phase = "reap" /\ ui'.retiring = {} /\ ui'.outstanding = ui.outstanding
      /\ ui.retiring \subseteq Leases /\ IsFiniteSet(ui.retiring)
      /\ toWorker \in Seq(InputMessages)
  BY <1>1 DEF LeaseInv, StateOwn, UIOwn
<1>3. IsFiniteSet(S)
  BY <1>2, RetiringFinite
<1>4. \A x \in Leases : Release(x[1], x[2]) \in S <=> x \in ui.retiring
  <2>1. ASSUME NEW x \in Leases, NEW y \in Leases, Release(x[1], x[2]) = Release(y[1], y[2])
        PROVE  x = y
    <3>1. Release(x[1], x[2]).slide = Release(y[1], y[2]).slide
          /\ Release(x[1], x[2]).buffer = Release(y[1], y[2]).buffer
      BY <2>1
    <3>2. x[1] = y[1] /\ x[2] = y[2]
      BY <3>1 DEF Release
    <3> QED  BY <3>2 DEF Leases
  <2> QED  BY <1>2, <2>1
<1>5. \A m \in S : m.type = "BufferRelease"
  BY DEF Release
<1> HIDE DEF S
<1>6. ASSUME NEW x \in Leases
      PROVE  /\ Trails(toWorker', x) => Trails(toWorker, x) \/ Release(x[1], x[2]) \in S
             /\ NoFrame(toWorker') => NoFrame(toWorker)
  BY <1>1, <1>2, <1>3, <1>5, TrailsSent
<1>7. \A x \in Leases : Late(x)' => Late(x)
  BY <1>1, <1>2, <1>4, <1>6 DEF Late
<1> QED  BY <1>1, <1>2, <1>7 DEF LateInv

-----------------------------------------------------------------------------
LEMMA InputLate ==
  ASSUME LeaseInv, FrameInv, LateInv, IORecv
  PROVE  LateInv'
<1> DEFINE m == Head(toWorker)
<1>1. /\ proc = "running" /\ proc' = proc /\ ui' = ui /\ toWorker # <<>> /\ toWorker' = Tail(toWorker)
      /\ worker'.queue = Append(worker.queue, m)
  BY QueuedInOrder DEF IORecv, WorkerStep
<1>2. toWorker \in Seq(InputMessages) /\ worker.queue \in Seq(InputMessages)
  BY DEF LeaseInv, StateOwn, WorkerOwn
<1> HIDE DEF m
<1>3. ASSUME NEW x \in Leases, Late(x)'
      PROVE  Late(x)
  <2>1. CASE x \in ui.retiring
    BY <2>1 DEF Late
  <2>2. CASE Trails(Tail(toWorker), x)
    BY <1>1, <1>2, <2>2, TrailsTail DEF Late
  <2>3. CASE NoFrame(Tail(toWorker)) /\ Trails(Append(worker.queue, m), x)
    <3>1. m = Release(x[1], x[2]) \/ (m.type # "FrameBegin" /\ Trails(worker.queue, x))
      BY <1>2, <2>3, TrailsAppend
    <3> QED  BY <1>1, <1>2, <2>3, <3>1, TrailsTail DEF Late, m
  <2> QED  BY <1>1, <1>3, <2>1, <2>2, <2>3 DEF Late
<1> QED  BY <1>1, <1>3 DEF LateInv

LEMMA WorkLate ==
  ASSUME LeaseInv, LateInv,
         WorkThread \/ \E s \in Slides : HandleSetSource(s)
  PROVE  LateInv'
<1>1. proc' = proc /\ UNCHANGED <<ui, toWorker>>
  BY DEF WorkThread, HandleBufferRelease, HandleFrameBegin, SkipSlide, BeginDmabuf, BeginShm,
         ShmFails, FinishSlide, SendFrameDone, HandleSetSource, WorkerStep
<1>2. WorkerFields \subseteq DOMAIN worker /\ worker.queue \in Seq(InputMessages)
  BY DEF LeaseInv, StateOwn, WorkerOwn
<1>3. \/ worker'.queue = worker.queue
      \/ worker.queue # <<>> /\ worker'.queue = Tail(worker.queue)
  <2>1. CASE HandleBufferRelease \/ HandleFrameBegin
    BY <1>2, <2>1 DEF HandleBufferRelease, HandleFrameBegin, WorkerStep, WorkerFields
  <2>2. CASE SkipSlide \/ FinishSlide \/ SendFrameDone \/ \E s \in Slides : HandleSetSource(s)
    BY <1>2, <2>2 DEF SkipSlide, Skipped, FinishSlide, SendFrameDone, HandleSetSource, WorkerStep, WorkerFields
  <2>3. CASE ShmFails
    BY <1>2, <2>3 DEF ShmFails, Skipped, WorkerStep, WorkerFields
  <2>4. CASE BeginDmabuf \/ BeginShm
    BY <1>2, <2>4 DEF BeginDmabuf, BeginShm, Begun, WorkerStep, WorkerFields
  <2> QED  BY <2>1, <2>2, <2>3, <2>4 DEF WorkThread
<1>4. \A x \in Leases : NoFrame(toWorker) /\ Trails(worker'.queue, x) => Late(x)
  BY <1>2, <1>3, TrailsTail DEF Late
<1> QED  BY <1>1, <1>4, LateStays

LEMMA StepLate ==
  ASSUME LeaseInv, FrameInv, LateInv, [Next /\ UNCHANGED setting]_<<vars, setting>>
  PROVE  LateInv'
<1>1. CASE UNCHANGED <<vars, setting>>
  <2>1. UNCHANGED <<proc, ui, worker, toWorker>>
    BY <1>1 DEF vars
  <2> QED  BY <2>1, LateStays DEF Late
<1>2. CASE UIStep
  BY <1>2, UILate, DeathLate, AnnounceLate, DoneLate, EndFrameLate, PostSwapLate DEF UIStep
<1>3. CASE IORecv \/ WorkThread \/ Crash
  BY <1>3, InputLate, WorkLate, DeathLate
<1>4. ASSUME NEW s \in UNION VisibleSets, HandleSetSource(s)
      PROVE  LateInv'
  <2>1. UNION VisibleSets \subseteq Slides
    BY StreamAssumption DEF LeaseInv, StateOwn, VisibleSets
  <2> QED  BY <1>4, <2>1, WorkLate
<1> QED  BY <1>1, <1>2, <1>3, <1>4 DEF Next

(* Whatever main holds is somewhere.                                       *)
LEMMA HeldSomewhere ==
  ASSUME LeaseInv, NEW x \in Leases, MainHolds(x) # 0
  PROVE  \/ streams[x[1]].front = x[2] \/ x \in ui.retiring
         \/ \E j \in 1..Len(toMain) : Delivers(toMain[j], x)
         \/ \E i \in 1..Len(toWorker) : toWorker[i] = Release(x[1], x[2])
         \/ \E i \in 1..Len(worker.queue) : worker.queue[i] = Release(x[1], x[2])
<1> SUFFICES ASSUME streams[x[1]].front # x[2], x \notin ui.retiring,
                    \A j \in 1..Len(toMain) : ~ Delivers(toMain[j], x),
                    \A i \in 1..Len(toWorker) : toWorker[i] # Release(x[1], x[2]),
                    \A i \in 1..Len(worker.queue) : worker.queue[i] # Release(x[1], x[2])
             PROVE  MainHolds(x) = 0
  OBVIOUS
<1>1. toWorker \in Seq(InputMessages) /\ worker.queue \in Seq(InputMessages)
  BY DEF LeaseInv, StateOwn, WorkerOwn
<1>2. PICK M : toMain \in Seq(M)
  BY DEF LeaseInv, StateOwn, AnswersOwn
<1>3. InFront(x) = 0 /\ Retiring(x) = 0
  BY DEF InFront, Retiring
<1>4. DoneCount(toMain, x) = 0
  <2>1. Done(toMain, x) = {}
    BY <1>2 DEF Done
  <2> QED  BY <2>1, FS_EmptySet DEF DoneCount
<1>5. ReturnCount(toWorker, x) = 0 /\ ReturnCount(worker.queue, x) = 0
  <2> DEFINE T == {Release(x[1], x[2])}
  <2>1. Hits(toWorker, T) = {} /\ Hits(worker.queue, T) = {}
    BY <1>1 DEF Hits
  <2>2. HitCount(toWorker, T) = 0 /\ HitCount(worker.queue, T) = 0
    BY <2>1, FS_EmptySet DEF HitCount
  <2> QED  BY <1>1, <2>2, ReturnHits
<1> QED  BY <1>3, <1>4, <1>5 DEF MainHolds

(* While the worker is at a frame, no other is on the way.                 *)
LEMMA NoOtherFrame ==
  ASSUME FrameInv, proc = "running", worker.job.frame
  PROVE  /\ ui.outstanding /\ NoFrame(toWorker) /\ NoFrame(worker.queue)
         /\ \A j \in 1..Len(toMain) : toMain[j].type # "FrameDone"
<1>1. /\ IsQueue(toWorker) /\ IsQueue(worker.queue) /\ IsQueue(toMain)
  BY CarriesIsQueue DEF FrameInv, WorkerShape
<1>2. /\ CountOf(toWorker, "FrameBegin") \in Nat /\ CountOf(worker.queue, "FrameBegin") \in Nat
      /\ CountOf(toMain, "FrameDone") \in Nat
  BY <1>1, QueueFacts
<1>3. InFlight = IF ui.outstanding THEN 1 ELSE 0
  BY DEF FrameInv
<1>4. /\ ui.outstanding /\ CountOf(toWorker, "FrameBegin") = 0
      /\ CountOf(worker.queue, "FrameBegin") = 0 /\ CountOf(toMain, "FrameDone") = 0
  BY <1>2, <1>3 DEF InFlight
<1>5. ASSUME NEW q, IsQueue(q), NEW t, CountOf(q, t) = 0
      PROVE  \A k \in 1..Len(q) : q[k].type # t
  <2>1. \A k \in 1..Len(q) : k \in DOMAIN q
    BY <1>5 DEF IsQueue
  <2>2. \A k \in DOMAIN q : CountOf(q, q[k].type) > 0
    BY <1>5, CountMember
  <2> QED  BY <1>5, <2>1, <2>2
<1> QED  BY <1>1, <1>4, <1>5 DEF NoFrame

(* At a slide whose buffers are all handed out and none of them lost, each *)
(* is the front or late.                                                   *)
LEMMA FrontOrLate ==
  ASSUME LeaseInv, FrameInv, proc = "running", AtSlide, NEW b \in Buffers,
         owner[<<Current, b>>] # "lost", b \in worker.ring[Current].busy
  PROVE  /\ <<Current, b>> \in Leases
         /\ streams[Current].front = b \/ Late(<<Current, b>>)
<1> DEFINE x == <<Current, b>>
           j == worker.job
<1>1. JobOwn(j) /\ j.frame /\ j.target = <<>> /\ j.todo # {}
  BY DEF AtSlide, Idle, Job, LeaseInv, StateOwn, WorkerOwn, JobOwn
<1>2. Current \in j.todo /\ Current \in Slides
  BY <1>1, CurrentOwn
<1>3. x \in Leases /\ x[1] = Current /\ x[2] = b
  BY <1>2 DEF Leases
<1>4. owner[x] # "lost"
  OBVIOUS
<1> HIDE DEF x
<1>5. ~ WorkerHolds(x) /\ Busy(x)
  BY <1>1, <1>2, <1>3 DEF WorkerHolds, HeldBy, JobOwn, Busy, x
<1>6. MainHolds(x) # 0
  BY <1>3, <1>4, <1>5, OwnerIs DEF OwnerOf
<1>7. /\ NoFrame(toWorker) /\ NoFrame(worker.queue)
      /\ \A k \in 1..Len(toMain) : toMain[k].type # "FrameDone"
  BY <1>1, NoOtherFrame
<1>8. \A k \in 1..Len(toMain) : ~ Delivers(toMain[k], x)
  BY <1>7 DEF Delivers
<1>9. ASSUME NEW q \in Seq(InputMessages), NoFrame(q), NEW i \in 1..Len(q), q[i] = Release(x[1], x[2])
      PROVE  Trails(q, x)
  <2>1. \A k \in (i + 1)..Len(q) : k \in 1..Len(q)
    OBVIOUS
  <2> QED  BY <1>9, <2>1 DEF NoFrame, Trails
<1>10. toWorker \in Seq(InputMessages) /\ worker.queue \in Seq(InputMessages)
  BY DEF LeaseInv, StateOwn, WorkerOwn
<1>11. streams[x[1]].front = x[2] \/ Late(x)
  BY <1>3, <1>6, <1>7, <1>8, <1>9, <1>10, HeldSomewhere DEF Late
<1> QED  BY <1>3, <1>11 DEF x

LEMMA NeverStarves ==
  ASSUME KBuffers >= 3, LeaseInv, FrameInv, LateInv
  PROVE  EnoughBuffers
<1> SUFFICES ASSUME proc = "running", AtSlide, \A b \in Buffers : owner[<<Current, b>>] # "lost",
                    Buffer = kInvalid
             PROVE  FALSE
  BY DEF EnoughBuffers
<1>1. worker.job.frame /\ worker.job.todo # {} /\ worker.ring \in [Slides -> Rings]
  BY DEF AtSlide, Idle, Job, LeaseInv, StateOwn, WorkerOwn, JobOwn
<1>2. worker.ring[Current] \in Rings
  BY <1>1, CurrentOwn
<1>3. Buffers \subseteq worker.ring[Current].busy
  <2>1. Free(worker.ring[Current]) = {}
    <3> SUFFICES ASSUME Free(worker.ring[Current]) # {} PROVE FALSE
      OBVIOUS
    <3>1. Buffer \in Buffers
      BY <1>2, CandidateIn DEF Buffer, Free
    <3> QED  BY <3>1, FrontBuffers
  <2> QED  BY <2>1 DEF Free
<1>4. \A b \in Buffers : /\ <<Current, b>> \in Leases
                         /\ streams[Current].front = b \/ Late(<<Current, b>>)
  BY <1>3, FrontOrLate
<1>5. 0 \in Buffers /\ 1 \in Buffers /\ 2 \in Buffers
  BY KBuffersAssumption DEF Buffers
<1>6. \A b, c \in Buffers : Late(<<Current, b>>) /\ Late(<<Current, c>>) => b = c
  <2>1. ui.outstanding
    BY <1>1, NoOtherFrame
  <2>2. \A b, c \in Buffers : Late(<<Current, b>>) /\ Late(<<Current, c>>)
                                => <<Current, b>> = <<Current, c>>
    BY <1>4, <2>1 DEF LateInv
  <2> QED  BY <2>2
<1> DEFINE f == streams[Current].front
           L(b) == Late(<<Current, b>>)
<1>7. \A b \in Buffers : f = b \/ L(b)
  BY <1>4
<1>8. \A b, c \in Buffers : L(b) /\ L(c) => b = c
  BY <1>6
<1> HIDE DEF f, L
<1> QED  BY <1>5, <1>7, <1>8

(* Three buffers per slide are enough (kBuffersPerSlide, Protocol.h:23):   *)
(* as long as none is lost, the worker never skips a visible slide for     *)
(* want of a free buffer.  One is on display; one may have been displaced  *)
(* by the frame before, its release being sent only after the swap, behind *)
(* the next FrameBegin; the third is free.                                 *)
THEOREM ThreeBuffersAreEnough ==
  ASSUME KBuffers >= 3
  PROVE  Spec => []EnoughBuffers
<1>1. Init => LeaseInv /\ FrameInv /\ LateInv
  BY InitLease, InitFrame, InitLate
<1>2. LeaseInv /\ FrameInv /\ LateInv /\ [Next /\ UNCHANGED setting]_<<vars, setting>>
        => LeaseInv' /\ FrameInv' /\ LateInv'
  BY StepLease, StepFrame, StepLate
<1>3. LeaseInv /\ FrameInv /\ LateInv => EnoughBuffers
  BY NeverStarves
<1> QED  BY <1>1, <1>2, <1>3, PTL DEF Spec
=============================================================================
