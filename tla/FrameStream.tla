---------------------------- MODULE FrameStream -----------------------------
(***************************************************************************)
(* The frame path between the UI process (RemoteEngine: pump, endFrame,    *)
(* postSwap) and marcel_worker (WorkerApp: IO thread and work thread), for *)
(* all slides, over the ordered socket, with worker crashes and restarts.  *)
(*                                                                         *)
(* A UI frame goes through the phases reap, drain, update, frame, swap.    *)
(* A texture is named by the memory it samples: <<generation, buffer>> of  *)
(* its slide for an imported dma-buf, OwnTexture for the one main uploads  *)
(* shm pixels to.                                                          *)
(***************************************************************************)
EXTENDS BufferRing, Sequences

CONSTANTS
  Slides,        \* slide indices
  Settings       \* what the program may find itself in, see `setting`

ASSUME StreamAssumption ==
  /\ Slides \subseteq Nat
  /\ Settings \subseteq
       [visible : SUBSET SUBSET Slides, transport : {"dmabuf", "shm"},
        faults : SUBSET {"export", "import", "shm", "silent", "blank"}, gens : Nat]

VARIABLES
  setting,   \* never changes: the sets of slides a UI frame may show, what a
             \* new worker starts with, what may go wrong (the export, the
             \* import, the creation of an shm buffer, an exception without
             \* a message, a slide left with nothing to show), and a bound
             \* on the worker processes started
  proc,      \* the worker process: "none", "running", "dead" (not yet reaped)
  gen,       \* worker processes started so far
  ui,        \* [phase, outstanding, retiring]: where the UI loop is,
             \* frame_outstanding_, release_after_swap_
  streams,   \* streams_: per slide its transport, displayed texture, the
             \* generation each imported texture belongs to (0: none), front
  worker,    \* the worker's memory
  toMain, toWorker    \* the two directions of the socket

vars == <<proc, gen, ui, streams, worker, toMain, toWorker>>

VisibleSets == setting.visible
Transport == setting.transport
Faults == setting.faults
MaxGen == setting.gens

Leases == Slides \X Buffers
NoTexture == <<>>
OwnTexture == <<0>>
NoJob == [frame |-> FALSE, todo |-> {}, results |-> {}, target |-> <<>>, buffer |-> 0]

FreshStream ==
  [transport |-> "none", tex |-> NoTexture,
   buffer_tex |-> [b \in Buffers |-> 0], front |-> -1]
FreshWorker ==
  [transport |-> Transport, content |-> {},
   ring |-> [s \in Slides |-> FreshRing],
   announced |-> {}, shm |-> {}, queue |-> <<>>, job |-> NoJob]

Release(s, b) == [type |-> "BufferRelease", slide |-> s, buffer |-> b]
FrameBegin(V) == [type |-> "FrameBegin", slides |-> V]
Announce(s, b, tr) == [type |-> "TextureAnnounce", slide |-> s, buffer |-> b, transport |-> tr]
FrameDone(R) == [type |-> "FrameDone", results |-> R]
Result(s, b, tr, ok) == [slide |-> s, buffer |-> b, transport |-> tr, rendered |-> ok]

(* Some order of a set of messages: the code walks a map or a vector.      *)
InSomeOrder(M) ==
  CHOOSE q \in [1..Cardinality(M) -> M] : \A i, j \in DOMAIN q : i # j => q[i] # q[j]

(* A send to a worker that is gone fails; what it carried is lost.         *)
Sent(msgs) == IF proc = "running" THEN toWorker \o msgs ELSE toWorker

Init ==
  /\ setting \in Settings
  /\ proc = "none" /\ gen = 0
  /\ ui = [phase |-> "reap", outstanding |-> FALSE, retiring |-> {}]
  /\ streams = [s \in Slides |-> FreshStream]
  /\ worker = FreshWorker
  /\ toMain = <<>> /\ toWorker = <<>>

-----------------------------------------------------------------------------
(* The UI frame. *)

(* What a death makes of a stream: the picture stays, but nothing of the   *)
(* next worker's ring is on display.  (Mutant: the front survives.)        *)
KeepsFront(st) == st
ForgetsFront(st) == [st EXCEPT !.front = -1]

(* What it makes of the UI's frame state; releases aimed at the dead       *)
(* worker are meaningless.  (Mutant: the frame it owed is still waited     *)
(* for.)                                                                   *)
KeepsWaiting(u) == [u EXCEPT !.phase = "drain", !.retiring = {}]
AfterDeath(u) == [phase |-> "drain", outstanding |-> FALSE, retiring |-> {}]

(* The dead worker is noticed before the socket is read: what it had still *)
(* sent is closed away unread.                                             *)
Reap ==
  /\ ui.phase = "reap" /\ proc = "dead"
  /\ proc' = "none" /\ toMain' = <<>>
  /\ ui' = AfterDeath(ui)
  /\ streams' = [s \in Slides |-> ForgetsFront(streams[s])]
  /\ UNCHANGED <<gen, worker, toWorker>>

NothingToReap ==
  /\ ui.phase = "reap" /\ proc # "dead"
  /\ ui' = [ui EXCEPT !.phase = "drain"]
  /\ UNCHANGED <<proc, gen, streams, worker, toMain, toWorker>>

Receiving(type) ==
  /\ ui.phase = "drain" /\ proc # "none"
  /\ toMain # <<>> /\ Head(toMain).type = type
  /\ toMain' = Tail(toMain)

(* An import that fails leaves the slot as it was, also when it holds a    *)
(* texture of the generation before.  (Mutant: the transport of the first  *)
(* announce is final.)                                                     *)
AnnouncedOnce(st, m, imported) ==
  [st EXCEPT !.transport = IF @ = "none" THEN m.transport ELSE @,
             !.buffer_tex[m.buffer] = IF imported THEN gen ELSE @]
Announced(st, m, imported) ==
  [st EXCEPT !.transport = m.transport,
             !.buffer_tex[m.buffer] = IF imported THEN gen ELSE @]

RecvTextureAnnounce ==
  /\ Receiving("TextureAnnounce")
  /\ \E imported \in BOOLEAN :
       LET m == Head(toMain)
       IN  /\ IF m.transport = "shm" THEN ~ imported
              ELSE imported \/ "import" \in Faults
           /\ streams' = [streams EXCEPT ![m.slide] = Announced(@, m, imported)]
  /\ UNCHANGED <<proc, gen, ui, worker, toWorker>>

(* What a FrameDone does to the stream of a rendered slide: a dma-buf is   *)
(* promoted if its import succeeded, shm pixels are uploaded.              *)
Promotes(r) ==
  /\ r.rendered /\ streams[r.slide].transport = "dmabuf"
  /\ streams[r.slide].buffer_tex[r.buffer] # 0
Uploads(r) == r.rendered /\ streams[r.slide].transport # "dmabuf"

Shown(st, r) ==
  IF Promotes(r)
  THEN [st EXCEPT !.tex = <<st.buffer_tex[r.buffer], r.buffer>>, !.front = r.buffer]
  ELSE IF Uploads(r) /\ st.tex = NoTexture THEN [st EXCEPT !.tex = OwnTexture] ELSE st

(* The fronts a FrameDone displaces.  (Mutant: none is remembered.)        *)
NoneDisplaced(R) == {}
Displaced(R) ==
  {<<r.slide, streams[r.slide].front>> :
     r \in {q \in R : Promotes(q) /\ streams[q.slide].front \notin {-1, q.buffer}}}

RecvFrameDone ==
  /\ Receiving("FrameDone")
  /\ LET R == Head(toMain).results
     IN  /\ streams' = [s \in Slides |->
               IF \E r \in R : r.slide = s
               THEN Shown(streams[s], CHOOSE r \in R : r.slide = s) ELSE streams[s]]
         /\ ui' = [ui EXCEPT !.outstanding = FALSE, !.retiring = @ \cup Displaced(R)]
         /\ toWorker' = Sent(InSomeOrder({Release(r.slide, r.buffer) :
                                          r \in {q \in R : Uploads(q)}}))
  /\ UNCHANGED <<proc, gen, worker>>

Drained ==
  /\ ui.phase = "drain" /\ (proc = "none" \/ toMain = <<>>)
  /\ ui' = [ui EXCEPT !.phase = "update"]
  /\ UNCHANGED <<proc, gen, streams, worker, toMain, toWorker>>

(* update() returned Spawn, or not: see SupervisorLogic for when.          *)
Spawn ==
  /\ ui.phase = "update" /\ proc = "none" /\ gen < MaxGen
  /\ proc' = "running" /\ gen' = gen + 1
  /\ worker' = FreshWorker /\ toMain' = <<>> /\ toWorker' = <<>>
  /\ ui' = [ui EXCEPT !.phase = "frame"]
  /\ UNCHANGED streams

NoSpawn ==
  /\ ui.phase = "update"
  /\ ui' = [ui EXCEPT !.phase = "frame"]
  /\ UNCHANGED <<proc, gen, streams, worker, toMain, toWorker>>

(* One FrameBegin at a time, and only if something is visible.  (Mutant:   *)
(* the outstanding frame is not waited for.)                               *)
BeginsAnyway(V) == proc = "running" /\ V # {} /\ Len(toWorker) < 2
Begins(V) == proc = "running" /\ V # {} /\ ~ ui.outstanding

EndFrame(V) ==
  /\ ui.phase = "frame"
  /\ toWorker' = IF Begins(V) THEN Append(toWorker, FrameBegin(V)) ELSE toWorker
  /\ ui' = [ui EXCEPT !.phase = "swap", !.outstanding = @ \/ Begins(V)]
  /\ UNCHANGED <<proc, gen, streams, worker, toMain>>

PostSwap ==
  /\ ui.phase = "swap"
  /\ toWorker' = Sent(InSomeOrder({Release(x[1], x[2]) : x \in ui.retiring}))
  /\ ui' = [ui EXCEPT !.phase = "reap", !.retiring = {}]
  /\ UNCHANGED <<proc, gen, streams, worker, toMain>>

UIStep ==
  \/ Reap \/ NothingToReap \/ RecvTextureAnnounce \/ RecvFrameDone \/ Drained
  \/ Spawn \/ NoSpawn \/ (\E V \in VisibleSets : EndFrame(V)) \/ PostSwap

-----------------------------------------------------------------------------
(* The worker: its IO thread queues what it reads, its work thread handles *)
(* one event at a time, a FrameBegin slide by slide.                       *)

WorkerStep(w) == proc = "running" /\ worker' = w /\ UNCHANGED <<proc, gen, ui, streams>>
Job == worker.job
Idle == ~ Job.frame

(* The newest frame input wins.                                            *)
Posted(q, m) ==
  IF /\ m.type = "FrameBegin" /\ q # <<>> /\ q[Len(q)].type = "FrameBegin"
  THEN [q EXCEPT ![Len(q)] = m] ELSE Append(q, m)

IORecv ==
  /\ toWorker # <<>> /\ toWorker' = Tail(toWorker)
  /\ WorkerStep([worker EXCEPT !.queue = Posted(@, Head(toWorker))])
  /\ UNCHANGED toMain

HandleBufferRelease ==
  /\ Idle /\ worker.queue # <<>> /\ Head(worker.queue).type = "BufferRelease"
  /\ LET m == Head(worker.queue)
     IN  WorkerStep([worker EXCEPT !.queue = Tail(@),
                                   !.ring[m.slide] = Released(@, m.buffer)])
  /\ UNCHANGED <<toMain, toWorker>>

HandleFrameBegin ==
  /\ Idle /\ worker.queue # <<>> /\ Head(worker.queue).type = "FrameBegin"
  /\ WorkerStep([worker EXCEPT
       !.queue = Tail(@),
       !.job = [NoJob EXCEPT !.frame = TRUE, !.todo = Head(worker.queue).slides]])
  /\ UNCHANGED <<toMain, toWorker>>

(* A compile leaves a slide with something to show, or with nothing: see   *)
(* Interpreter for when.                                                   *)
HandleSetSource(s) ==
  /\ Idle
  /\ \/ WorkerStep([worker EXCEPT !.content = @ \cup {s}])
     \/ "blank" \in Faults /\ WorkerStep([worker EXCEPT !.content = @ \ {s}])
  /\ UNCHANGED <<toMain, toWorker>>

(* The next slide of the frame, in index order.                            *)
Current == CHOOSE s \in Job.todo : \A u \in Job.todo : s <= u
AtSlide == ~ Idle /\ Job.target = <<>> /\ Job.todo # {}
Buffer == Candidate(worker.ring[Current])

Skipped(w) ==
  [w EXCEPT !.job.todo = @ \ {Current},
            !.job.results = @ \cup {Result(Current, kInvalid, w.transport, FALSE)}]

(* No content, or every buffer handed out.                                 *)
SkipSlide ==
  /\ AtSlide /\ (Current \notin worker.content \/ Buffer = kInvalid)
  /\ WorkerStep(Skipped(worker))
  /\ UNCHANGED <<toMain, toWorker>>

(* The buffer is acquired and the slide rendered into target t of its      *)
(* renderer; w is the worker after the announce.                           *)
Begun(w, t) ==
  [w EXCEPT !.ring[Current] = Acquired(@), !.job.target = <<Current, t>>,
            !.job.buffer = Buffer]

TakesBuffer == AtSlide /\ Current \in worker.content /\ Buffer # kInvalid

(* The first use of a dma-buf is announced; rendering starts after.        *)
BeginDmabuf ==
  /\ TakesBuffer /\ worker.transport = "dmabuf"
  /\ WorkerStep(Begun([worker EXCEPT !.announced = @ \cup {<<Current, Buffer>>}], Buffer))
  /\ toMain' = IF <<Current, Buffer>> \in worker.announced THEN toMain
               ELSE Append(toMain, Announce(Current, Buffer, "dmabuf"))
  /\ UNCHANGED toWorker

(* shm: the buffer is made and announced on its first use; the pixels are  *)
(* rendered into target 0 and copied.  A dma-buf export that fails turns   *)
(* the whole worker to shm for good.                                       *)
ToShm ==
  \/ worker.transport = "shm"
  \/ /\ worker.transport = "dmabuf" /\ "export" \in Faults
     /\ <<Current, Buffer>> \notin worker.announced

BeginShm ==
  /\ TakesBuffer /\ ToShm
  /\ WorkerStep(Begun([worker EXCEPT !.transport = "shm",
                                     !.shm = @ \cup {<<Current, Buffer>>}], 0))
  /\ toMain' = IF <<Current, Buffer>> \in worker.shm THEN toMain
               ELSE Append(toMain, Announce(Current, Buffer, "shm"))
  /\ UNCHANGED toWorker

(* The shm buffer cannot be made: the ring has moved on, the buffer is     *)
(* free again.                                                             *)
ShmFails ==
  /\ TakesBuffer /\ ToShm /\ "shm" \in Faults
  /\ <<Current, Buffer>> \notin worker.shm
  /\ WorkerStep(Skipped([worker EXCEPT !.transport = "shm",
                          !.ring[Current] = Released(Acquired(@), Buffer)]))
  /\ UNCHANGED <<toMain, toWorker>>

(* The slide's code returned or threw.  An exception without a message is  *)
(* reported as not rendered.  A callable that cannot be evaluated (which   *)
(* shows when it is rendered first) is dropped, and main is not told.      *)
FinishSlide ==
  /\ ~ Idle /\ Job.target # <<>>
  /\ \E ok, drops \in BOOLEAN :
       /\ ok \/ "silent" \in Faults
       /\ drops => ok /\ "blank" \in Faults
       /\ WorkerStep([worker EXCEPT
            !.content = IF drops THEN @ \ {Current} ELSE @,
            !.job = [NoJob EXCEPT
                       !.frame = TRUE, !.todo = Job.todo \ {Current},
                       !.results = Job.results \cup
                         {Result(Current, Job.buffer, worker.transport, ok)}]])
  /\ UNCHANGED <<toMain, toWorker>>

SendFrameDone ==
  /\ ~ Idle /\ Job.todo = {}
  /\ toMain' = Append(toMain, FrameDone(Job.results))
  /\ WorkerStep([worker EXCEPT !.job = NoJob])
  /\ UNCHANGED toWorker

WorkThread ==
  \/ HandleBufferRelease \/ HandleFrameBegin \/ SkipSlide \/ BeginDmabuf
  \/ BeginShm \/ ShmFails \/ FinishSlide \/ SendFrameDone

(* The slide's code, the driver or a Kill ends the process; what it had    *)
(* sent can still be read until it is reaped.                              *)
Crash ==
  /\ proc = "running"
  /\ proc' = "dead" /\ worker' = FreshWorker /\ toWorker' = <<>>
  /\ UNCHANGED <<gen, ui, streams, toMain>>

Next ==
  \/ UIStep \/ IORecv \/ WorkThread \/ Crash
  \/ \E s \in UNION VisibleSets : HandleSetSource(s)

Spec == Init /\ [][Next /\ UNCHANGED setting]_<<vars, setting>>

(* The UI loop and the IO thread run on.  The work thread runs on too, or  *)
(* hangs in a slide's code and is killed by the watchdog.  Nobody need     *)
(* ever compile anything.                                                  *)
Fairness ==
  WF_vars(UIStep) /\ WF_vars(IORecv) /\ WF_vars(WorkThread \/ Crash)
FairSpec == Spec /\ Fairness

-----------------------------------------------------------------------------
(* Properties. *)

Messages ==
  [type : {"TextureAnnounce"}, slide : Slides, buffer : Buffers,
   transport : {"dmabuf", "shm"}]
    \cup [type : {"BufferRelease"}, slide : Slides, buffer : Buffers]
    \cup [type : {"FrameBegin"}, slides : SUBSET Slides]

(* Type correctness of both processes and of what is on the wire.          *)
TypeOK ==
  /\ proc \in {"none", "running", "dead"} /\ gen \in 0..MaxGen
  /\ ui.phase \in {"reap", "drain", "update", "frame", "swap"}
  /\ ui.outstanding \in BOOLEAN /\ ui.retiring \subseteq Leases
  /\ \A s \in Slides :
       /\ streams[s].transport \in {"none", "dmabuf", "shm"}
       /\ streams[s].tex \in {NoTexture, OwnTexture} \cup ((1..MaxGen) \X Buffers)
       /\ streams[s].buffer_tex \in [Buffers -> 0..gen]
       /\ streams[s].front \in Buffers \cup {-1}
       /\ worker.ring[s] \in Rings
  /\ worker.transport \in {"dmabuf", "shm"}
  /\ \A i \in DOMAIN toWorker : toWorker[i] \in Messages
  /\ \A i \in DOMAIN worker.queue : worker.queue[i] \in Messages
  /\ \A i \in DOMAIN toMain :
       \/ toMain[i] \in Messages
       \/ \A r \in toMain[i].results :
            r.slide \in Slides /\ (r.rendered => r.buffer \in Buffers)

(* Who holds a buffer the running worker handed out, once per hold.        *)
Holds(x) ==
  LET In(q) == {i \in DOMAIN q : q[i].type = "BufferRelease"
                                 /\ <<q[i].slide, q[i].buffer>> = x}
      Done == {i \in DOMAIN toMain :
                 /\ toMain[i].type = "FrameDone"
                 /\ \E r \in toMain[i].results :
                      r.rendered /\ <<r.slide, r.buffer>> = x}
  IN  [worker |-> \/ Job.target # <<>> /\ <<Job.target[1], Job.buffer>> = x
                  \/ \E r \in Job.results : <<r.slide, r.buffer>> = x,
       main |-> Cardinality(In(toWorker)) + Cardinality(In(worker.queue))
                + Cardinality(Done)
                + (IF streams[x[1]].front = x[2] THEN 1 ELSE 0)
                + (IF x \in ui.retiring THEN 1 ELSE 0)]

owner ==
  [x \in Leases |->
     IF proc # "running" THEN "free"
     ELSE LET h == Holds(x)
          IN  IF x[2] \notin worker.ring[x[1]].busy
              THEN IF h.main = 0 /\ ~ h.worker THEN "free" ELSE "stolen"
              ELSE IF h.worker THEN IF h.main = 0 THEN "worker" ELSE "stolen"
              ELSE IF h.main = 0 THEN "lost"
              ELSE IF h.main = 1 THEN "main" ELSE "stolen"]

(* Every buffer has one owner at a time, through import failures, export   *)
(* fallback, crashes and restarts: ring, announces, promotion and release  *)
(* implement the lease.                                                    *)
Lease == INSTANCE BufferLease WITH owner <- owner
ImplementsLease == Lease!Spec

(* The memory main samples until the swap: what it displays and what it    *)
(* displaced in this UI frame.                                             *)
Sampled(s, b) ==
  streams[s].tex = <<gen, b>> \/ <<s, b>> \in ui.retiring
Rendering(s, b) == proc = "running" /\ Job.target = <<s, b>>

(* "starvation can never tear": the worker never renders into memory that  *)
(* main is sampling.                                                       *)
NoTearing == \A s \in Slides, b \in Buffers : Rendering(s, b) => ~ Sampled(s, b)

(* The same while the worker is on dma-bufs.                               *)
NoTearingDmabuf == worker.transport = "dmabuf" => NoTearing

(* Three buffers are enough: as long as none is lost, a visible slide is   *)
(* never skipped for want of a free buffer, although a displaced front is  *)
(* released only after the next FrameBegin was sent.                       *)
EnoughBuffers ==
  /\ proc = "running" /\ AtSlide
  /\ Current \in worker.content
  /\ \A b \in Buffers : owner[<<Current, b>>] # "lost"
  => Buffer # kInvalid

(* At most one FrameBegin is anywhere between endFrame and FrameDone, and  *)
(* frame_outstanding_ says whether there is one; so the mailbox rule of    *)
(* the queue never drops an input.                                         *)
FramesInFlight ==
  LET Count(q, t) == Cardinality({i \in DOMAIN q : q[i].type = t})
  IN  Count(toWorker, "FrameBegin") + Count(worker.queue, "FrameBegin")
      + Count(toMain, "FrameDone") + (IF Job.frame THEN 1 ELSE 0)
OneFrameInFlight ==
  proc = "running" => FramesInFlight = IF ui.outstanding THEN 1 ELSE 0

(* Main takes a rendered buffer for what the worker made of it: the        *)
(* transport of the slide's last announce is the one the result used, also *)
(* after a fallback in the middle of a frame or a restart.                 *)
TransportAgrees ==
  ui.phase = "drain" /\ proc # "none" /\ toMain # <<>>
  /\ Head(toMain).type = "FrameDone"
  => \A r \in Head(toMain).results :
       r.rendered => streams[r.slide].transport = r.transport

(* Once this worker's first frame of a slide is promoted, the displayed    *)
(* texture is live and is the one of the front buffer.                     *)
DisplayedLive ==
  \A s \in Slides :
    LET st == streams[s]
    IN  st.front # -1 => st.tex = <<st.buffer_tex[st.front], st.front>>

(* "The texture outlives the worker, so a dead worker shows its last       *)
(* frame": with no worker, the displayed texture has not been deleted.     *)
LastFrameSurvives ==
  proc = "none" =>
    \A s \in Slides, g \in 1..MaxGen, b \in Buffers :
      streams[s].tex = <<g, b>> => streams[s].buffer_tex[b] = g

(* Every FrameBegin is answered, or its worker reaped: coalescing cannot   *)
(* stop for good.                                                          *)
FrameAnswered == ui.outstanding ~> ~ ui.outstanding

(* In a worker that lives on, the ring of a slide that stays visible and   *)
(* goes on having something to show never starves: again and again there   *)
(* is a buffer for it, and it is rendered again and again, unless again    *)
(* and again the shm buffer cannot be made.  (A failed import or an        *)
(* exception without a message costs a buffer for good.)                   *)
KeepsRendering ==
  \A s \in Slides :
    <>[](/\ proc = "running" /\ s \in worker.content /\ \A V \in VisibleSets : s \in V
         /\ Faults \cap {"import", "silent"} = {})
      => /\ []<>(TakesBuffer /\ Current = s)
         /\ \/ []<>(Job.target # <<>> /\ Job.target[1] = s)
            \/ []<><<ShmFails /\ Current = s>>_vars
=============================================================================
