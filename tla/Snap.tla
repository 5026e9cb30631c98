-------------------------------- MODULE Snap ---------------------------------
(***************************************************************************)
(* marcel_snap (tools/snap_main.cpp): the sequential driver of one worker, *)
(* with the worker's own entry (worker_main.cpp), a compile's output       *)
(* capture (Capture) and a slide's buffer ring (BufferRing).               *)
(*                                                                         *)
(* toWorker is the socket and the worker's queue behind it, both in order. *)
(* The tool waits for one answer at a time; a deadline passes at some      *)
(* moment (late), and a hard alarm may go off after it.                    *)
(***************************************************************************)
EXTENDS BufferRing, Capture, Sequences

CONSTANTS
  Sources,      \* number of sources: setup first, if there is one
  Slides,       \* the slides among them
  Frames        \* frames to render

ASSUME SnapAssumption ==
  /\ Sources \in Nat \ {0} /\ Frames \in Nat \ {0}
  /\ Slides \subseteq 1..Sources /\ Slides # {}

VARIABLES
  tool,        \* [pc, exit, source, frame, looked]: where main is, its exit
               \* code, sources and frames answered; looked: the socket was
               \* found empty, waitpid comes next
  slots,       \* g_slots: the buffers mapped
  child,       \* the worker process: "none", "running", "zombie", "reaped"
  work,        \* its work thread: where it is, and the outcome of a compile
  io,          \* its IO thread: "off", "on", "returned"
  cap,         \* the output capture of the compile it is in
  content,     \* the slides that have something to render
  rings,       \* per slide
  made,        \* the shared buffers created and announced
  toWorker, toTool,
  late,        \* the overall deadline has passed
  hist         \* history: sources found clean by the worker, what went
               \* wrong, the buffers an exception without a message kept

vars == <<tool, slots, child, work, io, cap, content, rings, made,
          toWorker, toTool, late, hist>>

kOk == 0
kUsage == 2
kSpawnFail == 3
kCompileFail == 4
kRenderException == 5
kWorkerDeath == 6
kTimeout == 7

Outcomes == {"clean", "error", "throws", "incomplete"}
Troubles == {"fork", "gl", "source", "render", "silent", "unrendered", "death", "size"}

Msg(type) == [type |-> type]
HelloAck(shm) == [type |-> "HelloAck", shm |-> shm]
CompileResult(o) == [type |-> "CompileResult", outcome |-> o]
Announce(s, b) == [type |-> "TextureAnnounce", slide |-> s, buffer |-> b]
FrameDone(R, threw) == [type |-> "FrameDone", results |-> R, threw |-> threw]
Release(s, b) == [type |-> "BufferRelease", slide |-> s, buffer |-> b]
SetSource(n) == [type |-> "SetSource", source |-> n]

(* Some order of a set of messages: the code walks a frame's results.      *)
InSomeOrder(M) ==
  CHOOSE q \in [1..Cardinality(M) -> M] : \A i, j \in DOMAIN q : i # j => q[i] # q[j]

(* An heir of a capture that is gone writes into a pipe nobody reads.      *)
NoCapture == [Begun("done") EXCEPT !.redirected = FALSE]
FreshWork == [at |-> "hello", source |-> 0, outcome |-> "clean"]

(* Sources have been read: there is at least one slide with content.       *)
Init ==
  /\ tool = [pc |-> "spawn", exit |-> kOk, source |-> 0, frame |-> 0, looked |-> FALSE]
  /\ slots = {} /\ child = "none" /\ work = FreshWork /\ io = "off"
  /\ cap = NoCapture
  /\ content = {} /\ rings = [s \in Slides |-> FreshRing] /\ made = {}
  /\ toWorker = <<>> /\ toTool = <<>> /\ late = FALSE
  /\ hist = [clean |-> 0, troubles |-> {}, lost |-> {}]

workerVars == <<work, io, cap, content, rings, made>>

-----------------------------------------------------------------------------
(* The tool. *)

(* fail: the first failure counts, but death and timeout override it.      *)
Failed(exit, code) ==
  IF exit = kOk \/ code \in {kWorkerDeath, kTimeout} THEN code ELSE exit

Trouble(what) == hist' = [hist EXCEPT !.troubles = @ \cup {what}]

(* The early returns: SIGKILL, waitpid, return.                            *)
Ended(code) == tool' = [tool EXCEPT !.pc = "end", !.exit = code, !.looked = FALSE]
KillAndEnd(code) ==
  /\ Ended(code)
  /\ child' = "reaped"

(* fork() may fail; whether the worker can be executed shows later.        *)
SpawnFails ==
  /\ tool.pc = "spawn"
  /\ Ended(kSpawnFail) /\ Trouble("fork")
  /\ UNCHANGED <<slots, child, workerVars, toWorker, toTool, late>>

SpawnWorker ==
  /\ tool.pc = "spawn"
  /\ child' = "running"
  /\ tool' = [tool EXCEPT !.pc = "hello"]
  /\ UNCHANGED <<slots, workerVars, toWorker, toTool, late, hist>>

(* A send succeeds while the worker's end of the socket is open.           *)
Send(m) == toWorker' = Append(toWorker, m)

SendHello ==
  /\ tool.pc = "hello"
  /\ IF child = "running"
     THEN Send(Msg("Hello")) /\ tool' = [tool EXCEPT !.pc = "ack"] /\ UNCHANGED child
     ELSE KillAndEnd(kWorkerDeath) /\ UNCHANGED toWorker
  /\ UNCHANGED <<slots, workerVars, toTool, late, hist>>

(* A source larger than a message cannot be sent, which is taken for a     *)
(* death.                                                                  *)
SendSource ==
  /\ tool.pc = "compile"
  /\ \/ /\ child = "running"
        /\ Send(SetSource(tool.source + 1)) /\ tool' = [tool EXCEPT !.pc = "result"]
        /\ UNCHANGED <<child, hist>>
     \/ /\ KillAndEnd(Failed(tool.exit, kWorkerDeath))
        /\ IF child = "running" THEN Trouble("size") ELSE UNCHANGED hist
        /\ UNCHANGED toWorker
  /\ UNCHANGED <<slots, workerVars, toTool, late>>

SendFrameBegin ==
  /\ tool.pc = "frame"
  /\ IF child = "running"
     THEN Send(Msg("FrameBegin")) /\ tool' = [tool EXCEPT !.pc = "done"]
     ELSE tool' = [tool EXCEPT !.pc = "shutdown", !.exit = Failed(@, kWorkerDeath)]
          /\ UNCHANGED toWorker
  /\ UNCHANGED <<slots, child, workerVars, toTool, late, hist>>

(* Where a wait that failed leads: out, or from a frame to the shutdown.   *)
Waiting == tool.pc \in {"ack", "result", "done"}
GivesUp(code) ==
  IF tool.pc = "done"
  THEN tool' = [tool EXCEPT !.pc = "shutdown", !.exit = Failed(@, code)] /\ UNCHANGED child
  ELSE KillAndEnd(Failed(tool.exit, code))

(* recvUntil: the deadline first, then the socket, which tells of a worker *)
(* that has gone once it is empty, then waitpid.  (Mutant: the deadline is *)
(* only looked at when the worker has gone.)                               *)
ExpiresWhenGone == late /\ child # "running"
Expires == late

TimesOut ==
  /\ Waiting /\ ~ tool.looked /\ Expires /\ GivesUp(kTimeout)
  /\ UNCHANGED <<slots, workerVars, toWorker, toTool, late, hist>>

Looking == Waiting /\ ~ tool.looked /\ ~ Expires

Disconnects ==
  /\ Looking /\ child # "running" /\ toTool = <<>>
  /\ GivesUp(kWorkerDeath)
  /\ UNCHANGED <<slots, workerVars, toWorker, toTool, late, hist>>

FindsNothing ==
  /\ Looking /\ child = "running" /\ toTool = <<>>
  /\ tool' = [tool EXCEPT !.looked = TRUE]
  /\ UNCHANGED <<slots, child, workerVars, toWorker, toTool, late, hist>>

(* A worker that has answered and died since the look is reaped here, its  *)
(* answer unread.                                                          *)
LooksAtWorker ==
  /\ tool.looked
  /\ IF child = "running"
     THEN tool' = [tool EXCEPT !.looked = FALSE] /\ UNCHANGED child
     ELSE /\ child' = "reaped"
          /\ IF tool.pc = "done"
             THEN tool' = [tool EXCEPT !.pc = "shutdown", !.looked = FALSE,
                                       !.exit = Failed(@, kWorkerDeath)]
             ELSE Ended(Failed(tool.exit, kWorkerDeath))
  /\ UNCHANGED <<slots, workerVars, toWorker, toTool, late, hist>>

Receiving(type) ==
  /\ Looking /\ toTool # <<>> /\ Head(toTool).type = type
  /\ toTool' = Tail(toTool)
  /\ UNCHANGED <<workerVars, late, hist>>

(* handleAnnounce; mmap may fail.                                          *)
RecvAnnounce ==
  /\ Receiving("TextureAnnounce")
  /\ LET m == Head(toTool) IN slots' \in {slots, slots \cup {<<m.slide, m.buffer>>}}
  /\ UNCHANGED <<tool, child, toWorker>>

RecvHelloAck ==
  /\ Receiving("HelloAck") /\ tool.pc = "ack"
  /\ IF Head(toTool).shm THEN tool' = [tool EXCEPT !.pc = "compile"] /\ UNCHANGED child
                         ELSE KillAndEnd(kSpawnFail)
  /\ UNCHANGED <<slots, toWorker>>

RecvCompileBusy ==
  /\ Receiving("CompileBusy")
  /\ UNCHANGED <<tool, slots, child, toWorker>>

(* reportCompile.  (Mutant: an exception does not count.)                  *)
CleanIfCompiled(o) == o \in {"clean", "throws"}
Clean(o) == o = "clean"
RecvCompileResult ==
  /\ Receiving("CompileResult") /\ tool.pc = "result"
  /\ tool' = [tool EXCEPT
       !.pc = IF tool.source + 1 = Sources THEN "frame" ELSE "compile",
       !.source = @ + 1,
       !.exit = IF Clean(Head(toTool).outcome) THEN @ ELSE Failed(@, kCompileFail)]
  /\ UNCHANGED <<slots, child, toWorker>>

(* Every rendered buffer goes back, whether its picture could be saved or  *)
(* not.  (Mutant: only if the buffer is known.)                            *)
ReleasesKnown(R) == {r \in R : <<r.slide, r.buffer>> \in slots}
Releases(R) == R
RecvFrameDone ==
  /\ Receiving("FrameDone") /\ tool.pc = "done"
  /\ LET m == Head(toTool)
         back == {Release(r.slide, r.buffer) : r \in Releases(m.results)}
     IN  /\ tool' = [tool EXCEPT
              !.pc = IF tool.frame + 1 = Frames THEN "shutdown" ELSE "frame",
              !.frame = @ + 1,
              !.exit = IF m.threw THEN Failed(@, kRenderException) ELSE @]
         /\ toWorker' = IF child = "running"
                        THEN toWorker \o InSomeOrder(back) ELSE toWorker
  /\ UNCHANGED <<slots, child>>

(* Shutdown, then up to 50 looks at the worker, then SIGKILL.  (Mutant: it *)
(* is left to itself.)                                                     *)
SendShutdown ==
  /\ tool.pc = "shutdown"
  /\ toWorker' = IF child = "running" THEN Append(toWorker, Msg("Shutdown")) ELSE toWorker
  /\ tool' = [tool EXCEPT !.pc = "reap"]
  /\ UNCHANGED <<slots, child, workerVars, toTool, late, hist>>

LeavesWorker == child' = IF child = "zombie" THEN "reaped" ELSE child
SettlesWorker == child' = "reaped"
ReapOrKill ==
  /\ tool.pc = "reap"
  /\ SettlesWorker /\ Ended(tool.exit)
  /\ UNCHANGED <<slots, workerVars, toWorker, toTool, late, hist>>

Tool ==
  \/ SpawnFails \/ SpawnWorker \/ SendHello \/ SendSource \/ SendFrameBegin
  \/ TimesOut \/ Disconnects \/ FindsNothing \/ LooksAtWorker
  \/ RecvAnnounce \/ RecvHelloAck \/ RecvCompileBusy \/ RecvCompileResult \/ RecvFrameDone
  \/ SendShutdown \/ ReapOrKill

(* The deadline passes; ten seconds later the alarm kills the worker and   *)
(* ends the tool, wherever it is.                                          *)
Late ==
  /\ ~ late /\ tool.pc \notin {"spawn", "end"} /\ late' = TRUE
  /\ UNCHANGED <<tool, slots, child, workerVars, toWorker, toTool, hist>>

OnAlarm ==
  /\ late /\ tool.pc # "end" /\ Ended(kTimeout)
  /\ child' = IF child = "running" THEN "zombie" ELSE child
  /\ UNCHANGED <<slots, workerVars, toWorker, toTool, late, hist>>

-----------------------------------------------------------------------------
(* The worker. *)

toolVars == <<tool, slots, late>>

Taking(type) ==
  /\ child = "running" /\ toWorker # <<>> /\ Head(toWorker).type = type
  /\ toWorker' = Tail(toWorker)
  /\ UNCHANGED toolVars
Answer(msgs) == toTool' = toTool \o msgs

(* main(): initGL, the answer, then the IO thread and the engine.  A       *)
(* worker of another protocol version leaves after its answer.             *)
TakeHello ==
  /\ work.at = "hello" /\ Taking("Hello")
  /\ \E gl, match \in BOOLEAN :
       /\ Answer(<<HelloAck(gl)>>)
       /\ IF match THEN /\ work' = [work EXCEPT !.at = "idle"] /\ io' = "on"
                        /\ UNCHANGED child
                   ELSE child' = "zombie" /\ UNCHANGED <<work, io>>
       /\ hist' = [hist EXCEPT !.troubles =
                     @ \cup (IF gl THEN {} ELSE {"gl"}) \cup (IF match THEN {} ELSE {"death"})]
  /\ UNCHANGED <<cap, content, rings, made>>

(* handleSetSource: CompileBusy, then the validator, then the capture      *)
(* around the interpreter.  Its thread may fail to start.                  *)
TakeSource ==
  /\ work.at = "idle" /\ Taking("SetSource")
  /\ Answer(<<Msg("CompileBusy")>>)
  /\ \E o \in Outcomes, reader \in {"check", "none"} :
       /\ work' = [at |-> IF o = "incomplete" THEN "answer" ELSE "compile",
                   source |-> Head(toWorker).source, outcome |-> o]
       /\ cap' = IF o = "incomplete" THEN cap ELSE Begun(reader)
  /\ UNCHANGED <<child, io, content, rings, made, hist>>

Compiling(at) == child = "running" /\ work.at = at
InCompile ==
  UNCHANGED <<toolVars, child, io, content, rings, made, toWorker, toTool, hist>>

CaptureStep(c) == cap' = c /\ UNCHANGED work /\ InCompile
CompileStep(c, at) == cap' = c /\ work' = [work EXCEPT !.at = at] /\ InCompile

Write ==
  /\ child = "running" /\ (work.at = "compile" \/ cap.heir)
  /\ CanWrite(cap) /\ CaptureStep(Written(cap))
Fork == Compiling("compile") /\ ~ cap.heir /\ CaptureStep(Forked(cap))
HeirExits == child = "running" /\ cap.heir /\ CaptureStep(HeirGone(cap))
ReaderStep == child = "running" /\ CanStep(cap) /\ CaptureStep(Stepped(cap))
ReaderFails ==
  /\ child = "running" /\ CanFail(cap)
  /\ \E r \in AfterFailure(cap) : CaptureStep([cap EXCEPT !.reader = r])
EndCompile == Compiling("compile") /\ CompileStep(Stopped(cap), "restore")
Restore == Compiling("restore") /\ CompileStep(Restored(cap), "join")
Join == Compiling("join") /\ Joined(cap) /\ CompileStep(cap, "answer")

(* The result is sent once the capture is over, unless it is larger than a *)
(* message.  A slide that compiled has content if it is a function or has a*)
(* value.                                                                  *)
SendResult ==
  /\ Compiling("answer")
  /\ \/ Answer(<<CompileResult(work.outcome)>>)
     \/ UNCHANGED toTool
  /\ work' = [FreshWork EXCEPT !.at = "idle"] /\ cap' = NoCapture
  /\ IF work.outcome = "clean"
     THEN content' \in {content, content \cup (Slides \cap {work.source})}
          /\ hist' = [hist EXCEPT !.clean = @ + 1]
     ELSE Trouble("source") /\ UNCHANGED content
  /\ UNCHANGED <<toolVars, child, io, rings, made, toWorker>>

(* handleFrameBegin: every slide with content takes a buffer, whose shared *)
(* memory is created and announced the first time; if that fails the       *)
(* buffer goes back.  It is rendered, or throws, and counts as rendered    *)
(* either way, unless the exception has no message (silent): then the tool *)
(* is not told of it and the buffer stays taken.  A slide rendered for the *)
(* first time may turn out not to be callable: its picture is empty, and   *)
(* it has no content from then on.  The texts of the exceptions may make   *)
(* the answer too large to be sent.                                        *)
Reported(threw, silent, blank) ==
  (IF threw THEN {"render"} ELSE {}) \cup (IF silent THEN {"silent"} ELSE {})
  \cup (IF blank THEN {"unrendered"} ELSE {})
TakeFrame ==
  /\ work.at = "idle" /\ Taking("FrameBegin")
  /\ LET got == {[slide |-> s, buffer |-> Candidate(rings[s])] :
                   s \in {x \in content : Candidate(rings[x]) # kInvalid}}
         fresh == {r \in got : <<r.slide, r.buffer>> \notin made}
         first == {s \in content : \A b \in Buffers : <<s, b>> \notin made}
     IN  \E failed \in SUBSET fresh, silent \in SUBSET got,
            dropped \in SUBSET first, threw, sent \in BOOLEAN :
           LET R == got \ (failed \cup silent)
               new == {Announce(r.slide, r.buffer) : r \in fresh \ failed}
           IN  /\ failed \cap silent = {} /\ (threw => R # {}) /\ (~ sent => threw)
               /\ dropped \subseteq {r.slide : r \in R}
               /\ Answer(InSomeOrder(new)
                           \o IF sent THEN <<FrameDone(R, threw)>> ELSE <<>>)
               /\ content' = content \ dropped
               /\ made' = made \cup {<<r.slide, r.buffer>> : r \in got \ failed}
               /\ rings' = [s \in Slides |->
                    CASE s \in {r.slide : r \in got \ failed} -> Acquired(rings[s])
                      [] s \in {r.slide : r \in failed} ->
                           Released(Acquired(rings[s]), Candidate(rings[s]))
                      [] OTHER -> rings[s]]
               /\ hist' = [hist EXCEPT
                              !.troubles = @ \cup Reported(threw, silent # {},
                                                          failed \cup dropped # {}),
                              !.lost = @ \cup {<<r.slide, r.buffer>> : r \in silent}]
  /\ UNCHANGED <<child, work, io, cap>>

TakeRelease ==
  /\ work.at = "idle" /\ Taking("BufferRelease")
  /\ rings' = [rings EXCEPT ![Head(toWorker).slide] = Released(@, Head(toWorker).buffer)]
  /\ UNCHANGED <<child, work, io, cap, content, made, toTool, hist>>

(* The IO thread returns with Shutdown, the work thread when it gets there.*)
(* (It would also end the process if the tool had gone: WorkerGone says    *)
(* that this is not needed.)                                               *)
IOShutdown ==
  /\ child = "running" /\ io = "on" /\ toWorker # <<>>
  /\ toWorker[Len(toWorker)] = Msg("Shutdown")
  /\ io' = "returned" /\ toWorker' = SubSeq(toWorker, 1, Len(toWorker) - 1)
  /\ UNCHANGED <<toolVars, child, work, cap, content, rings, made, toTool, hist>>

Quit ==
  /\ child = "running" /\ io = "returned" /\ work.at = "idle" /\ toWorker = <<>>
  /\ child' = "zombie"
  /\ UNCHANGED <<toolVars, workerVars, toWorker, toTool, hist>>

(* It may die at any time, of the user's code or for want of a binary.     *)
Crash ==
  /\ child = "running" /\ child' = "zombie"
  /\ Trouble("death")
  /\ UNCHANGED <<toolVars, workerVars, toWorker, toTool>>

Work ==
  \/ TakeHello \/ TakeSource \/ EndCompile \/ Restore \/ ReaderStep \/ Join \/ SendResult
  \/ TakeFrame \/ TakeRelease \/ IOShutdown \/ Quit

Next ==
  \/ Tool \/ Late \/ OnAlarm
  \/ Work \/ Write \/ Fork \/ HeirExits \/ ReaderFails \/ Crash

Spec == Init /\ [][Next]_vars

(* The tool runs and time passes; nothing is asked of the worker, and the  *)
(* alarm need not go off.                                                  *)
FairSpec == Spec /\ WF_vars(Tool) /\ WF_vars(Late)

-----------------------------------------------------------------------------
(* Properties. *)

Messages ==
  [type : {"Hello", "CompileBusy", "FrameBegin", "Shutdown"}]
  \cup [type : {"HelloAck"}, shm : BOOLEAN]
  \cup [type : {"CompileResult"}, outcome : Outcomes]
  \cup [type : {"SetSource"}, source : 1..Sources]
  \cup [type : {"TextureAnnounce", "BufferRelease"}, slide : Slides, buffer : Buffers]
  \cup [type : {"FrameDone"}, threw : BOOLEAN,
        results : SUBSET [slide : Slides, buffer : Buffers]]

(* The variables hold what they are declared to hold.                      *)
TypeOK ==
  /\ tool \in [pc : {"spawn", "hello", "ack", "compile", "result", "frame", "done",
                     "shutdown", "reap", "end"},
               exit : kOk..kTimeout \ {1}, source : 0..Sources, frame : 0..Frames,
               looked : BOOLEAN]
  /\ slots \subseteq made /\ made \subseteq Slides \X Buffers
  /\ child \in {"none", "running", "zombie", "reaped"}
  /\ work \in [at : {"hello", "idle", "compile", "restore", "join", "answer"},
               source : 0..Sources, outcome : Outcomes]
  /\ io \in {"off", "on", "returned"}
  /\ cap \in Captures
  /\ content \subseteq Slides
  /\ rings \in [Slides -> Rings]
  /\ \A i \in DOMAIN toWorker : toWorker[i] \in Messages
  /\ \A i \in DOMAIN toTool : toTool[i] \in Messages
  /\ late \in BOOLEAN
  /\ hist \in [clean : 0..Sources, troubles : SUBSET Troubles,
               lost : SUBSET (Slides \X Buffers)]

(* "so the 3-slot ring never starves across frames" (snap_main.cpp:544):   *)
(* when the worker comes to a frame, every buffer is free to render into,  *)
(* whatever became of the pictures before it, but those an exception       *)
(* without a message has kept.                                             *)
RingNeverStarves ==
  work.at = "idle" /\ toWorker # <<>> /\ Head(toWorker).type = "FrameBegin"
    => \A s \in Slides, b \in Buffers : b \in rings[s].busy => <<s, b>> \in hist.lost

(* The exit code says what the tool was told: 0 only if the worker found   *)
(* every source clean, every frame was answered and no exception with a    *)
(* message was thrown; any other code only if its cause occurred.  Three   *)
(* troubles leave 0, as in the code: a slide that throws an exception      *)
(* without a message (snap_main.cpp:23-24 promises "5 render exception"    *)
(* without this exception), a slide that is not rendered for want of a     *)
(* buffer or of a callable, and a worker that dies after its last answer.  *)
ExitCodeHonest ==
  tool.pc = "end" =>
    /\ tool.exit = kOk =>
         /\ hist.clean = Sources /\ tool.frame = Frames
         /\ hist.troubles \subseteq {"silent", "unrendered", "death"}
    /\ tool.exit = kSpawnFail => hist.troubles \cap {"fork", "gl"} # {}
    /\ tool.exit = kCompileFail => "source" \in hist.troubles
    /\ tool.exit = kRenderException => "render" \in hist.troubles
    /\ tool.exit = kWorkerDeath => hist.troubles \cap {"death", "size"} # {}
    /\ tool.exit = kTimeout => late

(* A result leaves with all that its compile wrote: when the destructor of *)
(* the capture is past the join, nothing is left in the pipe, and nothing  *)
(* was lost between the reader's look at stop and the restored stderr, nor *)
(* by a failed read but one of the last drain.                             *)
CaptureWhole ==
  work.at = "answer" /\ work.outcome # "incomplete" /\ cap.reader # "failed"
    => cap.got = cap.written /\ cap.pipe = 0

(* No worker outlives the tool: on every way out, the alarm's included, it *)
(* has been killed or has gone.                                            *)
WorkerGone == tool.pc = "end" => child # "running"

(* The tool comes to an end whatever the worker does: it may hang in a     *)
(* compile, in a frame or in the join of a capture whose pipe a process    *)
(* of the user's code keeps open, or drop an answer that is too large.     *)
Terminates == <>(tool.pc = "end")
=============================================================================
