----------------------------- MODULE Snap_proofs -----------------------------
(***************************************************************************)
(* What holds of marcel_snap and its worker for every number of sources,   *)
(* slides and frames, every size of the pipe and every amount of output:   *)
(* a compile's output is whole, no worker is left behind, the exit code    *)
(* says what happened, and no frame finds a ring without a free buffer.    *)
(***************************************************************************)
EXTENDS Snap, ProofLemmas, TLAPS

Ats == {"hello", "idle", "compile", "restore", "join", "answer"}

(* work is a record of its three fields. *)
WorkShape ==
  /\ work = [at |-> work.at, source |-> work.source, outcome |-> work.outcome]
  /\ work.at \in Ats

(* What was written is in the pipe or has been read; the reader is done    *)
(* only when nobody can write any more and the pipe is empty; stderr is    *)
(* redirected until it is restored; and the join waits for the reader.     *)
CaptureInv ==
  /\ WorkShape
  /\ cap \in Captures
  /\ cap.got + cap.pipe = cap.written
  /\ cap.reader = "done" => ~ cap.redirected /\ ~ cap.heir /\ cap.pipe = 0
  /\ work.at \in {"compile", "restore"} => cap.redirected
  /\ work.at = "answer" /\ work.outcome # "incomplete" => Joined(cap)

LEMMA NothingCaptured ==
  /\ NoCapture \in Captures /\ NoCapture.got + NoCapture.pipe = NoCapture.written
  /\ ~ NoCapture.redirected /\ ~ NoCapture.heir /\ NoCapture.pipe = 0
<1>1. ASSUME NEW c, c = NoCapture
      PROVE  c = [redirected |-> FALSE, stop |-> FALSE, heir |-> FALSE, pipe |-> 0,
                  written |-> 0, got |-> 0, reader |-> "done"]
  BY <1>1, Zenon DEF NoCapture, Begun
<1>2. NoCapture = [redirected |-> FALSE, stop |-> FALSE, heir |-> FALSE, pipe |-> 0,
                   written |-> 0, got |-> 0, reader |-> "done"]
  BY <1>1, Zenon
<1> QED  BY <1>2, CaptureAssumption DEF Captures

LEMMA CaptureInit == Init => CaptureInv
<1> SUFFICES ASSUME Init PROVE CaptureInv
  OBVIOUS
<1>1. WorkShape
  BY DEF Init, WorkShape, FreshWork, Ats
<1>2. cap = NoCapture /\ work.at = "hello"
  BY DEF Init, FreshWork
<1> QED  BY <1>1, <1>2, NothingCaptured DEF CaptureInv

(* A read empties the pipe into what was read before. *)
LEMMA TakenKeeps ==
  ASSUME NEW c \in Captures, c.got + c.pipe = c.written
  PROVE  /\ Taken(c) \in Captures
         /\ Taken(c).pipe = 0 /\ Taken(c).got = c.written /\ Taken(c).written = c.written
         /\ Taken(c).redirected = c.redirected /\ Taken(c).heir = c.heir
<1>1. /\ Taken(c).pipe = 0 /\ Taken(c).got = c.got + c.pipe /\ Taken(c).written = c.written
      /\ Taken(c).redirected = c.redirected /\ Taken(c).heir = c.heir
  BY DEF Taken, Captures
<1>2. c.got + c.pipe \in 0..MaxWrites
  BY DEF Captures
<1>3. 0 \in 0..PipeSize
  BY CaptureAssumption
<1>4. Taken(c) \in Captures
  BY <1>2, <1>3, Zenon DEF Taken, Captures
<1> QED  BY <1>1, <1>4

(* One step of the reader, wherever it is, keeps what was written together.*)
LEMMA StepKeeps ==
  ASSUME NEW c \in Captures, CanStep(c), c.got + c.pipe = c.written
  PROVE  /\ Stepped(c) \in Captures
         /\ Stepped(c).got + Stepped(c).pipe = Stepped(c).written
         /\ Stepped(c).redirected = c.redirected
         /\ Stepped(c).heir = c.heir
         /\ Stepped(c).reader = "done" =>
              ~ c.redirected /\ ~ c.heir /\ Stepped(c).pipe = 0
<1>t. /\ Taken(c) \in Captures
      /\ Taken(c).pipe = 0 /\ Taken(c).got = c.written /\ Taken(c).written = c.written
      /\ Taken(c).redirected = c.redirected /\ Taken(c).heir = c.heir
  BY TakenKeeps
<1>w. c.written \in Nat
  BY CaptureAssumption DEF Captures
<1>1. CASE c.reader = "check"
  BY <1>1 DEF CanStep, Stepped, Checked, Captures
<1>2. CASE c.reader = "read"
  <2>1. Stepped(c) = [Taken(c) EXCEPT !.reader = IF c.pipe > 0 THEN "check" ELSE "drain"]
    BY <1>2, Zenon DEF Stepped, ReadDone
  <2> DEFINE r == IF c.pipe > 0 THEN "check" ELSE "drain"
  <2>2. r \in {"check", "drain"}
    OBVIOUS
  <2> HIDE DEF r
  <2>3. Stepped(c) = [Taken(c) EXCEPT !.reader = r]
    BY <2>1 DEF r
  <2> QED  BY <1>t, <1>w, <2>2, <2>3 DEF Captures
<1>3. CASE c.reader = "drain"
  <2>1. Stepped(c) = [Taken(c) EXCEPT !.reader = IF c.pipe > 0 THEN "drain" ELSE "done"]
    BY <1>3, Zenon DEF Stepped, Drained
  <2> DEFINE r == IF c.pipe > 0 THEN "drain" ELSE "done"
  <2>2. r \in {"drain", "done"} /\ (r = "done" => ~ c.redirected /\ ~ c.heir)
    BY <1>3 DEF CanStep, CanRead
  <2> HIDE DEF r
  <2>3. Stepped(c) = [Taken(c) EXCEPT !.reader = r]
    BY <2>1 DEF r
  <2> QED  BY <1>t, <1>w, <2>2, <2>3 DEF Captures
<1> QED  BY <1>1, <1>2, <1>3 DEF CanStep

(* A write adds one chunk to the pipe. *)
LEMMA WriteKeeps ==
  ASSUME NEW c \in Captures, CanWrite(c), c.got + c.pipe = c.written
  PROVE  /\ Written(c) \in Captures
         /\ Written(c).got + Written(c).pipe = Written(c).written
         /\ Written(c).reader = c.reader /\ Written(c).redirected = c.redirected
<1>1. c.pipe + 1 \in 0..PipeSize /\ c.written + 1 \in 0..MaxWrites
  BY CaptureAssumption DEF CanWrite, Captures
<1>2. Written(c) \in Captures
  BY <1>1, Zenon DEF Written, Captures
<1>3. /\ Written(c).pipe = c.pipe + 1 /\ Written(c).written = c.written + 1
      /\ Written(c).got = c.got
      /\ Written(c).reader = c.reader /\ Written(c).redirected = c.redirected
  BY DEF Written, Captures
<1>4. c.got \in Nat /\ c.pipe \in Nat /\ c.written \in Nat
  BY CaptureAssumption DEF Captures
<1> QED  BY <1>2, <1>3, <1>4

(* Steps that leave the capture and the work thread's place alone. *)
LEMMA CaptureStays ==
  ASSUME CaptureInv, UNCHANGED <<work, cap>>
  PROVE  CaptureInv'
  BY DEF CaptureInv, WorkShape

(* Steps of the capture alone. *)
LEMMA CaptureMoves ==
  ASSUME CaptureInv, work' = work, cap' \in Captures,
         cap'.got + cap'.pipe = cap'.written,
         cap'.reader = "done" => ~ cap'.redirected /\ ~ cap'.heir /\ cap'.pipe = 0,
         work.at \in {"compile", "restore"} => cap'.redirected,
         Joined(cap) => Joined(cap')
  PROVE  CaptureInv'
  BY DEF CaptureInv, WorkShape

LEMMA CaptureNext == CaptureInv /\ [Next]_vars => CaptureInv'
<1> SUFFICES ASSUME CaptureInv, [Next]_vars PROVE CaptureInv'
  OBVIOUS
<1> USE CaptureAssumption
<1>c. cap \in Captures /\ cap.got + cap.pipe = cap.written
  BY DEF CaptureInv
<1>1. CASE Tool
  <2>1. UNCHANGED <<work, cap>>
    BY <1>1 DEF Tool, SpawnFails, SpawnWorker, SendHello, SendSource, SendFrameBegin,
         TimesOut, Disconnects, FindsNothing, LooksAtWorker, Receiving, RecvAnnounce,
         RecvHelloAck, RecvCompileBusy, RecvCompileResult, RecvFrameDone,
         SendShutdown, ReapOrKill, workerVars
  <2> QED  BY <2>1, CaptureStays
<1>2. CASE Late \/ OnAlarm \/ Crash \/ UNCHANGED vars
  <2>1. UNCHANGED <<work, cap>>
    BY <1>2 DEF Late, OnAlarm, Crash, vars, workerVars
  <2> QED  BY <2>1, CaptureStays
<1>3. CASE TakeFrame \/ TakeRelease \/ IOShutdown \/ Quit
  <2>1. UNCHANGED <<work, cap>>
    BY <1>3 DEF TakeFrame, TakeRelease, IOShutdown, Quit, workerVars
  <2> QED  BY <2>1, CaptureStays
<1>4. CASE TakeHello
  <2>1. cap' = cap /\ work.at = "hello"
        /\ (work' = work \/ work' = [work EXCEPT !.at = "idle"])
    BY <1>4 DEF TakeHello
  <2>2. CASE work' = work
    BY <2>1, <2>2, CaptureStays
  <2>3. CASE work' = [work EXCEPT !.at = "idle"]
    BY <2>1, <2>3 DEF CaptureInv, WorkShape, Ats
  <2> QED  BY <2>1, <2>2, <2>3
<1>5. CASE TakeSource
  <2>1. PICK o \in Outcomes, reader \in {"check", "none"} :
          /\ work' = [at |-> IF o = "incomplete" THEN "answer" ELSE "compile",
                      source |-> Head(toWorker).source, outcome |-> o]
          /\ cap' = IF o = "incomplete" THEN cap ELSE Begun(reader)
    BY <1>5 DEF TakeSource
  <2>2. WorkShape' /\ work'.outcome = o
        /\ work'.at = IF o = "incomplete" THEN "answer" ELSE "compile"
    BY <2>1 DEF WorkShape, Ats
  <2>3. CASE o = "incomplete"
    BY <2>1, <2>2, <2>3 DEF CaptureInv
  <2>4. CASE o # "incomplete"
    BY <2>1, <2>2, <2>4 DEF CaptureInv, Begun, Captures
  <2> QED  BY <2>3, <2>4
<1>6. CASE SendResult
  <2>1. cap' = NoCapture /\ work' = [FreshWork EXCEPT !.at = "idle"]
    BY <1>6 DEF SendResult
  <2>2. WorkShape' /\ work'.at = "idle"
    BY <2>1 DEF WorkShape, FreshWork, Ats
  <2> QED  BY <2>1, <2>2, NothingCaptured DEF CaptureInv
<1>7. CASE Write
  <2>1. work' = work /\ cap' = Written(cap) /\ CanWrite(cap)
    BY <1>7 DEF Write, CaptureStep
  <2>2. cap.reader # "done"
    BY <2>1 DEF CaptureInv, CanWrite
  <2>3. /\ cap' \in Captures /\ cap'.got + cap'.pipe = cap'.written
        /\ cap'.reader = cap.reader /\ cap'.redirected = cap.redirected
    BY <1>c, <2>1, WriteKeeps
  <2> QED  BY <2>1, <2>2, <2>3, CaptureMoves DEF CaptureInv, Joined
<1>8. CASE Fork
  <2>1. work' = work /\ work.at = "compile" /\ cap' = [cap EXCEPT !.heir = TRUE]
    BY <1>8 DEF Fork, CaptureStep, Compiling, Forked
  <2>2. cap.redirected /\ cap.reader # "done"
    BY <2>1 DEF CaptureInv
  <2>3. /\ cap' \in Captures /\ cap'.got + cap'.pipe = cap'.written
        /\ cap'.reader = cap.reader /\ cap'.redirected = cap.redirected
    BY <1>c, <2>1 DEF Captures
  <2> QED  BY <2>1, <2>2, <2>3, CaptureMoves DEF Joined
<1>9. CASE HeirExits
  <2>1. work' = work /\ cap' = [cap EXCEPT !.heir = FALSE]
    BY <1>9 DEF HeirExits, CaptureStep, HeirGone
  <2>2. /\ cap' \in Captures /\ cap'.got + cap'.pipe = cap'.written
        /\ cap'.reader = cap.reader /\ cap'.redirected = cap.redirected
        /\ ~ cap'.heir /\ cap'.pipe = cap.pipe
    BY <1>c, <2>1 DEF Captures
  <2> QED  BY <2>1, <2>2, CaptureMoves DEF CaptureInv, Joined
<1>10. CASE ReaderStep
  <2>1. work' = work /\ cap' = Stepped(cap) /\ CanStep(cap)
    BY <1>10 DEF ReaderStep, CaptureStep
  <2>2. cap.reader # "done" /\ ~ Joined(cap)
    BY <2>1 DEF CanStep, Joined
  <2>3. /\ cap' \in Captures /\ cap'.got + cap'.pipe = cap'.written
        /\ cap'.redirected = cap.redirected /\ cap'.heir = cap.heir
        /\ cap'.reader = "done" => ~ cap.redirected /\ ~ cap.heir /\ cap'.pipe = 0
    BY <1>c, <2>1, <2>2, StepKeeps
  <2> QED  BY <2>1, <2>2, <2>3, CaptureMoves DEF CaptureInv
<1>11. CASE EndCompile
  <2>1. /\ cap' = [cap EXCEPT !.stop = TRUE] /\ work' = [work EXCEPT !.at = "restore"]
        /\ work.at = "compile"
    BY <1>11 DEF EndCompile, CompileStep, Compiling, Stopped
  <2>2. WorkShape' /\ work'.at = "restore"
    BY <2>1 DEF CaptureInv, WorkShape, Ats
  <2>3. /\ cap' \in Captures /\ cap'.got + cap'.pipe = cap'.written
        /\ cap'.redirected = cap.redirected /\ cap'.reader = cap.reader
    BY <1>c, <2>1 DEF Captures
  <2> QED  BY <2>1, <2>2, <2>3 DEF CaptureInv
<1>12. CASE Restore
  <2>1. /\ cap' = [cap EXCEPT !.redirected = FALSE,
                              !.reader = IF @ = "none" THEN "drain" ELSE @]
        /\ work' = [work EXCEPT !.at = "join"] /\ work.at = "restore"
    BY <1>12 DEF Restore, CompileStep, Compiling, Restored
  <2>2. WorkShape' /\ work'.at = "join"
    BY <2>1 DEF CaptureInv, WorkShape, Ats
  <2>3. cap.redirected /\ cap.reader # "done"
    BY <2>1 DEF CaptureInv
  <2>4. /\ cap' \in Captures /\ cap'.got + cap'.pipe = cap'.written
        /\ cap'.reader # "done"
    BY <1>c, <2>1, <2>3 DEF Captures
  <2> QED  BY <2>2, <2>4 DEF CaptureInv
<1>13. CASE Join
  <2>1. /\ cap' = cap /\ work' = [work EXCEPT !.at = "answer"] /\ Joined(cap)
    BY <1>13 DEF Join, CompileStep
  <2>2. WorkShape' /\ work'.at = "answer"
    BY <2>1 DEF CaptureInv, WorkShape, Ats
  <2> QED  BY <2>1, <2>2 DEF CaptureInv
<1>14. CASE ReaderFails
  <2>1. PICK r \in {"check", "drain", "failed"} :
          work' = work /\ cap' = [cap EXCEPT !.reader = r] /\ CanFail(cap)
    BY <1>14 DEF ReaderFails, AfterFailure, CaptureStep
  <2>2. /\ cap' \in Captures /\ cap'.got + cap'.pipe = cap'.written
        /\ cap'.redirected = cap.redirected /\ cap'.reader # "done" /\ ~ Joined(cap)
    BY <1>c, <2>1 DEF CanFail, Captures, Joined
  <2> QED  BY <2>1, <2>2, CaptureMoves DEF CaptureInv
<1> QED
  BY <1>1, <1>2, <1>3, <1>4, <1>5, <1>6, <1>7, <1>8, <1>9, <1>10, <1>11, <1>12, <1>13, <1>14
  DEF Next, Work

(* A result leaves with all that its compile wrote (stdcapture.h:75-152),  *)
(* unless a read of the last drain failed, for every size of the pipe and  *)
(* every amount of output.                                                 *)
THEOREM OutputIsWhole == Spec => []CaptureWhole
<1>1. CaptureInv => CaptureWhole
  BY DEF CaptureInv, CaptureWhole, Captures, Joined
<1> QED  BY <1>1, CaptureInit, CaptureNext, PTL DEF Spec

-----------------------------------------------------------------------------
(* tool is a record of its fields; there is no worker before the spawn and *)
(* none after the end.                                                     *)
ToolShape ==
  tool = [pc |-> tool.pc, exit |-> tool.exit, source |-> tool.source,
          frame |-> tool.frame, looked |-> tool.looked]
ChildInv ==
  /\ ToolShape
  /\ tool.pc = "spawn" => child = "none"
  /\ tool.looked => Waiting
  /\ WorkerGone

LEMMA ChildInit == Init => ChildInv
  BY DEF Init, ChildInv, ToolShape, WorkerGone, Waiting

(* Ending with the worker killed and waited for, from anywhere. *)
LEMMA KillEnds ==
  ASSUME ToolShape, NEW code, KillAndEnd(code)
  PROVE  ChildInv'
<1>1. tool' = [tool EXCEPT !.pc = "end", !.exit = code, !.looked = FALSE] /\ child' = "reaped"
  BY DEF KillAndEnd, Ended
<1>2. ToolShape' /\ ~ tool'.looked /\ tool'.pc = "end"
  BY <1>1 DEF ToolShape
<1> QED  BY <1>1, <1>2 DEF ChildInv, WorkerGone

(* A failed wait ends the tool or leads to the shutdown. *)
LEMMA GivingUp ==
  ASSUME ChildInv, Waiting, ~ tool.looked, NEW code, GivesUp(code)
  PROVE  ChildInv'
<1>1. CASE tool.pc = "done"
  <2>1. tool' = [tool EXCEPT !.pc = "shutdown", !.exit = Failed(@, code)] /\ child' = child
    BY <1>1 DEF GivesUp
  <2>2. ToolShape' /\ tool'.pc = "shutdown" /\ ~ tool'.looked
    BY <2>1 DEF ChildInv, ToolShape
  <2> QED  BY <2>2 DEF ChildInv, WorkerGone
<1>2. CASE tool.pc # "done"
  BY <1>2, KillEnds DEF GivesUp, ChildInv
<1> QED  BY <1>1, <1>2

(* A step that goes on to another place of main, the worker as it was.     *)
LEMMA GoingOn ==
  ASSUME ChildInv, ToolShape', child' = child, tool'.pc \notin {"spawn", "end"},
         tool'.looked => Waiting'
  PROVE  ChildInv'
  BY DEF ChildInv, WorkerGone

(* A step of the worker, which may end it but not start it. *)
LEMMA WorkerSteps ==
  ASSUME ChildInv, tool' = tool, child = "running", child' \in {"running", "zombie"}
  PROVE  ChildInv'
  BY DEF ChildInv, WorkerGone, ToolShape, Waiting

LEMMA ChildNext == ChildInv /\ [Next]_vars => ChildInv'
<1> SUFFICES ASSUME ChildInv, [Next]_vars PROVE ChildInv'
  OBVIOUS
<1>s. ToolShape
  BY DEF ChildInv
<1>l. ~ Waiting => ~ tool.looked
  BY DEF ChildInv
<1>1. CASE SpawnFails
  <2>1. /\ tool' = [tool EXCEPT !.pc = "end", !.exit = kSpawnFail, !.looked = FALSE]
        /\ child' = child /\ child = "none"
    BY <1>1 DEF SpawnFails, Ended, ChildInv
  <2>2. ToolShape' /\ ~ tool'.looked /\ tool'.pc = "end"
    BY <1>s, <2>1 DEF ToolShape
  <2> QED  BY <2>1, <2>2 DEF ChildInv, WorkerGone
<1>2. CASE SpawnWorker
  <2>1. tool' = [tool EXCEPT !.pc = "hello"] /\ ~ Waiting
    BY <1>2 DEF SpawnWorker, Waiting
  <2>2. ToolShape' /\ tool'.pc = "hello" /\ ~ tool'.looked
    BY <1>l, <1>s, <2>1 DEF ToolShape
  <2> QED  BY <2>2 DEF ChildInv, WorkerGone
<1>3. CASE SendHello
  <2>1. CASE child = "running"
    <3>1. tool' = [tool EXCEPT !.pc = "ack"] /\ child' = child /\ ~ Waiting
      BY <1>3, <2>1 DEF SendHello, Waiting
    <3>2. ToolShape' /\ tool'.pc = "ack" /\ ~ tool'.looked
      BY <1>l, <1>s, <3>1 DEF ToolShape
    <3> QED  BY <3>1, <3>2, GoingOn
  <2>2. CASE child # "running"
    BY <1>3, <1>s, <2>2, KillEnds DEF SendHello
  <2> QED  BY <2>1, <2>2
<1>4. CASE SendSource
  <2>1. CASE KillAndEnd(Failed(tool.exit, kWorkerDeath))
    BY <1>s, <2>1, KillEnds
  <2>2. CASE tool' = [tool EXCEPT !.pc = "result"] /\ child' = child
    <3>1. ToolShape' /\ tool'.pc = "result" /\ ~ tool'.looked
      BY <1>4, <1>l, <1>s, <2>2 DEF ToolShape, SendSource, Waiting
    <3> QED  BY <2>2, <3>1, GoingOn
  <2> QED  BY <1>4, <2>1, <2>2 DEF SendSource
<1>5. CASE SendFrameBegin
  <2>1. child' = child
    BY <1>5 DEF SendFrameBegin
  <2>2. CASE tool' = [tool EXCEPT !.pc = "done"]
    <3>1. ToolShape' /\ tool'.pc = "done" /\ ~ tool'.looked
      BY <1>5, <1>l, <1>s, <2>2 DEF ToolShape, SendFrameBegin, Waiting
    <3> QED  BY <2>1, <3>1, GoingOn
  <2>3. CASE tool' = [tool EXCEPT !.pc = "shutdown", !.exit = Failed(@, kWorkerDeath)]
    <3>1. ToolShape' /\ tool'.pc = "shutdown" /\ ~ tool'.looked
      BY <1>5, <1>l, <1>s, <2>3 DEF ToolShape, SendFrameBegin, Waiting
    <3> QED  BY <2>1, <3>1, GoingOn
  <2> QED  BY <1>5, <2>2, <2>3 DEF SendFrameBegin
<1>6. CASE TimesOut \/ Disconnects
  BY <1>6, GivingUp DEF TimesOut, Disconnects, Looking
<1>7. CASE FindsNothing
  <2>1. tool' = [tool EXCEPT !.looked = TRUE] /\ child' = child /\ Waiting
    BY <1>7 DEF FindsNothing, Looking
  <2>2. ToolShape' /\ tool'.pc = tool.pc
    BY <1>s, <2>1 DEF ToolShape
  <2> QED  BY <2>1, <2>2, GoingOn DEF Waiting
<1>8. CASE LooksAtWorker
  <2>1. CASE child = "running"
    <3>1. tool' = [tool EXCEPT !.looked = FALSE] /\ child' = child /\ tool.looked
      BY <1>8, <2>1 DEF LooksAtWorker
    <3>2. ToolShape' /\ tool'.pc = tool.pc /\ ~ tool'.looked
      BY <1>s, <3>1 DEF ToolShape
    <3> QED  BY <2>1, <3>1, <3>2 DEF ChildInv, WorkerGone
  <2>2. CASE child # "running" /\ tool.pc = "done"
    <3>1. tool' = [tool EXCEPT !.pc = "shutdown", !.looked = FALSE,
                               !.exit = Failed(@, kWorkerDeath)]
      BY <1>8, <2>2 DEF LooksAtWorker
    <3>2. ToolShape' /\ tool'.pc = "shutdown" /\ ~ tool'.looked
      BY <1>s, <3>1 DEF ToolShape
    <3> QED  BY <3>2 DEF ChildInv, WorkerGone
  <2>3. CASE child # "running" /\ tool.pc # "done"
    BY <1>8, <1>s, <2>3, KillEnds DEF LooksAtWorker, KillAndEnd
  <2> QED  BY <2>1, <2>2, <2>3
<1>9. CASE RecvAnnounce \/ RecvCompileBusy
  <2>1. UNCHANGED <<tool, child>>
    BY <1>9 DEF RecvAnnounce, RecvCompileBusy
  <2> QED  BY <2>1 DEF ChildInv, WorkerGone, ToolShape, Waiting
<1>10. CASE RecvHelloAck
  <2>1. CASE KillAndEnd(kSpawnFail)
    BY <1>s, <2>1, KillEnds
  <2>2. CASE tool' = [tool EXCEPT !.pc = "compile"] /\ child' = child
    <3>1. ToolShape' /\ tool'.pc = "compile" /\ ~ tool'.looked
      BY <1>10, <1>s, <2>2 DEF ToolShape, RecvHelloAck, Receiving, Looking
    <3> QED  BY <2>2, <3>1, GoingOn
  <2> QED  BY <1>10, <2>1, <2>2 DEF RecvHelloAck
<1>11. CASE RecvCompileResult
  <2> DEFINE pc == IF tool.source + 1 = Sources THEN "frame" ELSE "compile"
             n == tool.source + 1
             exit == IF Clean(Head(toTool).outcome) THEN tool.exit
                     ELSE Failed(tool.exit, kCompileFail)
  <2>1. /\ tool' = [tool EXCEPT !.pc = pc, !.source = n, !.exit = exit] /\ child' = child
        /\ ~ tool.looked
    BY <1>11 DEF RecvCompileResult, Receiving, Looking
  <2>2. pc \in {"frame", "compile"}
    OBVIOUS
  <2> HIDE DEF pc, n, exit
  <2>3. ToolShape' /\ tool'.pc = pc /\ ~ tool'.looked
    BY <1>s, <2>1 DEF ToolShape
  <2> QED  BY <2>1, <2>2, <2>3, GoingOn
<1>12. CASE RecvFrameDone
  <2> DEFINE pc == IF tool.frame + 1 = Frames THEN "shutdown" ELSE "frame"
             n == tool.frame + 1
             exit == IF Head(toTool).threw THEN Failed(tool.exit, kRenderException)
                     ELSE tool.exit
  <2>1. /\ tool' = [tool EXCEPT !.pc = pc, !.frame = n, !.exit = exit] /\ child' = child
        /\ ~ tool.looked
    BY <1>12 DEF RecvFrameDone, Receiving, Looking
  <2>2. pc \in {"shutdown", "frame"}
    OBVIOUS
  <2> HIDE DEF pc, n, exit
  <2>3. ToolShape' /\ tool'.pc = pc /\ ~ tool'.looked
    BY <1>s, <2>1 DEF ToolShape
  <2> QED  BY <2>1, <2>2, <2>3, GoingOn
<1>13. CASE SendShutdown
  <2>1. tool' = [tool EXCEPT !.pc = "reap"] /\ child' = child /\ ~ Waiting
    BY <1>13 DEF SendShutdown, Waiting
  <2>2. ToolShape' /\ tool'.pc = "reap" /\ ~ tool'.looked
    BY <1>l, <1>s, <2>1 DEF ToolShape
  <2> QED  BY <2>1, <2>2, GoingOn
<1>14. CASE ReapOrKill
  BY <1>14, <1>s, KillEnds DEF ReapOrKill, KillAndEnd, SettlesWorker
<1>15. CASE OnAlarm
  <2>1. /\ tool' = [tool EXCEPT !.pc = "end", !.exit = kTimeout, !.looked = FALSE]
        /\ child' # "running"
    BY <1>15 DEF OnAlarm, Ended
  <2>2. ToolShape' /\ ~ tool'.looked /\ tool'.pc = "end"
    BY <1>s, <2>1 DEF ToolShape
  <2> QED  BY <2>1, <2>2 DEF ChildInv, WorkerGone
<1>16. CASE Late \/ UNCHANGED vars
  <2>1. UNCHANGED <<tool, child>>
    BY <1>16 DEF Late, vars
  <2> QED  BY <2>1 DEF ChildInv, WorkerGone, ToolShape, Waiting
<1>17. CASE Work \/ Write \/ Fork \/ HeirExits \/ ReaderFails \/ Crash
  <2>1. tool' = tool /\ child = "running"
    BY <1>17 DEF Work, TakeHello, TakeSource, EndCompile, Restore, ReaderStep, ReaderFails, Join,
         SendResult, TakeFrame, TakeRelease, IOShutdown, Quit, Write, Fork, HeirExits,
         Crash, Taking, Compiling, CompileStep, CaptureStep, InCompile, toolVars
  <2>2. child' \in {"running", "zombie"}
    BY <1>17, <2>1 DEF Work, TakeHello, TakeSource, EndCompile, Restore, ReaderStep, ReaderFails, Join,
         SendResult, TakeFrame, TakeRelease, IOShutdown, Quit, Write, Fork, HeirExits,
         Crash, CompileStep, CaptureStep, InCompile
  <2> QED  BY <2>1, <2>2, WorkerSteps
<1> QED
  BY <1>1, <1>2, <1>3, <1>4, <1>5, <1>6, <1>7, <1>8, <1>9, <1>10, <1>11, <1>12, <1>13,
     <1>14, <1>15, <1>16, <1>17
  DEF Next, Tool

(* No worker outlives the tool, on any of its ways out (snap_main.cpp:     *)
(* 80-90, 436-642).                                                        *)
THEOREM NoWorkerLeft == Spec => []WorkerGone
<1>1. ChildInv => WorkerGone
  BY DEF ChildInv
<1> QED  BY <1>1, ChildInit, ChildNext, PTL DEF Spec

-----------------------------------------------------------------------------

Of(q, T) == \A i \in DOMAIN q : q[i].type \in T

(* What is under way while the tool waits for a compile: the request, the  *)
(* compile, or its answer, unless that was too large.                      *)
CompileAsked ==
  toWorker = <<SetSource(tool.source + 1)>> /\ toTool = <<>> /\ work.at = "idle"
CompileRuns ==
  /\ toWorker = <<>> /\ Of(toTool, {"CompileBusy"})
  /\ work.at \in {"compile", "restore", "join", "answer"}
CompileAnswered ==
  /\ toWorker = <<>> /\ work.at = "idle"
  /\ \A i \in DOMAIN toTool :
       toTool[i].type \in {"CompileBusy"} \cup (IF i = Len(toTool) THEN {"CompileResult"} ELSE {})

(* And while it waits for a frame: releases and the request, or announces  *)
(* and the answer, unless that was too large.                              *)
FrameAsked ==
  /\ toTool = <<>> /\ toWorker # <<>>
  /\ \A i \in DOMAIN toWorker :
       toWorker[i].type = IF i = Len(toWorker) THEN "FrameBegin" ELSE "BufferRelease"
FrameAnswered ==
  /\ toWorker = <<>>
  /\ \A i \in DOMAIN toTool :
       toTool[i].type \in {"TextureAnnounce"} \cup (IF i = Len(toTool) THEN {"FrameDone"} ELSE {})

(* What the queues and the work thread hold at each place of main.         *)
PhaseInv ==
  /\ child = "none" => tool.pc \in {"spawn", "end"}
  /\ io = "returned" => tool.pc \in {"reap", "end"}
  /\ tool.pc \in {"spawn", "hello", "ack"} => tool.source = 0
  /\ tool.pc \in {"spawn", "hello", "ack", "compile", "result"} => tool.frame = 0
  /\ tool.pc \in {"spawn", "hello"} =>
       toWorker = <<>> /\ toTool = <<>> /\ work.at = "hello"
  /\ tool.pc = "ack" =>
       \/ toWorker = <<Msg("Hello")>> /\ toTool = <<>> /\ work.at = "hello"
       \/ /\ toWorker = <<>> /\ Len(toTool) = 1 /\ toTool[1].type = "HelloAck"
          /\ child = "running" => work.at = "idle"
  /\ tool.pc = "compile" =>
       /\ tool.source < Sources /\ toWorker = <<>> /\ toTool = <<>>
       /\ child = "running" => work.at = "idle"
  /\ tool.pc = "result" =>
       tool.source < Sources /\ (CompileAsked \/ CompileRuns \/ CompileAnswered)
  /\ tool.pc \in {"frame", "done", "shutdown", "reap"} =>
       tool.source = Sources /\ work.at = "idle"
  /\ tool.pc = "frame" => tool.frame < Frames /\ toTool = <<>> /\ Of(toWorker, {"BufferRelease"})
  /\ tool.pc = "done" => tool.frame < Frames /\ (FrameAsked \/ FrameAnswered)
  /\ tool.pc = "shutdown" => Of(toWorker, {"BufferRelease", "FrameBegin"})
  /\ tool.pc = "reap" => Of(toWorker, {"BufferRelease", "FrameBegin", "Shutdown"})

(* What the exit code owes to whom.                                        *)
CauseInv ==
  /\ tool.exit = kSpawnFail => hist.troubles \cap {"fork", "gl"} # {}
  /\ tool.exit = kCompileFail => "source" \in hist.troubles
  /\ tool.exit = kRenderException => "render" \in hist.troubles
  /\ tool.exit = kWorkerDeath => hist.troubles \cap {"death", "size"} # {}
  /\ tool.exit = kTimeout => late
  /\ child \in {"zombie", "reaped"} => "death" \in hist.troubles \/ tool.pc \in {"reap", "end"}
  /\ \A i \in DOMAIN toTool :
       /\ toTool[i].type = "HelloAck" /\ ~ toTool[i].shm => "gl" \in hist.troubles
       /\ toTool[i].type = "CompileResult" /\ toTool[i].outcome # "clean" => "source" \in hist.troubles
       /\ toTool[i].type = "FrameDone" /\ toTool[i].threw => "render" \in hist.troubles

(* What an exit code of 0 owes: every source answered so far was clean,    *)
(* and in the end every frame has been answered.                           *)
Unanswered ==
  \/ tool.pc \in {"spawn", "hello", "ack", "compile"}
  \/ tool.pc = "result" /\ (toWorker # <<>> \/ work.at # "idle")
HonestInv ==
  /\ Unanswered => hist.clean <= tool.source
  /\ tool.pc = "result" => hist.clean <= tool.source + 1
  /\ tool.exit = kOk =>
       /\ Unanswered => hist.clean = tool.source
       /\ tool.pc = "result" =>
            \A i \in DOMAIN toTool :
              toTool[i].type = "CompileResult" /\ toTool[i].outcome = "clean"
                => hist.clean = tool.source + 1
       /\ tool.pc \in {"frame", "done", "shutdown", "reap", "end"} => hist.clean = Sources
       /\ tool.pc \in {"shutdown", "reap", "end"} => tool.frame = Frames
       /\ tool.pc \in {"shutdown", "reap"} =>
            \A i \in DOMAIN toWorker : toWorker[i].type # "FrameBegin"

(* With an exit code of 0, a trouble that has another code is one the tool *)
(* is about to read of, if its message has not been lost.                  *)
GlUntold ==
  /\ tool.pc = "ack" /\ toWorker = <<>>
  /\ \A i \in DOMAIN toTool : toTool[i].type = "HelloAck" => ~ toTool[i].shm
SourceUntold ==
  /\ tool.pc = "result" /\ toWorker = <<>> /\ work.at = "idle"
  /\ \A i \in DOMAIN toTool : toTool[i].type = "CompileResult" => toTool[i].outcome # "clean"
RenderUntold ==
  /\ tool.pc = "done" /\ toWorker = <<>>
  /\ \A i \in DOMAIN toTool : toTool[i].type = "FrameDone" => toTool[i].threw
ToldInv ==
  tool.exit = kOk =>
    /\ "fork" \notin hist.troubles /\ "size" \notin hist.troubles
    /\ "gl" \in hist.troubles => GlUntold
    /\ "source" \in hist.troubles => SourceUntold
    /\ "render" \in hist.troubles => RenderUntold
Coded == {"fork", "gl", "source", "render", "size"}

(* Where a buffer is that is not free: in a release on the way, or in an   *)
(* answer that has not been read.                                          *)
Returned(q, s, b) == \E i \in DOMAIN q : q[i] = Release(s, b)
ReturnedBefore(q, n, s, b) == \E i \in DOMAIN q : i < n /\ q[i] = Release(s, b)
Delivered(q, s, b) ==
  \E i \in DOMAIN q : q[i].type = "FrameDone" /\ [slide |-> s, buffer |-> b] \in q[i].results
FramesLast ==
  \A n \in DOMAIN toWorker : toWorker[n].type = "FrameBegin" =>
    /\ \A i \in DOMAIN toWorker : i < n => toWorker[i].type = "BufferRelease"
    /\ \A s \in Slides : \A b \in rings[s].busy :
         <<s, b>> \in hist.lost \/ ReturnedBefore(toWorker, n, s, b)
(* An answer that was too large takes its buffers with it, and no frame    *)
(* follows it.                                                             *)
FrameToCome ==
  /\ tool.pc \notin {"shutdown", "reap", "end"}
  /\ tool.pc = "done" =>
       toWorker # <<>> \/ \E i \in DOMAIN toTool : toTool[i].type = "FrameDone"
BusyAccounted ==
  child = "running" /\ FrameToCome =>
    \A s \in Slides : \A b \in rings[s].busy :
      <<s, b>> \in hist.lost \/ Returned(toWorker, s, b) \/ Delivered(toTool, s, b)
StarveInv ==
  /\ \A i \in DOMAIN toTool :
       toTool[i].type = "TextureAnnounce" => <<toTool[i].slide, toTool[i].buffer>> \in made
  /\ tool.pc = "spawn" => \A s \in Slides : rings[s].busy = {}
  /\ FramesLast /\ BusyAccounted

Tools ==
  [pc : {"spawn", "hello", "ack", "compile", "result", "frame", "done", "shutdown", "reap", "end"},
   exit : kOk..kTimeout \ {1}, source : 0..Sources, frame : 0..Frames, looked : BOOLEAN]
Codes == kOk..kTimeout \ {1}
CausedBy(code) ==
  /\ code = kSpawnFail => hist'.troubles \cap {"fork", "gl"} # {}
  /\ code = kCompileFail => "source" \in hist'.troubles
  /\ code = kRenderException => "render" \in hist'.troubles
  /\ code = kWorkerDeath => hist'.troubles \cap {"death", "size"} # {}
  /\ code = kTimeout => late'

TypeInv == TypeOK /\ toWorker \in Seq(Messages) /\ toTool \in Seq(Messages)

-----------------------------------------------------------------------------
(* The messages. *)
LEMMA MessageFields ==
  ASSUME NEW m \in Messages
  PROVE  /\ m.type = "HelloAck" => m.shm \in BOOLEAN
         /\ m.type = "CompileResult" => m.outcome \in Outcomes
         /\ m.type = "SetSource" => m.source \in 1..Sources
         /\ m.type \in {"TextureAnnounce", "BufferRelease"} => m.slide \in Slides /\ m.buffer \in Buffers
         /\ m.type = "FrameDone" =>
              m.threw \in BOOLEAN /\ m.results \in SUBSET [slide : Slides, buffer : Buffers]
BY DEF Messages

(* Every constructor makes a message. *)
LEMMA MessagesMade ==
  /\ Msg("Hello") \in Messages /\ Msg("CompileBusy") \in Messages
  /\ Msg("FrameBegin") \in Messages /\ Msg("Shutdown") \in Messages
  /\ \A shm \in BOOLEAN : HelloAck(shm) \in Messages
  /\ \A o \in Outcomes : CompileResult(o) \in Messages
  /\ \A n \in 1..Sources : SetSource(n) \in Messages
  /\ \A s \in Slides, b \in Buffers : Announce(s, b) \in Messages /\ Release(s, b) \in Messages
  /\ \A R \in SUBSET [slide : Slides, buffer : Buffers], threw \in BOOLEAN :
       FrameDone(R, threw) \in Messages
<1>1. /\ Msg("Hello") \in Messages /\ Msg("CompileBusy") \in Messages
      /\ Msg("FrameBegin") \in Messages /\ Msg("Shutdown") \in Messages
  BY DEF Messages, Msg
<1>2. \A shm \in BOOLEAN : HelloAck(shm) \in Messages
  BY DEF Messages, HelloAck
<1>3. \A o \in Outcomes : CompileResult(o) \in Messages
  BY DEF Messages, CompileResult
<1>4. \A n \in 1..Sources : SetSource(n) \in Messages
  BY DEF Messages, SetSource
<1>5. \A s \in Slides, b \in Buffers : Announce(s, b) \in Messages /\ Release(s, b) \in Messages
  BY DEF Messages, Announce, Release
<1>6. \A R \in SUBSET [slide : Slides, buffer : Buffers], threw \in BOOLEAN :
        FrameDone(R, threw) \in Messages
  BY DEF Messages, FrameDone
<1> QED  BY <1>1, <1>2, <1>3, <1>4, <1>5, <1>6

(* An empty queue holds no release and no answer. *)
LEMMA NoneQueued == \A s, b : ~ Returned(<<>>, s, b) /\ ~ Delivered(<<>>, s, b)
<1>1. DOMAIN <<>> = {}
  OBVIOUS
<1> QED  BY <1>1, Zenon DEF Returned, Delivered

(* The rest of a queue, and a queue with one message more. *)
LEMMA TailOf ==
  ASSUME NEW M, NEW q \in Seq(M), q # <<>>
  PROVE  /\ Tail(q) \in Seq(M) /\ Head(q) \in M /\ Head(q) = q[1] /\ 1 \in DOMAIN q
         /\ Len(q) \in Nat \ {0} /\ DOMAIN q = 1..Len(q)
         /\ Len(Tail(q)) = Len(q) - 1 /\ DOMAIN Tail(q) = 1..(Len(q) - 1)
         /\ \A i \in 1..(Len(q) - 1) : Tail(q)[i] = q[i + 1] /\ i + 1 \in DOMAIN q
OBVIOUS

LEMMA AppendOf ==
  ASSUME NEW M, NEW q \in Seq(M), NEW m \in M
  PROVE  /\ Append(q, m) \in Seq(M) /\ Len(q) \in Nat
         /\ Len(Append(q, m)) = Len(q) + 1
         /\ DOMAIN q = 1..Len(q) /\ DOMAIN Append(q, m) = 1..(Len(q) + 1)
         /\ \A i \in 1..Len(q) : Append(q, m)[i] = q[i]
         /\ Append(q, m)[Len(q) + 1] = m
OBVIOUS

LEMMA OneAfterTheOther ==
  ASSUME NEW q \in Seq(Messages), NEW p \in Seq(Messages)
  PROVE  /\ q \o p \in Seq(Messages) /\ Len(q \o p) = Len(q) + Len(p)
         /\ \A i \in DOMAIN (q \o p) : \/ i \in DOMAIN q /\ (q \o p)[i] = q[i]
                                     \/ \E j \in DOMAIN p : i = Len(q) + j /\ (q \o p)[i] = p[j]
         /\ \A j \in DOMAIN p : Len(q) + j \in DOMAIN (q \o p) /\ (q \o p)[Len(q) + j] = p[j]
<1>1. PICK a \in Nat : a = Len(q)
  OBVIOUS
<1>2. PICK c \in Nat : c = Len(p)
  OBVIOUS
<1>3. /\ q \o p \in Seq(Messages) /\ Len(q \o p) = a + c
      /\ DOMAIN (q \o p) = 1..(a + c) /\ DOMAIN q = 1..a /\ DOMAIN p = 1..c
      /\ \A i \in 1..a : (q \o p)[i] = q[i]
      /\ \A i \in 1..(a + c) : i > a => (q \o p)[i] = p[i - a]
  BY <1>1, <1>2
<1>4. ASSUME NEW i \in 1..(a + c), i \notin 1..a
      PROVE  \E j \in 1..c : i = a + j /\ (q \o p)[i] = p[j]
  <2>1. i - a \in 1..c /\ i = a + (i - a) /\ i > a
    BY <1>4
  <2> QED  BY <1>3, <2>1
<1>5. ASSUME NEW j \in 1..c
      PROVE  a + j \in 1..(a + c) /\ (q \o p)[a + j] = p[j]
  <2>1. a + j \in 1..(a + c) /\ a + j > a /\ (a + j) - a = j
    OBVIOUS
  <2> QED  BY <1>3, <2>1
<1> QED  BY <1>1, <1>2, <1>3, <1>4, <1>5

(* Nothing changes but what a look at the socket or the clock leaves. *)
LEMMA StandingStill ==
  ASSUME TypeInv, PhaseInv, CauseInv, HonestInv, StarveInv,
         tool' \in {tool, [tool EXCEPT !.looked = TRUE], [tool EXCEPT !.looked = FALSE]},
         late' \in {late, TRUE},
         UNCHANGED <<slots, child, workerVars, toWorker, toTool, hist>>
  PROVE  TypeInv' /\ PhaseInv' /\ CauseInv' /\ HonestInv' /\ StarveInv'
<1>1. /\ tool' \in [pc : {"spawn", "hello", "ack", "compile", "result", "frame", "done",
                     "shutdown", "reap", "end"},
                    exit : kOk..kTimeout \ {1}, source : 0..Sources, frame : 0..Frames,
                    looked : BOOLEAN]
      /\ tool'.pc = tool.pc /\ tool'.exit = tool.exit /\ tool'.source = tool.source
      /\ tool'.frame = tool.frame
  BY DEF TypeInv, TypeOK
<1>2. TypeInv'
  BY <1>1 DEF TypeInv, TypeOK, workerVars
<1>3. PhaseInv'
  BY <1>1 DEF PhaseInv, CompileAsked, CompileRuns, CompileAnswered, FrameAsked, FrameAnswered, Of, workerVars
<1>4. CauseInv'
  BY <1>1 DEF CauseInv, workerVars
<1>5. HonestInv'
  BY <1>1 DEF HonestInv, Unanswered, workerVars
<1>6. StarveInv'
  BY <1>1 DEF StarveInv, FramesLast, BusyAccounted, FrameToCome, workerVars
<1> QED  BY <1>2, <1>3, <1>4, <1>5, <1>6

(* The tool ends, its worker gone. *)
LEMMA Ending ==
  ASSUME TypeInv, PhaseInv, CauseInv, HonestInv, StarveInv,
         NEW code \in Codes, Ended(code), CausedBy(code),
         code = kOk => tool.pc = "reap" /\ tool.exit = kOk,
         child' \in {"none", "zombie", "reaped"},
         toTool' = toTool \/ (toTool # <<>> /\ toTool' = Tail(toTool)),
         UNCHANGED <<slots, workerVars, toWorker, late, hist.clean, hist.lost>>,
         hist' \in {[hist EXCEPT !.troubles = @ \cup {t}] : t \in {"fork", "size"}} \cup {hist}
  PROVE  TypeInv' /\ PhaseInv' /\ CauseInv' /\ HonestInv' /\ StarveInv'
<1>1. /\ tool' \in Tools /\ tool'.pc = "end" /\ tool'.exit = code /\ tool'.source = tool.source
      /\ tool'.frame = tool.frame
  BY DEF TypeInv, TypeOK, Tools, Ended, Codes
<1>2. hist.troubles \subseteq hist'.troubles /\ hist'.clean = hist.clean /\ hist'.lost = hist.lost
      /\ hist' \in [clean : 0..Sources, troubles : SUBSET Troubles, lost : SUBSET (Slides \X Buffers)]
  BY DEF TypeInv, TypeOK, Troubles
<1>3. toTool' \in Seq(Messages) /\ \A i \in DOMAIN toTool' : \E j \in DOMAIN toTool : toTool'[i] = toTool[j]
  <2>1. CASE toTool' = toTool
    BY <2>1 DEF TypeInv
  <2>2. CASE toTool # <<>> /\ toTool' = Tail(toTool)
    BY <2>2, TailOf DEF TypeInv
  <2> QED  BY <2>1, <2>2
<1>4. TypeInv'
  BY <1>1, <1>2, <1>3 DEF TypeInv, TypeOK, Tools, workerVars
<1>5. PhaseInv'
  BY <1>1 DEF PhaseInv
<1>6. CauseInv'
  BY <1>1, <1>2, <1>3 DEF CauseInv, CausedBy
<1>7. HonestInv'
  BY <1>1, <1>2 DEF HonestInv, Unanswered
<1>8. StarveInv'
  <2>1. child' # "running" /\ UNCHANGED <<made, rings, toWorker, hist.lost>>
    BY DEF workerVars
  <2>2. \A i \in DOMAIN toTool' :
          toTool'[i].type = "TextureAnnounce" => <<toTool'[i].slide, toTool'[i].buffer>> \in made'
    BY <1>3, <2>1 DEF StarveInv
  <2> QED  BY <1>1, <2>1, <2>2 DEF StarveInv, FramesLast, BusyAccounted
<1> QED  BY <1>4, <1>5, <1>6, <1>7, <1>8

(* A frame that was not answered leads to the shutdown. *)
LEMMA GivingUpFrames ==
  ASSUME TypeInv, PhaseInv, CauseInv, HonestInv, StarveInv,
         tool.pc \in {"frame", "done"},
         tool' \in Tools, tool'.pc = "shutdown", tool'.source = tool.source,
         tool'.frame = tool.frame, tool'.exit # kOk, CausedBy(tool'.exit),
         child' = child \/ (child # "running" /\ child' = "reaped"),
         UNCHANGED <<slots, workerVars, toWorker, toTool, late, hist>>
  PROVE  TypeInv' /\ PhaseInv' /\ CauseInv' /\ HonestInv' /\ StarveInv'
<1>1. child # "none"
  BY DEF PhaseInv
<1>2. TypeInv'
  BY DEF TypeInv, TypeOK, Tools, workerVars
<1>3. PhaseInv'
  <2>1. Of(toWorker, {"BufferRelease", "FrameBegin"})
    BY DEF PhaseInv, FrameAsked, FrameAnswered, Of
  <2>2. io # "returned" /\ tool.source = Sources /\ work.at = "idle"
    BY DEF PhaseInv
  <2> QED  BY <1>1, <2>1, <2>2 DEF PhaseInv, workerVars, Of
<1>4. CauseInv'
  BY <1>1 DEF CauseInv, CausedBy, TypeInv, TypeOK
<1>5. HonestInv'
  BY DEF HonestInv, Unanswered
<1>6. StarveInv'
  BY DEF StarveInv, FramesLast, BusyAccounted, FrameToCome, workerVars
<1> QED  BY <1>2, <1>3, <1>4, <1>5, <1>6

(* A step of the capture: the compile goes on, or a process of it writes on. *)
LEMMA CaptureGoesOn ==
  ASSUME TypeInv, PhaseInv, CauseInv, HonestInv, StarveInv, cap' \in Captures,
         \/ work' = work
         \/ /\ work.at \in {"compile", "restore", "join"}
            /\ \E at \in {"restore", "join", "answer"} : work' = [work EXCEPT !.at = at],
         UNCHANGED <<toolVars, child, io, content, rings, made, toWorker, toTool, hist>>
  PROVE  TypeInv' /\ PhaseInv' /\ CauseInv' /\ HonestInv' /\ StarveInv'
<1>1. /\ work' \in [at : {"hello", "idle", "compile", "restore", "join", "answer"},
                    source : 0..Sources, outcome : Outcomes]
      /\ \/ work'.at = work.at
         \/ /\ work.at \in {"compile", "restore", "join"}
            /\ work'.at \in {"restore", "join", "answer"}
  BY DEF TypeInv, TypeOK
<1>2. TypeInv'
  BY <1>1 DEF TypeInv, TypeOK, toolVars
<1>3. PhaseInv'
  BY <1>1 DEF PhaseInv, CompileAsked, CompileRuns, CompileAnswered, FrameAsked,
              FrameAnswered, Of, toolVars
<1>4. CauseInv'
  BY DEF CauseInv, toolVars
<1>5. HonestInv'
  BY <1>1 DEF HonestInv, Unanswered, toolVars
<1>6. StarveInv'
  BY DEF StarveInv, FramesLast, BusyAccounted, FrameToCome, toolVars
<1> QED  BY <1>2, <1>3, <1>4, <1>5, <1>6

SnapInv == TypeInv /\ PhaseInv /\ CauseInv /\ HonestInv /\ StarveInv

(* A step of the tool keeps the types if main's place and the queues are right. *)
LEMMA TypesKept ==
  ASSUME TypeInv, tool' \in Tools, toWorker' \in Seq(Messages), toTool' \in Seq(Messages),
         child' \in {"none", "running", "zombie", "reaped"},
         slots' \subseteq made, UNCHANGED <<workerVars, late, hist>>
  PROVE  TypeInv'
<1>1. /\ \A i \in DOMAIN toWorker' : toWorker'[i] \in Messages
      /\ \A i \in DOMAIN toTool' : toTool'[i] \in Messages
  OBVIOUS
<1> QED  BY <1>1 DEF TypeInv, TypeOK, Tools, workerVars

(* One message that is neither a frame nor a release does not matter to the ring. *)
LEMMA OneMessage ==
  ASSUME StarveInv, toWorker = <<>>, toTool = <<>>, NEW m, toWorker' = <<m>>,
         m.type # "FrameBegin", tool'.pc # "spawn", child = "running",
         tool.pc \in {"hello", "compile"},
         UNCHANGED <<workerVars, toTool, hist>>
  PROVE  StarveInv'
<1>1. \A s \in Slides : \A b \in rings[s].busy : <<s, b>> \in hist.lost
  BY NoneQueued DEF StarveInv, BusyAccounted, FrameToCome
<1>2. \A i \in DOMAIN toWorker' : toWorker'[i] = m
  OBVIOUS
<1>3. FramesLast'
  BY <1>2 DEF FramesLast
<1>4. BusyAccounted'
  BY <1>1 DEF BusyAccounted, workerVars
<1> QED  BY <1>3, <1>4 DEF StarveInv, workerVars

(* main and the functions it calls, one place after another. *)
LEMMA SpawnKeeps == SnapInv /\ SpawnWorker => SnapInv'
<1> SUFFICES ASSUME TypeInv, PhaseInv, CauseInv, HonestInv, StarveInv, SpawnWorker PROVE SnapInv'
  BY DEF SnapInv
<1>1. /\ tool' \in Tools /\ tool.pc = "spawn" /\ tool'.pc = "hello" /\ tool'.exit = tool.exit
      /\ tool'.source = tool.source /\ tool'.frame = tool.frame
  BY DEF TypeInv, TypeOK, Tools, SpawnWorker
<1>2. UNCHANGED <<slots, workerVars, toWorker, toTool, late, hist>> /\ child' = "running"
  BY DEF SpawnWorker
<1>3. TypeInv'
  BY <1>1, <1>2 DEF TypeInv, TypeOK, Tools, workerVars
<1>4. PhaseInv'
  BY <1>1, <1>2 DEF PhaseInv, workerVars
<1>5. CauseInv'
  BY <1>1, <1>2 DEF CauseInv
<1>6. HonestInv'
  BY <1>1, <1>2 DEF HonestInv, Unanswered, workerVars
<1>7. StarveInv'
  BY <1>1, <1>2 DEF StarveInv, FramesLast, BusyAccounted, workerVars
<1> QED  BY <1>3, <1>4, <1>5, <1>6, <1>7 DEF SnapInv

LEMMA HelloKeeps ==
  ASSUME SnapInv, SendHello, child = "running"
  PROVE  SnapInv'
<1> USE DEF SnapInv
<1>1. /\ tool' \in Tools /\ tool.pc = "hello" /\ tool'.pc = "ack" /\ tool'.exit = tool.exit
      /\ tool'.source = tool.source /\ tool'.frame = tool.frame
  BY DEF TypeInv, TypeOK, Tools, SendHello
<1>2. UNCHANGED <<slots, workerVars, child, toTool, late, hist>>
  BY DEF SendHello
<1>3. toWorker = <<>> /\ toWorker' = <<Msg("Hello")>> /\ toTool = <<>> /\ work.at = "hello"
  BY <1>1 DEF SendHello, Send, PhaseInv
<1>4. toWorker' \in Seq(Messages) /\ Msg("Hello").type = "Hello"
  BY <1>3, MessagesMade DEF Msg
<1>5. TypeInv'
  <2>1. slots \subseteq made /\ toTool \in Seq(Messages)
    BY DEF TypeInv, TypeOK
  <2> QED  BY <1>1, <1>2, <1>4, <2>1, TypesKept
<1>6. PhaseInv'
  BY <1>1, <1>2, <1>3 DEF PhaseInv, workerVars
<1>7. CauseInv'
  BY <1>1, <1>2 DEF CauseInv
<1>8. HonestInv'
  BY <1>1, <1>2 DEF HonestInv, Unanswered, workerVars
<1>9. StarveInv'
  BY <1>1, <1>2, <1>3, <1>4, OneMessage
<1> QED  BY <1>5, <1>6, <1>7, <1>8, <1>9

LEMMA SourceKeeps ==
  ASSUME SnapInv, tool.pc = "compile", child = "running",
         tool' = [tool EXCEPT !.pc = "result"], Send(SetSource(tool.source + 1)),
         UNCHANGED <<slots, workerVars, child, toTool, late, hist>>
  PROVE  SnapInv'
<1> USE DEF SnapInv
<1>1. /\ tool' \in Tools /\ tool'.pc = "result" /\ tool'.exit = tool.exit
      /\ tool'.source = tool.source /\ tool'.frame = tool.frame
  BY DEF TypeInv, TypeOK, Tools
<1>2. tool.source + 1 \in 1..Sources
  BY SnapAssumption DEF TypeInv, TypeOK, PhaseInv
<1>3. /\ toWorker = <<>> /\ toWorker' = <<SetSource(tool.source + 1)>> /\ toTool = <<>>
      /\ work.at = "idle"
  BY DEF PhaseInv, Send
<1>4. toWorker' \in Seq(Messages) /\ SetSource(tool.source + 1).type = "SetSource"
  BY <1>2, <1>3, MessagesMade DEF SetSource
<1>5. TypeInv'
  <2>1. slots \subseteq made /\ toTool \in Seq(Messages)
    BY DEF TypeInv, TypeOK
  <2> QED  BY <1>1, <1>4, <2>1, TypesKept
<1>6. PhaseInv'
  BY <1>1, <1>3 DEF PhaseInv, CompileAsked, workerVars
<1>7. CauseInv'
  BY <1>1 DEF CauseInv
<1>8. HonestInv'
  BY <1>1, <1>3 DEF HonestInv, Unanswered, workerVars, TypeInv, TypeOK
<1>9. StarveInv'
  BY <1>1, <1>3, <1>4, OneMessage
<1> QED  BY <1>5, <1>6, <1>7, <1>8, <1>9

LEMMA FrameKeeps ==
  ASSUME SnapInv, tool.pc = "frame", child = "running",
         tool' = [tool EXCEPT !.pc = "done"], Send(Msg("FrameBegin")),
         UNCHANGED <<slots, workerVars, child, toTool, late, hist>>
  PROVE  SnapInv'
<1> USE DEF SnapInv
<1>1. /\ tool' \in Tools /\ tool'.pc = "done" /\ tool'.exit = tool.exit
      /\ tool'.source = tool.source /\ tool'.frame = tool.frame
  BY DEF TypeInv, TypeOK, Tools
<1>n. PICK n : n = Len(toWorker)
  OBVIOUS
<1>2. /\ toWorker' \in Seq(Messages) /\ n \in Nat /\ Len(toWorker') = n + 1
      /\ DOMAIN toWorker = 1..n /\ DOMAIN toWorker' = 1..(n + 1)
      /\ \A i \in 1..n : toWorker'[i] = toWorker[i]
      /\ toWorker'[n + 1] = Msg("FrameBegin")
  BY <1>n, AppendOf, MessagesMade DEF TypeInv, Send
<1>3. toTool = <<>> /\ \A i \in 1..n : toWorker[i].type = "BufferRelease"
  BY <1>2 DEF PhaseInv, Of
<1>4. Msg("FrameBegin").type = "FrameBegin" /\ \A s, b : Release(s, b).type = "BufferRelease"
  BY DEF Msg, Release
<1>5. TypeInv'
  BY <1>1, <1>2 DEF TypeInv, TypeOK, Tools, workerVars
<1>6. PhaseInv'
  <2>1. FrameAsked'
    BY <1>2, <1>3, <1>4 DEF FrameAsked
  <2> QED  BY <1>1, <2>1 DEF PhaseInv, workerVars
<1>7. CauseInv'
  BY <1>1 DEF CauseInv
<1>8. HonestInv'
  BY <1>1 DEF HonestInv, Unanswered, workerVars
<1>9. StarveInv'
  <2>1. \A s \in Slides : \A b \in rings[s].busy :
          <<s, b>> \in hist.lost \/ Returned(toWorker, s, b)
    BY <1>3, NoneQueued DEF StarveInv, BusyAccounted, FrameToCome
  <2>2. \A s, b : Returned(toWorker, s, b) =>
           ReturnedBefore(toWorker', n + 1, s, b) /\ Returned(toWorker', s, b)
    BY <1>2 DEF ReturnedBefore, Returned
  <2>3. FramesLast'
    <3>1. \A k \in DOMAIN toWorker' : toWorker'[k].type = "FrameBegin" => k = n + 1
      BY <1>2, <1>3
    <3>2. \A i \in DOMAIN toWorker' : i < n + 1 => toWorker'[i].type = "BufferRelease"
      BY <1>2, <1>3
    <3> QED  BY <2>1, <2>2, <3>1, <3>2 DEF FramesLast, workerVars
  <2>4. BusyAccounted'
    BY <2>1, <2>2 DEF BusyAccounted, workerVars
  <2> QED  BY <1>1, <2>3, <2>4 DEF StarveInv, workerVars
<1> QED  BY <1>5, <1>6, <1>7, <1>8, <1>9

-----------------------------------------------------------------------------
(* The messages of a finite set in some order. *)
LEMMA OrderOf ==
  ASSUME NEW S, IsFiniteSet(S), S \subseteq Messages
  PROVE  LET q == InSomeOrder(S)
         IN  /\ q \in Seq(Messages) /\ DOMAIN q = 1..Len(q) /\ Len(q) \in Nat
             /\ \A i \in DOMAIN q : q[i] \in S
             /\ \A m \in S : \E i \in DOMAIN q : q[i] = m
<1> DEFINE q == InSomeOrder(S)
<1>1. /\ q \in [1..Cardinality(S) -> S] /\ \A i, j \in DOMAIN q : i # j => q[i] # q[j]
      /\ Cardinality(S) \in Nat
  BY OrderExists, FS_CardinalityType DEF InSomeOrder
<1> HIDE DEF q
<1>2. q \in Seq(Messages) /\ DOMAIN q = 1..Len(q) /\ Len(q) \in Nat /\ \A i \in DOMAIN q : q[i] \in S
  <2>1. \A i \in 1..Cardinality(S) : q[i] \in Messages
    BY <1>1
  <2>2. q \in Seq(Messages)
    BY <1>1, <2>1
  <2> QED  BY <1>1, <2>2
<1>3. \A m \in S : \E i \in DOMAIN q : q[i] = m
  <2> DEFINE n == Cardinality(S)
  <2>1. DOMAIN q = 1..n /\ n \in Nat
    BY <1>1
  <2>2. q \in Injection(1..n, S)
    BY <1>1, <2>1 DEF Injection, IsInjective
  <2>3. IsFiniteSet(1..n) /\ Cardinality(1..n) = n
    BY <2>1, FS_Interval
  <2>4. q \in Surjection(1..n, S)
    BY <2>2, <2>3, FS_Injection
  <2> QED  BY <2>1, <2>4 DEF Surjection
<1> QED  BY <1>2, <1>3 DEF q

(* What one frame can acquire is finite, and so are its announces. *)
LEMMA PartsFinite ==
  /\ IsFiniteSet(Slides) /\ IsFiniteSet(Buffers)
  /\ \A R \in SUBSET [slide : Slides, buffer : Buffers] : IsFiniteSet(R)
<1>1. IsFiniteSet(Slides)
  <2>1. IsFiniteSet(1..Sources)
    BY SnapAssumption, FS_Interval
  <2> QED  BY <2>1, SnapAssumption, FS_Subset
<1>2. IsFiniteSet(Buffers)
  <2>1. 0 \in Int /\ KBuffers - 1 \in Int
    BY KBuffersAssumption
  <2> QED  BY <2>1, FS_Interval DEF Buffers
<1>3. IsFiniteSet([slide : Slides, buffer : Buffers])
  <2> DEFINE f == [x \in Slides \X Buffers |-> [slide |-> x[1], buffer |-> x[2]]]
  <2>1. IsFiniteSet(DOMAIN f)
    BY <1>1, <1>2, FS_Product
  <2>2. IsFiniteSet({f[x] : x \in DOMAIN f})
    <3> HIDE DEF f
    <3> QED  BY <2>1, ImageIsFinite
  <2>3. [slide : Slides, buffer : Buffers] \subseteq {f[x] : x \in DOMAIN f}
    <3> SUFFICES ASSUME NEW r \in [slide : Slides, buffer : Buffers]
                 PROVE  r \in {f[x] : x \in DOMAIN f}
      OBVIOUS
    <3>1. <<r.slide, r.buffer>> \in Slides \X Buffers
      OBVIOUS
    <3>2. r = [slide |-> r.slide, buffer |-> r.buffer]
      OBVIOUS
    <3>3. f[<<r.slide, r.buffer>>] = r
      BY <3>1, <3>2
    <3> QED  BY <3>1, <3>3
  <2> QED  BY <2>2, <2>3, FS_Subset
<1>4. \A R \in SUBSET [slide : Slides, buffer : Buffers] : IsFiniteSet(R)
  BY <1>3, FS_Subset
<1> QED  BY <1>1, <1>2, <1>4

(* What a message read leaves behind it. *)
LEMMA Reading ==
  ASSUME SnapInv, toTool # <<>>, toTool' = Tail(toTool)
  PROVE  /\ toTool' \in Seq(Messages) /\ Head(toTool) \in Messages
         /\ Head(toTool) = toTool[1] /\ 1 \in DOMAIN toTool /\ DOMAIN toTool = 1..Len(toTool)
         /\ Len(toTool) \in Nat \ {0} /\ Len(toTool') = Len(toTool) - 1
         /\ DOMAIN toTool' = 1..(Len(toTool) - 1)
         /\ \A i \in DOMAIN toTool' : toTool'[i] = toTool[i + 1] /\ i + 1 \in DOMAIN toTool
         /\ Head(toTool).type # "FrameDone" =>
              \A s, b : Delivered(toTool, s, b) => Delivered(toTool', s, b)
<1>1. toTool \in Seq(Messages)
  BY DEF SnapInv, TypeInv
<1>2. /\ toTool' \in Seq(Messages) /\ Head(toTool) \in Messages
      /\ Head(toTool) = toTool[1] /\ 1 \in DOMAIN toTool /\ DOMAIN toTool = 1..Len(toTool)
      /\ Len(toTool) \in Nat \ {0} /\ Len(toTool') = Len(toTool) - 1
      /\ DOMAIN toTool' = 1..(Len(toTool) - 1)
      /\ \A i \in DOMAIN toTool' : toTool'[i] = toTool[i + 1] /\ i + 1 \in DOMAIN toTool
  BY <1>1, TailOf
<1>3. ASSUME Head(toTool).type # "FrameDone", NEW s, NEW b, Delivered(toTool, s, b)
      PROVE  Delivered(toTool', s, b)
  <2>1. PICK i \in DOMAIN toTool : /\ toTool[i].type = "FrameDone"
                                  /\ [slide |-> s, buffer |-> b] \in toTool[i].results
    BY <1>3 DEF Delivered
  <2>2. i # 1
    BY <1>2, <1>3, <2>1
  <2>3. i - 1 \in DOMAIN toTool' /\ toTool'[i - 1] = toTool[i]
    BY <1>2, <2>2
  <2> QED  BY <2>1, <2>3 DEF Delivered
<1> QED  BY <1>2, <1>3

LEMMA AnnounceKeeps == SnapInv /\ RecvAnnounce => SnapInv'
<1> SUFFICES ASSUME SnapInv, RecvAnnounce PROVE SnapInv'
  OBVIOUS
<1>1. /\ toTool # <<>> /\ toTool' = Tail(toTool) /\ Head(toTool).type = "TextureAnnounce"
      /\ UNCHANGED <<tool, child, toWorker, workerVars, late, hist>> /\ Waiting
      /\ slots' \in {slots, slots \cup {<<Head(toTool).slide, Head(toTool).buffer>>}}
  BY DEF RecvAnnounce, Receiving, Looking
<1>2. /\ toTool' \in Seq(Messages) /\ Head(toTool) = toTool[1] /\ 1 \in DOMAIN toTool
      /\ DOMAIN toTool = 1..Len(toTool) /\ Len(toTool) \in Nat \ {0}
      /\ Len(toTool') = Len(toTool) - 1 /\ DOMAIN toTool' = 1..(Len(toTool) - 1)
      /\ \A i \in DOMAIN toTool' : toTool'[i] = toTool[i + 1] /\ i + 1 \in DOMAIN toTool
      /\ \A s, b : Delivered(toTool, s, b) => Delivered(toTool', s, b)
  BY <1>1, Reading
<1>3. tool.pc = "done" /\ FrameAnswered
  BY <1>1, <1>2 DEF SnapInv, PhaseInv, Waiting, CompileAsked, CompileRuns, CompileAnswered,
                    FrameAsked, Of
<1>5. TypeInv'
  <2>1. slots' \subseteq made /\ toWorker \in Seq(Messages) /\ tool \in Tools
        /\ child \in {"none", "running", "zombie", "reaped"}
    BY <1>1, <1>2 DEF SnapInv, StarveInv, TypeInv, TypeOK, Tools
  <2> QED  BY <1>1, <1>2, <2>1, TypesKept DEF SnapInv
<1>6. PhaseInv'
  <2>1. FrameAnswered'
    <3> SUFFICES ASSUME NEW i \in DOMAIN toTool'
                 PROVE  toTool'[i].type \in {"TextureAnnounce"} \cup
                          (IF i = Len(toTool') THEN {"FrameDone"} ELSE {})
      BY <1>1, <1>3 DEF FrameAnswered
    <3>1. toTool[i + 1].type \in {"TextureAnnounce"} \cup
            (IF i + 1 = Len(toTool) THEN {"FrameDone"} ELSE {})
      BY <1>2, <1>3 DEF FrameAnswered
    <3>2. (i + 1 = Len(toTool)) <=> (i = Len(toTool'))
      BY <1>2
    <3> QED  BY <1>2, <3>1, <3>2
  <2> QED  BY <1>1, <1>3, <2>1 DEF SnapInv, PhaseInv, workerVars
<1>7. CauseInv'
  BY <1>1, <1>2 DEF SnapInv, CauseInv
<1>8. HonestInv'
  BY <1>1, <1>3 DEF SnapInv, HonestInv, Unanswered, workerVars
<1>9. StarveInv'
  <2>1. FrameToCome' => FrameToCome
    BY <1>1, <1>2 DEF FrameToCome
  <2> QED  BY <1>1, <1>2, <2>1 DEF SnapInv, StarveInv, FramesLast, BusyAccounted, workerVars
<1> QED  BY <1>5, <1>6, <1>7, <1>8, <1>9 DEF SnapInv

LEMMA BusyKeeps == SnapInv /\ RecvCompileBusy => SnapInv'
<1> SUFFICES ASSUME SnapInv, RecvCompileBusy PROVE SnapInv'
  OBVIOUS
<1>1. /\ toTool # <<>> /\ toTool' = Tail(toTool) /\ Head(toTool).type = "CompileBusy"
      /\ UNCHANGED <<tool, slots, child, toWorker, workerVars, late, hist>> /\ Waiting
  BY DEF RecvCompileBusy, Receiving, Looking
<1>2. /\ toTool' \in Seq(Messages) /\ Head(toTool) = toTool[1] /\ 1 \in DOMAIN toTool
      /\ DOMAIN toTool = 1..Len(toTool) /\ Len(toTool) \in Nat \ {0}
      /\ Len(toTool') = Len(toTool) - 1 /\ DOMAIN toTool' = 1..(Len(toTool) - 1)
      /\ \A i \in DOMAIN toTool' : toTool'[i] = toTool[i + 1] /\ i + 1 \in DOMAIN toTool
      /\ \A s, b : Delivered(toTool, s, b) => Delivered(toTool', s, b)
  BY <1>1, Reading
<1>3. tool.pc = "result" /\ (CompileRuns \/ CompileAnswered)
  BY <1>1, <1>2 DEF SnapInv, PhaseInv, Waiting, CompileAsked, FrameAsked, FrameAnswered
<1>5. TypeInv'
  <2>1. slots' \subseteq made /\ toWorker \in Seq(Messages) /\ tool \in Tools
        /\ child \in {"none", "running", "zombie", "reaped"}
    BY <1>1, <1>2 DEF SnapInv, TypeInv, TypeOK, Tools
  <2> QED  BY <1>1, <1>2, <2>1, TypesKept DEF SnapInv
<1>6. PhaseInv'
  <2>1. CompileRuns => CompileRuns'
    BY <1>1, <1>2 DEF CompileRuns, Of, workerVars
  <2>2. CompileAnswered => CompileAnswered'
    <3> SUFFICES ASSUME CompileAnswered, NEW i \in DOMAIN toTool'
                 PROVE  toTool'[i].type \in {"CompileBusy"} \cup
                          (IF i = Len(toTool') THEN {"CompileResult"} ELSE {})
      BY <1>1 DEF CompileAnswered, workerVars
    <3>1. toTool[i + 1].type \in {"CompileBusy"} \cup
            (IF i + 1 = Len(toTool) THEN {"CompileResult"} ELSE {})
      BY <1>2 DEF CompileAnswered
    <3>2. (i + 1 = Len(toTool)) <=> (i = Len(toTool'))
      BY <1>2
    <3> QED  BY <1>2, <3>1, <3>2
  <2> QED  BY <1>1, <1>3, <2>1, <2>2 DEF SnapInv, PhaseInv, workerVars
<1>7. CauseInv'
  BY <1>1, <1>2 DEF SnapInv, CauseInv
<1>8. HonestInv'
  BY <1>1, <1>2, <1>3 DEF SnapInv, HonestInv, Unanswered, workerVars
<1>9. StarveInv'
  BY <1>1, <1>2, <1>3 DEF SnapInv, StarveInv, FramesLast, BusyAccounted, FrameToCome, workerVars
<1> QED  BY <1>5, <1>6, <1>7, <1>8, <1>9 DEF SnapInv

(* A read that took the only message. *)
LEMMA ReadLast ==
  ASSUME SnapInv, toTool # <<>>, toTool' = Tail(toTool), Len(toTool) = 1
  PROVE  toTool' = <<>> /\ DOMAIN toTool' = {}
<1>1. toTool \in Seq(Messages)
  BY DEF SnapInv, TypeInv
<1> QED  BY <1>1

LEMMA HelloAckKeeps == SnapInv /\ RecvHelloAck => SnapInv'
<1> SUFFICES ASSUME SnapInv, RecvHelloAck PROVE SnapInv'
  OBVIOUS
<1>1. /\ toTool # <<>> /\ toTool' = Tail(toTool) /\ Head(toTool).type = "HelloAck"
      /\ UNCHANGED <<slots, toWorker, workerVars, late, hist>> /\ tool.pc = "ack"
  BY DEF RecvHelloAck, Receiving, Looking
<1>2. Head(toTool) = toTool[1] /\ 1 \in DOMAIN toTool /\ Head(toTool) \in Messages
  BY <1>1, Reading
<1>3. /\ toWorker = <<>> /\ Len(toTool) = 1 /\ (child = "running" => work.at = "idle")
      /\ tool.source = 0
  BY <1>1 DEF SnapInv, PhaseInv
<1>4. toTool' = <<>> /\ DOMAIN toTool' = {}
  BY <1>1, <1>3, ReadLast
<1>5. CASE ~ Head(toTool).shm
  <2>1. Ended(kSpawnFail) /\ child' = "reaped"
    BY <1>5 DEF RecvHelloAck, KillAndEnd
  <2>2. CausedBy(kSpawnFail) /\ kSpawnFail \in Codes /\ kSpawnFail # kOk
    BY <1>1, <1>2, <1>5 DEF SnapInv, CauseInv, CausedBy, Codes, kOk, kSpawnFail, kCompileFail,
         kRenderException, kWorkerDeath, kTimeout
  <2>3. hist' = hist /\ UNCHANGED <<hist.clean, hist.lost>>
    BY <1>1
  <2> QED  BY <1>1, <2>1, <2>2, <2>3, Ending DEF SnapInv
<1>6. CASE Head(toTool).shm
  <2>1. /\ tool' \in Tools /\ tool'.pc = "compile" /\ tool'.exit = tool.exit
        /\ tool'.source = tool.source /\ tool'.frame = tool.frame /\ child' = child
    BY <1>6 DEF RecvHelloAck, SnapInv, TypeInv, TypeOK, Tools
  <2>2. TypeInv'
    <3>1. slots' \subseteq made /\ toWorker \in Seq(Messages) /\ toTool' \in Seq(Messages)
          /\ child \in {"none", "running", "zombie", "reaped"}
      BY <1>1, <1>4 DEF SnapInv, TypeInv, TypeOK
    <3> QED  BY <1>1, <2>1, <3>1, TypesKept DEF SnapInv
  <2>3. PhaseInv'
    BY <1>1, <1>3, <1>4, <2>1, SnapAssumption DEF SnapInv, PhaseInv, workerVars
  <2>4. CauseInv'
    BY <1>1, <1>4, <2>1 DEF SnapInv, CauseInv
  <2>5. HonestInv'
    BY <1>1, <2>1 DEF SnapInv, HonestInv, Unanswered, workerVars
  <2>6. StarveInv'
    <3>1. Head(toTool).type # "FrameDone"
      BY <1>1
    <3>2. \A s, b : Delivered(toTool, s, b) => Delivered(toTool', s, b)
      BY <1>1, <3>1, Reading
    <3> QED  BY <1>1, <1>4, <2>1, <3>2
             DEF SnapInv, StarveInv, FramesLast, BusyAccounted, FrameToCome, workerVars
  <2> QED  BY <2>2, <2>3, <2>4, <2>5, <2>6 DEF SnapInv
<1> QED  BY <1>5, <1>6

LEMMA CompileResultKeeps == SnapInv /\ RecvCompileResult => SnapInv'
<1> SUFFICES ASSUME SnapInv, RecvCompileResult PROVE SnapInv'
  OBVIOUS
<1> DEFINE pc == IF tool.source + 1 = Sources THEN "frame" ELSE "compile"
           exit == IF Clean(Head(toTool).outcome) THEN tool.exit
                   ELSE Failed(tool.exit, kCompileFail)
<1>1. /\ toTool # <<>> /\ toTool' = Tail(toTool) /\ Head(toTool).type = "CompileResult"
      /\ UNCHANGED <<slots, child, toWorker, workerVars, late, hist>> /\ tool.pc = "result"
      /\ tool' = [tool EXCEPT !.pc = pc, !.source = @ + 1, !.exit = exit]
  BY DEF RecvCompileResult, Receiving, Looking
<1>2. /\ Head(toTool) = toTool[1] /\ 1 \in DOMAIN toTool /\ Head(toTool) \in Messages
      /\ DOMAIN toTool = 1..Len(toTool)
  BY <1>1, Reading
<1>3. /\ CompileAnswered /\ tool.source < Sources /\ tool.frame = 0
      /\ tool.source \in Nat /\ Sources \in Nat /\ tool.exit \in Codes
  <2>1. tool.source \in Nat /\ Sources \in Nat /\ tool.exit \in Codes
    BY SnapAssumption DEF SnapInv, TypeInv, TypeOK, Codes
  <2>2. tool.source < Sources /\ tool.frame = 0 /\ (CompileAsked \/ CompileRuns \/ CompileAnswered)
    BY <1>1 DEF SnapInv, PhaseInv
  <2>3. ~ CompileAsked /\ ~ CompileRuns
    BY <1>1, <1>2 DEF CompileAsked, CompileRuns, Of
  <2> QED  BY <2>1, <2>2, <2>3
<1>4. Len(toTool) = 1
  BY <1>1, <1>2, <1>3 DEF CompileAnswered
<1>5. toTool' = <<>> /\ DOMAIN toTool' = {}
  BY <1>1, <1>4, ReadLast
<1>6. /\ pc = "frame" => tool.source + 1 = Sources
      /\ pc = "compile" => tool.source + 1 < Sources
      /\ pc \in {"frame", "compile"}
  BY <1>3
<1>7. /\ exit \in Codes
      /\ exit = kOk => tool.exit = kOk /\ Head(toTool).outcome = "clean"
      /\ exit # tool.exit => exit = kCompileFail /\ Head(toTool).outcome # "clean"
  BY <1>3 DEF Failed, Clean, Codes, kOk, kSpawnFail, kCompileFail, kWorkerDeath, kTimeout
<1> HIDE DEF pc, exit
<1>8. /\ tool' \in Tools /\ tool'.pc = pc /\ tool'.exit = exit
      /\ tool'.source = tool.source + 1 /\ tool'.frame = tool.frame
  <2>1. tool \in Tools /\ tool.source + 1 \in 0..Sources
    BY <1>3 DEF SnapInv, TypeInv, TypeOK, Tools
  <2> QED  BY <1>1, <1>6, <1>7, <2>1 DEF Tools, Codes
<1>9. TypeInv'
  <2>1. slots' \subseteq made /\ toWorker \in Seq(Messages) /\ toTool' \in Seq(Messages)
        /\ child \in {"none", "running", "zombie", "reaped"}
    BY <1>1, <1>5 DEF SnapInv, TypeInv, TypeOK
  <2> QED  BY <1>1, <1>8, <2>1, TypesKept DEF SnapInv
<1>10. PhaseInv'
  <2>1. toWorker = <<>> /\ work.at = "idle" /\ DOMAIN toWorker = {}
    BY <1>3 DEF CompileAnswered
  <2>2. tool.frame < Frames
    BY <1>3, SnapAssumption
  <2> QED  BY <1>1, <1>3, <1>5, <1>6, <1>8, <2>1, <2>2 DEF SnapInv, PhaseInv, workerVars, Of
<1>11. CauseInv'
  <2>1. CASE exit = tool.exit
    BY <1>1, <1>5, <1>6, <1>8, <2>1 DEF SnapInv, CauseInv
  <2>2. CASE exit # tool.exit
    <3>1. "source" \in hist.troubles
      BY <1>1, <1>2, <1>7, <2>2 DEF SnapInv, CauseInv
    <3> QED  BY <1>1, <1>5, <1>6, <1>7, <1>8, <2>2, <3>1
             DEF SnapInv, CauseInv, kSpawnFail, kCompileFail, kRenderException, kWorkerDeath, kTimeout
  <2> QED  BY <2>1, <2>2
<1>12. HonestInv'
  <2>1. hist.clean <= tool.source + 1
    BY <1>1 DEF SnapInv, HonestInv
  <2>2. exit = kOk => hist.clean = tool.source + 1
    BY <1>1, <1>2, <1>7 DEF SnapInv, HonestInv
  <2> QED  BY <1>1, <1>6, <1>8, <2>1, <2>2 DEF HonestInv, Unanswered
<1>13. StarveInv'
  <2>1. \A s, b : Delivered(toTool, s, b) => Delivered(toTool', s, b)
    BY <1>1, Reading
  <2> QED  BY <1>1, <1>5, <1>6, <1>8, <2>1
           DEF SnapInv, StarveInv, FramesLast, BusyAccounted, FrameToCome, workerVars
<1> QED  BY <1>9, <1>10, <1>11, <1>12, <1>13 DEF SnapInv

LEMMA FrameDoneKeeps == SnapInv /\ RecvFrameDone => SnapInv'
<1> SUFFICES ASSUME SnapInv, RecvFrameDone PROVE SnapInv'
  OBVIOUS
<1> DEFINE m == Head(toTool)
           pc == IF tool.frame + 1 = Frames THEN "shutdown" ELSE "frame"
           exit == IF m.threw THEN Failed(tool.exit, kRenderException) ELSE tool.exit
           back == {Release(r.slide, r.buffer) : r \in Releases(m.results)}
<1>1. /\ toTool # <<>> /\ toTool' = Tail(toTool) /\ m.type = "FrameDone"
      /\ UNCHANGED <<slots, child, workerVars, late, hist>> /\ tool.pc = "done"
      /\ tool' = [tool EXCEPT !.pc = pc, !.frame = @ + 1, !.exit = exit]
      /\ toWorker' = IF child = "running" THEN toWorker \o InSomeOrder(back) ELSE toWorker
  BY DEF RecvFrameDone, Receiving, Looking
<1>2. /\ m = toTool[1] /\ 1 \in DOMAIN toTool /\ m \in Messages
      /\ DOMAIN toTool = 1..Len(toTool)
  BY <1>1, Reading
<1>3. /\ FrameAnswered /\ tool.frame < Frames /\ tool.source = Sources /\ work.at = "idle"
      /\ io # "returned" /\ tool.frame \in Nat /\ Frames \in Nat /\ tool.exit \in Codes
  BY <1>1, <1>2, SnapAssumption DEF SnapInv, PhaseInv, FrameAsked, TypeInv, TypeOK, Codes
<1>4. Len(toTool) = 1
  BY <1>1, <1>2, <1>3 DEF FrameAnswered
<1>5. toTool' = <<>> /\ DOMAIN toTool' = {}
  BY <1>1, <1>4, ReadLast
<1>6. /\ pc = "shutdown" => tool.frame + 1 = Frames
      /\ pc = "frame" => tool.frame + 1 < Frames
      /\ pc \in {"frame", "shutdown"}
  BY <1>3
<1>7. /\ exit \in Codes
      /\ exit = kOk => tool.exit = kOk /\ ~ m.threw
      /\ exit # tool.exit => exit = kRenderException /\ m.threw
  BY <1>3 DEF Failed, Codes, kOk, kSpawnFail, kRenderException, kWorkerDeath, kTimeout
<1>8. /\ m.results \in SUBSET [slide : Slides, buffer : Buffers]
  BY <1>1, <1>2, MessageFields
<1>9. IsFiniteSet(back) /\ back \subseteq Messages /\ \A x \in back : x.type = "BufferRelease"
  <2>1. IsFiniteSet(m.results)
    BY <1>8, PartsFinite
  <2>2. IsFiniteSet({[r \in m.results |-> Release(r.slide, r.buffer)][x] :
                       x \in DOMAIN [r \in m.results |-> Release(r.slide, r.buffer)]})
    BY <2>1, ImageIsFinite
  <2>3. back = {[r \in m.results |-> Release(r.slide, r.buffer)][x] :
                  x \in DOMAIN [r \in m.results |-> Release(r.slide, r.buffer)]}
    BY DEF Releases
  <2>4. \A r \in m.results : Release(r.slide, r.buffer) \in Messages
    BY <1>8, MessagesMade
  <2>5. \A s, b : Release(s, b).type = "BufferRelease"
    BY DEF Release
  <2> QED  BY <2>2, <2>3, <2>4, <2>5 DEF Releases
<1>10. \A s, b : [slide |-> s, buffer |-> b] \in m.results => Release(s, b) \in back
  BY DEF Releases
<1> DEFINE o == InSomeOrder(back)
<1>11. /\ o \in Seq(Messages) /\ DOMAIN o = 1..Len(o) /\ \A i \in DOMAIN o : o[i] \in back
       /\ \A x \in back : \E i \in DOMAIN o : o[i] = x
  BY <1>9, OrderOf
<1> HIDE DEF pc, exit, back, o, m
<1>12. toWorker = <<>> /\ toWorker' = IF child = "running" THEN o ELSE <<>>
  BY <1>1, <1>3, <1>11 DEF FrameAnswered, o
<1>13. toWorker' \in Seq(Messages) /\ Of(toWorker', {"BufferRelease"})
  BY <1>9, <1>11, <1>12 DEF Of
<1>14. /\ tool' \in Tools /\ tool'.pc = pc /\ tool'.exit = exit
       /\ tool'.frame = tool.frame + 1 /\ tool'.source = tool.source
  <2>1. tool \in Tools /\ tool.frame + 1 \in 0..Frames
    BY <1>3 DEF SnapInv, TypeInv, TypeOK, Tools
  <2> QED  BY <1>1, <1>6, <1>7, <2>1 DEF Tools, Codes
<1>15. TypeInv'
  <2>1. slots' \subseteq made /\ toTool' \in Seq(Messages)
        /\ child \in {"none", "running", "zombie", "reaped"}
    BY <1>1, <1>5 DEF SnapInv, TypeInv, TypeOK
  <2> QED  BY <1>1, <1>13, <1>14, <2>1, TypesKept DEF SnapInv
<1>16. PhaseInv'
  BY <1>1, <1>3, <1>5, <1>6, <1>13, <1>14 DEF SnapInv, PhaseInv, workerVars, Of
<1>17. CauseInv'
  <2>1. CASE exit = tool.exit
    BY <1>1, <1>5, <1>6, <1>14, <2>1 DEF SnapInv, CauseInv
  <2>2. CASE exit # tool.exit
    <3>1. "render" \in hist.troubles
      BY <1>1, <1>2, <1>7, <2>2 DEF SnapInv, CauseInv
    <3> QED  BY <1>1, <1>5, <1>6, <1>7, <1>14, <2>2, <3>1
             DEF SnapInv, CauseInv, kSpawnFail, kCompileFail, kRenderException, kWorkerDeath, kTimeout
  <2> QED  BY <2>1, <2>2
<1>18. HonestInv'
  <2>1. exit = kOk => hist.clean = Sources
    BY <1>1, <1>2, <1>4, <1>7 DEF SnapInv, HonestInv
  <2>2. \A i \in DOMAIN toWorker' : toWorker'[i].type # "FrameBegin"
    BY <1>13 DEF Of
  <2> QED  BY <1>1, <1>6, <1>14, <2>1, <2>2 DEF HonestInv, Unanswered
<1>19. StarveInv'
  <2>1. FramesLast'
    BY <1>13 DEF FramesLast, Of
  <2>2. BusyAccounted'
    <3> SUFFICES ASSUME child = "running", NEW s \in Slides, NEW b \in rings[s].busy,
                        <<s, b>> \notin hist.lost
                 PROVE  Returned(toWorker', s, b)
      BY <1>1 DEF BusyAccounted, workerVars
    <3>0. FrameToCome
      BY <1>1, <1>2 DEF FrameToCome
    <3>1. Delivered(toTool, s, b)
      BY <1>12, <3>0, NoneQueued DEF SnapInv, StarveInv, BusyAccounted
    <3>2. [slide |-> s, buffer |-> b] \in m.results
      BY <1>2, <1>4, <3>1 DEF Delivered
    <3>3. PICK i \in DOMAIN o : o[i] = Release(s, b)
      BY <1>10, <1>11, <3>2
    <3> QED  BY <1>12, <3>3 DEF Returned
  <2> QED  BY <1>1, <1>5, <1>6, <1>14, <2>1, <2>2 DEF StarveInv
<1> QED  BY <1>15, <1>16, <1>17, <1>18, <1>19 DEF SnapInv

LEMMA ShutdownKeeps == SnapInv /\ SendShutdown => SnapInv'
<1> SUFFICES ASSUME SnapInv, SendShutdown PROVE SnapInv'
  OBVIOUS
<1>1. /\ tool.pc = "shutdown" /\ tool' = [tool EXCEPT !.pc = "reap"]
      /\ UNCHANGED <<slots, child, workerVars, toTool, late, hist>>
      /\ toWorker' = IF child = "running" THEN Append(toWorker, Msg("Shutdown")) ELSE toWorker
  BY DEF SendShutdown
<1>2. /\ tool' \in Tools /\ tool'.pc = "reap" /\ tool'.exit = tool.exit
      /\ tool'.source = tool.source /\ tool'.frame = tool.frame
  BY <1>1 DEF SnapInv, TypeInv, TypeOK, Tools
<1>n. PICK n : n = Len(toWorker)
  OBVIOUS
<1>3. /\ toWorker' \in Seq(Messages) /\ n \in Nat /\ DOMAIN toWorker = 1..n
      /\ \A i \in DOMAIN toWorker : i \in DOMAIN toWorker' /\ toWorker'[i] = toWorker[i]
      /\ \A i \in DOMAIN toWorker' : i \in DOMAIN toWorker \/ toWorker'[i] = Msg("Shutdown")
      /\ \A i \in DOMAIN toWorker' : i \notin DOMAIN toWorker => \A j \in DOMAIN toWorker : j < i
  <2>1. toWorker \in Seq(Messages)
    BY DEF SnapInv, TypeInv
  <2>2. CASE child = "running"
    BY <1>1, <1>n, <2>1, <2>2, AppendOf, MessagesMade
  <2>3. CASE child # "running"
    BY <1>1, <1>n, <2>1, <2>3
  <2> QED  BY <2>2, <2>3
<1>4. Msg("Shutdown").type = "Shutdown"
  BY DEF Msg
<1>5. TypeInv'
  <2>1. slots' \subseteq made /\ toTool' \in Seq(Messages)
        /\ child \in {"none", "running", "zombie", "reaped"}
    BY <1>1 DEF SnapInv, TypeInv, TypeOK
  <2> QED  BY <1>1, <1>2, <1>3, <2>1, TypesKept DEF SnapInv
<1>6. PhaseInv'
  <2>1. Of(toWorker, {"BufferRelease", "FrameBegin"})
    BY <1>1 DEF SnapInv, PhaseInv
  <2>2. Of(toWorker', {"BufferRelease", "FrameBegin", "Shutdown"})
    BY <1>3, <1>4, <2>1 DEF Of
  <2> QED  BY <1>1, <1>2, <2>2 DEF SnapInv, PhaseInv, workerVars
<1>7. CauseInv'
  BY <1>1, <1>2 DEF SnapInv, CauseInv
<1>8. HonestInv'
  <2>1. tool.exit = kOk => \A i \in DOMAIN toWorker' : toWorker'[i].type # "FrameBegin"
    BY <1>1, <1>3, <1>4 DEF SnapInv, HonestInv
  <2> QED  BY <1>1, <1>2, <2>1 DEF SnapInv, HonestInv, Unanswered, workerVars
<1>9. StarveInv'
  <2>1. \A s, b : Returned(toWorker, s, b) => Returned(toWorker', s, b)
    BY <1>3 DEF Returned
  <2>2. \A k, s, b : ReturnedBefore(toWorker, k, s, b) => ReturnedBefore(toWorker', k, s, b)
    BY <1>3 DEF ReturnedBefore
  <2>3. FramesLast'
    <3> SUFFICES ASSUME NEW k \in DOMAIN toWorker', toWorker'[k].type = "FrameBegin"
                 PROVE  /\ \A i \in DOMAIN toWorker' : i < k => toWorker'[i].type = "BufferRelease"
                        /\ \A s \in Slides : \A b \in rings[s].busy :
                             <<s, b>> \in hist.lost \/ ReturnedBefore(toWorker', k, s, b)
      BY <1>1 DEF FramesLast, workerVars
    <3>1. k \in DOMAIN toWorker /\ toWorker[k].type = "FrameBegin"
      BY <1>3, <1>4
    <3>2. \A i \in DOMAIN toWorker' : i < k => i \in DOMAIN toWorker
      <4> SUFFICES ASSUME NEW i \in DOMAIN toWorker', i < k, i \notin DOMAIN toWorker PROVE FALSE
        OBVIOUS
      <4>1. k < i /\ k \in Nat /\ i \in Nat
        BY <1>3, <3>1
      <4> QED  BY <4>1
    <3> QED  BY <1>3, <2>2, <3>1, <3>2 DEF SnapInv, StarveInv, FramesLast
  <2>4. BusyAccounted'
    BY <1>2 DEF BusyAccounted, FrameToCome
  <2> QED  BY <1>1, <1>2, <2>3, <2>4 DEF SnapInv, StarveInv, workerVars
<1> QED  BY <1>5, <1>6, <1>7, <1>8, <1>9 DEF SnapInv

-----------------------------------------------------------------------------
(* The tool's steps together. *)
LEMMA CodesAre ==
  /\ kOk \in Codes /\ kSpawnFail \in Codes /\ kWorkerDeath \in Codes /\ kTimeout \in Codes
  /\ kSpawnFail # kOk /\ kWorkerDeath # kOk /\ kTimeout # kOk
  /\ \A e : Failed(e, kWorkerDeath) = kWorkerDeath /\ Failed(e, kTimeout) = kTimeout
BY DEF Codes, Failed, kOk, kSpawnFail, kWorkerDeath, kTimeout

(* A worker found dead before the end gave a reason. *)
LEMMA DeathCause ==
  ASSUME SnapInv, child # "running", child # "none", tool.pc \notin {"reap", "end"}, hist' = hist
  PROVE  CausedBy(kWorkerDeath)
<1>1. "death" \in hist.troubles
  BY DEF SnapInv, CauseInv, TypeInv, TypeOK
<1> QED  BY <1>1 DEF CausedBy, kSpawnFail, kCompileFail, kRenderException, kWorkerDeath, kTimeout

LEMMA WaitFails ==
  ASSUME SnapInv, Waiting, NEW code \in {kWorkerDeath, kTimeout}, CausedBy(code), GivesUp(code),
         UNCHANGED <<slots, workerVars, toWorker, toTool, late, hist>>
  PROVE  SnapInv'
<1>1. CASE tool.pc = "done"
  <2>1. tool' = [tool EXCEPT !.pc = "shutdown", !.exit = code] /\ child' = child
    BY <1>1, CodesAre DEF GivesUp
  <2>2. /\ tool' \in Tools /\ tool'.pc = "shutdown" /\ tool'.source = tool.source
        /\ tool'.frame = tool.frame /\ tool'.exit = code /\ code # kOk
    BY <2>1, CodesAre DEF SnapInv, TypeInv, TypeOK, Tools, Codes
  <2> QED  BY <1>1, <2>1, <2>2, GivingUpFrames DEF SnapInv
<1>2. CASE tool.pc # "done"
  <2>1. Ended(code) /\ child' = "reaped" /\ code \in Codes /\ code # kOk
    BY <1>2, CodesAre DEF GivesUp, KillAndEnd
  <2> QED  BY <2>1, Ending DEF SnapInv
<1> QED  BY <1>1, <1>2

(* Every step of the tool. *)
LEMMA ToolKeeps == SnapInv /\ ChildInv /\ Tool => SnapInv'
<1> SUFFICES ASSUME SnapInv, ChildInv, Tool PROVE SnapInv'
  OBVIOUS
<1>t. tool.pc # "spawn" => child # "none" \/ tool.pc = "end"
  BY DEF SnapInv, PhaseInv
<1>1. CASE SpawnFails
  <2>1. /\ Ended(kSpawnFail) /\ UNCHANGED <<slots, child, workerVars, toWorker, toTool, late>>
        /\ hist' = [hist EXCEPT !.troubles = @ \cup {"fork"}] /\ child = "none"
    BY <1>1 DEF SpawnFails, Trouble, ChildInv
  <2>2. hist'.clean = hist.clean /\ hist'.lost = hist.lost /\ "fork" \in hist'.troubles
    BY <2>1 DEF SnapInv, TypeInv, TypeOK
  <2>3. CausedBy(kSpawnFail)
    BY <2>2 DEF CausedBy, kSpawnFail, kCompileFail, kRenderException, kWorkerDeath, kTimeout
  <2>4. hist' \in {[hist EXCEPT !.troubles = @ \cup {t}] : t \in {"fork", "size"}} \cup {hist}
    BY <2>1
  <2> QED  BY <2>1, <2>2, <2>3, <2>4, CodesAre, Ending DEF SnapInv
<1>2. CASE SpawnWorker
  BY <1>2, SpawnKeeps
<1>3. CASE SendHello
  <2>1. CASE child = "running"
    BY <1>3, <2>1, HelloKeeps
  <2>2. CASE child # "running"
    <3>1. /\ Ended(kWorkerDeath) /\ child' = "reaped" /\ tool.pc = "hello"
          /\ UNCHANGED <<slots, workerVars, toWorker, toTool, late, hist>>
      BY <1>3, <2>2 DEF SendHello, KillAndEnd
    <3>2. CausedBy(kWorkerDeath)
      BY <1>t, <2>2, <3>1, DeathCause
    <3> QED  BY <3>1, <3>2, CodesAre, Ending DEF SnapInv
  <2> QED  BY <2>1, <2>2
<1>4. CASE SendSource
  <2>1. tool.pc = "compile" /\ UNCHANGED <<slots, workerVars, toTool, late>>
    BY <1>4 DEF SendSource
  <2>2. CASE tool' = [tool EXCEPT !.pc = "result"]
    <3>1. tool'.pc = "result"
      BY <2>2 DEF SnapInv, TypeInv, TypeOK
    <3>2. child = "running" /\ Send(SetSource(tool.source + 1)) /\ UNCHANGED <<child, hist>>
      BY <1>4, <3>1 DEF SendSource, KillAndEnd, Ended, SnapInv, TypeInv, TypeOK
    <3> QED  BY <2>1, <2>2, <3>2, SourceKeeps
  <2>3. CASE KillAndEnd(Failed(tool.exit, kWorkerDeath)) /\ child # "running" /\ UNCHANGED <<hist, toWorker>>
    <3>1. Ended(kWorkerDeath) /\ child' = "reaped"
      BY <2>3, CodesAre DEF KillAndEnd
    <3>2. CausedBy(kWorkerDeath)
      BY <1>t, <2>1, <2>3, DeathCause
    <3> QED  BY <2>1, <2>3, <3>1, <3>2, CodesAre, Ending DEF SnapInv
  <2>4. CASE KillAndEnd(Failed(tool.exit, kWorkerDeath)) /\ Trouble("size") /\ UNCHANGED toWorker
    <3>1. Ended(kWorkerDeath) /\ child' = "reaped"
      BY <2>4, CodesAre DEF KillAndEnd
    <3>2. hist'.clean = hist.clean /\ hist'.lost = hist.lost /\ "size" \in hist'.troubles
      BY <2>4 DEF Trouble, SnapInv, TypeInv, TypeOK
    <3>3. CausedBy(kWorkerDeath)
      BY <3>2 DEF CausedBy, kSpawnFail, kCompileFail, kRenderException, kWorkerDeath, kTimeout
    <3>4. hist' \in {[hist EXCEPT !.troubles = @ \cup {t}] : t \in {"fork", "size"}} \cup {hist}
      BY <2>4 DEF Trouble
    <3> QED  BY <2>1, <2>4, <3>1, <3>2, <3>3, <3>4, CodesAre, Ending DEF SnapInv
  <2> QED  BY <1>4, <2>2, <2>3, <2>4 DEF SendSource
<1>5. CASE SendFrameBegin
  <2>1. tool.pc = "frame" /\ UNCHANGED <<slots, child, workerVars, toTool, late, hist>>
    BY <1>5 DEF SendFrameBegin
  <2>2. CASE child = "running"
    BY <1>5, <2>1, <2>2, FrameKeeps DEF SendFrameBegin
  <2>3. CASE child # "running"
    <3>1. tool' = [tool EXCEPT !.pc = "shutdown", !.exit = kWorkerDeath] /\ toWorker' = toWorker
      BY <1>5, <2>3, CodesAre DEF SendFrameBegin
    <3>2. /\ tool' \in Tools /\ tool'.pc = "shutdown" /\ tool'.source = tool.source
          /\ tool'.frame = tool.frame /\ tool'.exit = kWorkerDeath
      BY <3>1, CodesAre DEF SnapInv, TypeInv, TypeOK, Tools, Codes
    <3>3. CausedBy(kWorkerDeath)
      BY <1>t, <2>1, <2>3, DeathCause
    <3> QED  BY <2>1, <3>1, <3>2, <3>3, CodesAre, GivingUpFrames DEF SnapInv
  <2> QED  BY <2>2, <2>3
<1>6. CASE TimesOut
  <2>1. CausedBy(kTimeout)
    BY <1>6 DEF TimesOut, Expires, CausedBy, kSpawnFail, kCompileFail, kRenderException,
                kWorkerDeath, kTimeout
  <2> QED  BY <1>6, <2>1, WaitFails DEF TimesOut
<1>7. CASE Disconnects
  <2>1. CausedBy(kWorkerDeath)
    BY <1>7, <1>t, DeathCause DEF Disconnects, Looking, Waiting
  <2> QED  BY <1>7, <2>1, WaitFails DEF Disconnects, Looking
<1>8. CASE FindsNothing
  BY <1>8, StandingStill DEF FindsNothing, SnapInv
<1>9. CASE LooksAtWorker
  <2>1. CASE child = "running"
    BY <1>9, <2>1, StandingStill DEF LooksAtWorker, SnapInv
  <2>2. CASE child # "running"
    <3>w. Waiting
      BY <1>9 DEF LooksAtWorker, ChildInv
    <3>1. CausedBy(kWorkerDeath)
      BY <1>9, <1>t, <2>2, <3>w, DeathCause DEF LooksAtWorker, Waiting
    <3>2. CASE tool.pc = "done"
      <4>1. tool' = [tool EXCEPT !.pc = "shutdown", !.looked = FALSE, !.exit = kWorkerDeath]
            /\ child' = "reaped"
        BY <1>9, <2>2, <3>2, CodesAre DEF LooksAtWorker
      <4>2. /\ tool' \in Tools /\ tool'.pc = "shutdown" /\ tool'.source = tool.source
            /\ tool'.frame = tool.frame /\ tool'.exit = kWorkerDeath
        BY <4>1, CodesAre DEF SnapInv, TypeInv, TypeOK, Tools, Codes
      <4> QED  BY <1>9, <2>2, <3>1, <3>2, <4>1, <4>2, CodesAre, GivingUpFrames DEF SnapInv, LooksAtWorker
    <3>3. CASE tool.pc # "done"
      <4>1. Ended(kWorkerDeath) /\ child' = "reaped"
        BY <1>9, <2>2, <3>3, CodesAre DEF LooksAtWorker
      <4> QED  BY <1>9, <3>1, <4>1, CodesAre, Ending DEF SnapInv, LooksAtWorker
    <3> QED  BY <3>2, <3>3
  <2> QED  BY <2>1, <2>2
<1>10. CASE RecvAnnounce \/ RecvHelloAck \/ RecvCompileBusy \/ RecvCompileResult \/ RecvFrameDone
  BY <1>10, AnnounceKeeps, HelloAckKeeps, BusyKeeps, CompileResultKeeps, FrameDoneKeeps
<1>11. CASE SendShutdown
  BY <1>11, ShutdownKeeps
<1>12. CASE ReapOrKill
  <2>1. /\ Ended(tool.exit) /\ child' = "reaped" /\ tool.pc = "reap"
        /\ UNCHANGED <<slots, workerVars, toWorker, toTool, late, hist>>
    BY <1>12 DEF ReapOrKill, SettlesWorker
  <2>2. tool.exit \in Codes /\ CausedBy(tool.exit)
    BY <2>1 DEF SnapInv, TypeInv, TypeOK, Codes, CauseInv, CausedBy
  <2> QED  BY <2>1, <2>2, Ending DEF SnapInv
<1> QED
  BY <1>1, <1>2, <1>3, <1>4, <1>5, <1>6, <1>7, <1>8, <1>9, <1>10, <1>11, <1>12 DEF Tool

-----------------------------------------------------------------------------
(* The worker takes a message. *)
LEMMA Serving ==
  ASSUME SnapInv, ChildInv, child = "running", toWorker # <<>>, toWorker' = Tail(toWorker)
  PROVE  /\ toWorker' \in Seq(Messages) /\ Head(toWorker) \in Messages
         /\ Head(toWorker) = toWorker[1] /\ 1 \in DOMAIN toWorker /\ DOMAIN toWorker = 1..Len(toWorker)
         /\ Len(toWorker) \in Nat \ {0} /\ Len(toWorker') = Len(toWorker) - 1
         /\ DOMAIN toWorker' = 1..(Len(toWorker) - 1)
         /\ \A i \in DOMAIN toWorker' : toWorker'[i] = toWorker[i + 1] /\ i + 1 \in DOMAIN toWorker
         /\ \A s, b : Returned(toWorker, s, b) =>
              Returned(toWorker', s, b) \/ Head(toWorker) = Release(s, b)
         /\ \A k \in DOMAIN toWorker' : toWorker'[k].type = "FrameBegin" =>
              /\ Head(toWorker).type = "BufferRelease"
              /\ \A i \in DOMAIN toWorker' : i < k => toWorker'[i].type = "BufferRelease"
              /\ \A s \in Slides : \A b \in rings[s].busy :
                   \/ <<s, b>> \in hist.lost \/ ReturnedBefore(toWorker', k, s, b)
                   \/ Head(toWorker) = Release(s, b)
         /\ tool.pc \notin {"spawn", "end"}
<1>1. toWorker \in Seq(Messages)
  BY DEF SnapInv, TypeInv
<1>2. /\ toWorker' \in Seq(Messages) /\ Head(toWorker) \in Messages
      /\ Head(toWorker) = toWorker[1] /\ 1 \in DOMAIN toWorker /\ DOMAIN toWorker = 1..Len(toWorker)
      /\ Len(toWorker) \in Nat \ {0} /\ Len(toWorker') = Len(toWorker) - 1
      /\ DOMAIN toWorker' = 1..(Len(toWorker) - 1)
      /\ \A i \in DOMAIN toWorker' : toWorker'[i] = toWorker[i + 1] /\ i + 1 \in DOMAIN toWorker
  BY <1>1, TailOf
<1>3. ASSUME NEW i \in DOMAIN toWorker, i # 1
      PROVE  i - 1 \in DOMAIN toWorker' /\ toWorker'[i - 1] = toWorker[i]
  BY <1>2, <1>3
<1>4. \A s, b : Returned(toWorker, s, b) =>
        Returned(toWorker', s, b) \/ Head(toWorker) = Release(s, b)
  BY <1>2, <1>3 DEF Returned
<1>5. ASSUME NEW k \in DOMAIN toWorker', toWorker'[k].type = "FrameBegin"
      PROVE  /\ Head(toWorker).type = "BufferRelease"
             /\ \A i \in DOMAIN toWorker' : i < k => toWorker'[i].type = "BufferRelease"
             /\ \A s \in Slides : \A b \in rings[s].busy :
                  \/ <<s, b>> \in hist.lost \/ ReturnedBefore(toWorker', k, s, b)
                  \/ Head(toWorker) = Release(s, b)
  <2>1. k + 1 \in DOMAIN toWorker /\ toWorker[k + 1].type = "FrameBegin" /\ k \in Nat \ {0}
    BY <1>2, <1>5
  <2>2. /\ \A i \in DOMAIN toWorker : i < k + 1 => toWorker[i].type = "BufferRelease"
        /\ \A s \in Slides : \A b \in rings[s].busy :
             <<s, b>> \in hist.lost \/ ReturnedBefore(toWorker, k + 1, s, b)
    BY <2>1 DEF SnapInv, StarveInv, FramesLast
  <2>3. Head(toWorker).type = "BufferRelease"
    BY <1>2, <2>1, <2>2
  <2>4. ASSUME NEW i \in DOMAIN toWorker', i < k
        PROVE  toWorker'[i].type = "BufferRelease"
    <3>1. i + 1 \in DOMAIN toWorker /\ i + 1 < k + 1 /\ toWorker'[i] = toWorker[i + 1]
      BY <1>2, <2>1, <2>4
    <3> QED  BY <2>2, <3>1
  <2>5. ASSUME NEW s, NEW b, ReturnedBefore(toWorker, k + 1, s, b), Head(toWorker) # Release(s, b)
        PROVE  ReturnedBefore(toWorker', k, s, b)
    <3>1. PICK i \in DOMAIN toWorker : i < k + 1 /\ toWorker[i] = Release(s, b)
      BY <2>5 DEF ReturnedBefore
    <3>2. i # 1
      BY <1>2, <2>5, <3>1
    <3>3. i - 1 \in DOMAIN toWorker' /\ toWorker'[i - 1] = Release(s, b) /\ i - 1 < k
      BY <1>2, <1>3, <2>1, <3>1, <3>2
    <3> QED  BY <3>3 DEF ReturnedBefore
  <2> QED  BY <2>2, <2>3, <2>4, <2>5
<1>6. tool.pc \notin {"spawn", "end"}
  BY DEF ChildInv, WorkerGone
<1> QED  BY <1>2, <1>4, <1>5, <1>6

(* The worker takes each message, and answers. *)
LEMMA TakeHelloKeeps == SnapInv /\ ChildInv /\ TakeHello => SnapInv' /\ (ToldInv => ToldInv')
<1> SUFFICES ASSUME SnapInv, ChildInv, TakeHello PROVE SnapInv' /\ (ToldInv => ToldInv')
  OBVIOUS
<1>1. /\ child = "running" /\ toWorker # <<>> /\ Head(toWorker).type = "Hello"
      /\ toWorker' = Tail(toWorker) /\ work.at = "hello"
      /\ UNCHANGED <<tool, slots, late, cap, content, rings, made>>
  BY DEF TakeHello, Taking, toolVars
<1>2. PICK gl \in BOOLEAN, match \in BOOLEAN :
        /\ toTool' = toTool \o <<HelloAck(gl)>>
        /\ IF match THEN work' = [work EXCEPT !.at = "idle"] /\ io' = "on" /\ child' = child
                    ELSE child' = "zombie" /\ work' = work /\ io' = io
        /\ hist' = [hist EXCEPT !.troubles =
                      @ \cup (IF gl THEN {} ELSE {"gl"}) \cup (IF match THEN {} ELSE {"death"})]
  BY DEF TakeHello, Answer
<1>3. tool.pc \notin {"spawn", "end"} /\ toWorker' \in Seq(Messages) /\ Head(toWorker) = toWorker[1]
      /\ 1 \in DOMAIN toWorker
  BY <1>1, Serving
<1>4. tool.pc = "ack" /\ toWorker = <<Msg("Hello")>> /\ toTool = <<>> /\ tool.source = 0
  BY <1>1, <1>3 DEF SnapInv, PhaseInv, TypeInv, TypeOK, CompileAsked, CompileRuns, CompileAnswered
<1>5. toWorker' = <<>> /\ DOMAIN toWorker' = {}
  BY <1>1, <1>4
<1>6. /\ toTool' = <<HelloAck(gl)>> /\ Len(toTool') = 1 /\ DOMAIN toTool' = {1}
      /\ toTool'[1] = HelloAck(gl) /\ toTool' \in Seq(Messages)
  BY <1>2, <1>4, MessagesMade
<1>7. HelloAck(gl).type = "HelloAck" /\ HelloAck(gl).shm = gl
  BY DEF HelloAck
<1>8. /\ hist'.clean = hist.clean /\ hist'.lost = hist.lost
      /\ hist'.troubles = hist.troubles \cup (IF gl THEN {} ELSE {"gl"})
                                       \cup (IF match THEN {} ELSE {"death"})
      /\ hist' \in [clean : 0..Sources, troubles : SUBSET Troubles, lost : SUBSET (Slides \X Buffers)]
  BY <1>2 DEF SnapInv, TypeInv, TypeOK, Troubles
<1>9. TypeInv'
  <2>1. \A i \in DOMAIN toTool' : toTool'[i] \in Messages
    BY <1>6
  <2>2. \A i \in DOMAIN toWorker' : toWorker'[i] \in Messages
    BY <1>5
  <2>3. /\ work' \in [at : {"hello", "idle", "compile", "restore", "join", "answer"},
                      source : 0..Sources, outcome : Outcomes]
        /\ io' \in {"off", "on", "returned"} /\ child' \in {"none", "running", "zombie", "reaped"}
    BY <1>2 DEF SnapInv, TypeInv, TypeOK
  <2> QED  BY <1>1, <1>3, <1>6, <1>8, <2>1, <2>2, <2>3 DEF SnapInv, TypeInv, TypeOK
<1>10. PhaseInv'
  <2>1. /\ child' = "running" => work'.at = "idle"
        /\ child' # "none" /\ io' # "returned"
    BY <1>1, <1>2, <1>4 DEF SnapInv, PhaseInv, TypeInv, TypeOK
  <2> QED  BY <1>1, <1>4, <1>5, <1>6, <1>7, <2>1 DEF SnapInv, PhaseInv
<1>11. CauseInv'
  <2>1. \A i \in DOMAIN toTool' : toTool'[i] = HelloAck(gl)
    BY <1>6
  <2>2. child' \in {"zombie", "reaped"} => "death" \in hist'.troubles
    BY <1>1, <1>2, <1>8
  <2>3. hist.troubles \subseteq hist'.troubles /\ (~ gl => "gl" \in hist'.troubles)
    BY <1>8
  <2> QED  BY <1>1, <1>7, <2>1, <2>2, <2>3 DEF SnapInv, CauseInv
<1>12. HonestInv'
  BY <1>1, <1>4, <1>8 DEF SnapInv, HonestInv, Unanswered
<1>13. StarveInv'
  <2>1. \A s \in Slides : \A b \in rings[s].busy : <<s, b>> \in hist.lost
    <3>1. \A s, b : ~ Returned(toWorker, s, b)
      BY <1>4 DEF Returned, Release, Msg
    <3> QED  BY <1>1, <1>4, <3>1, NoneQueued DEF SnapInv, StarveInv, BusyAccounted, FrameToCome
  <2>2. FramesLast'
    BY <1>5 DEF FramesLast
  <2>3. BusyAccounted'
    BY <1>1, <1>8, <2>1 DEF BusyAccounted
  <2> QED  BY <1>1, <1>4, <1>6, <1>7, <2>2, <2>3 DEF SnapInv, StarveInv
<1>14. ASSUME ToldInv PROVE ToldInv'
  <2>1. tool.exit = kOk => Coded \cap hist.troubles = {}
    BY <1>1, <1>14 DEF ToldInv, Coded, GlUntold, SourceUntold, RenderUntold
  <2>2. ~ gl => GlUntold'
    BY <1>1, <1>4, <1>5, <1>6, <1>7 DEF GlUntold
  <2>3. Coded \cap hist'.troubles \subseteq (Coded \cap hist.troubles) \cup (IF gl THEN {} ELSE {"gl"})
    BY <1>8 DEF Coded
  <2> QED  BY <1>1, <2>1, <2>2, <2>3 DEF ToldInv, Coded
<1> QED  BY <1>9, <1>10, <1>11, <1>12, <1>13, <1>14 DEF SnapInv

LEMMA TakeSourceKeeps == SnapInv /\ ChildInv /\ CaptureInv' /\ TakeSource => SnapInv'
<1> SUFFICES ASSUME SnapInv, ChildInv, CaptureInv', TakeSource PROVE SnapInv'
  OBVIOUS
<1>1. /\ child = "running" /\ toWorker # <<>> /\ Head(toWorker).type = "SetSource"
      /\ toWorker' = Tail(toWorker) /\ work.at = "idle"
      /\ UNCHANGED <<tool, slots, late, child, io, content, rings, made, hist>>
      /\ toTool' = toTool \o <<Msg("CompileBusy")>>
  BY DEF TakeSource, Taking, toolVars, Answer
<1>2. PICK o \in Outcomes :
        work' = [at |-> IF o = "incomplete" THEN "answer" ELSE "compile",
                 source |-> Head(toWorker).source, outcome |-> o]
  BY DEF TakeSource
<1>3. /\ tool.pc \notin {"spawn", "end"} /\ toWorker' \in Seq(Messages)
      /\ Head(toWorker) = toWorker[1] /\ 1 \in DOMAIN toWorker /\ Head(toWorker) \in Messages
  BY <1>1, Serving
<1>4. tool.pc = "result" /\ CompileAsked
  <2>1. tool.pc \notin {"hello", "ack", "compile", "frame", "shutdown", "reap"}
    BY <1>1, <1>3 DEF SnapInv, PhaseInv, Of, Msg
  <2>2. tool.pc # "done"
    BY <1>1, <1>3 DEF SnapInv, PhaseInv, FrameAsked, FrameAnswered
  <2>3. tool.pc = "result"
    BY <1>3, <2>1, <2>2 DEF SnapInv, TypeInv, TypeOK
  <2> QED  BY <1>1, <2>3 DEF SnapInv, PhaseInv, CompileRuns, CompileAnswered
<1>5. toWorker' = <<>> /\ DOMAIN toWorker' = {} /\ toTool = <<>>
  BY <1>1, <1>4 DEF CompileAsked
<1>6. /\ toTool' = <<Msg("CompileBusy")>> /\ DOMAIN toTool' = {1}
      /\ toTool'[1] = Msg("CompileBusy") /\ toTool' \in Seq(Messages)
  BY <1>1, <1>5, MessagesMade
<1>7. Msg("CompileBusy").type = "CompileBusy"
  BY DEF Msg
<1>8. /\ work' \in [at : {"hello", "idle", "compile", "restore", "join", "answer"},
                    source : 0..Sources, outcome : Outcomes]
      /\ work'.at \in {"compile", "answer"}
  <2>1. Head(toWorker).source \in 0..Sources
    BY <1>1, <1>3, MessageFields, SnapAssumption
  <2> QED  BY <1>2, <2>1
<1>9. TypeInv'
  <2>1. \A i \in DOMAIN toTool' : toTool'[i] \in Messages
    BY <1>6
  <2>2. \A i \in DOMAIN toWorker' : toWorker'[i] \in Messages
    BY <1>5
  <2> QED  BY <1>1, <1>3, <1>6, <1>8, <2>1, <2>2 DEF SnapInv, TypeInv, TypeOK, CaptureInv
<1>10. PhaseInv'
  <2>1. CompileRuns'
    BY <1>5, <1>6, <1>7, <1>8 DEF CompileRuns, Of
  <2> QED  BY <1>1, <1>4, <2>1 DEF SnapInv, PhaseInv
<1>11. CauseInv'
  <2>1. \A i \in DOMAIN toTool' : toTool'[i].type = "CompileBusy"
    BY <1>6, <1>7
  <2> QED  BY <1>1, <2>1 DEF SnapInv, CauseInv
<1>12. HonestInv'
  <2>1. Unanswered
    BY <1>1, <1>4 DEF Unanswered
  <2>2. \A i \in DOMAIN toTool' : toTool'[i].type # "CompileResult"
    BY <1>6, <1>7
  <2> QED  BY <1>1, <1>4, <2>1, <2>2 DEF SnapInv, HonestInv
<1>13. StarveInv'
  <2>1. \A s \in Slides : \A b \in rings[s].busy : <<s, b>> \in hist.lost
    <3>1. \A s, b : ~ Returned(toWorker, s, b)
      BY <1>4 DEF CompileAsked, Returned, Release, SetSource
    <3> QED  BY <1>1, <1>4, <1>5, <3>1, NoneQueued DEF SnapInv, StarveInv, BusyAccounted, FrameToCome
  <2>2. FramesLast'
    BY <1>5 DEF FramesLast
  <2>3. BusyAccounted'
    BY <1>1, <2>1 DEF BusyAccounted
  <2>4. \A i \in DOMAIN toTool' : toTool'[i].type = "CompileBusy"
    BY <1>6, <1>7
  <2> QED  BY <1>1, <1>4, <2>2, <2>3, <2>4 DEF SnapInv, StarveInv
<1> QED  BY <1>9, <1>10, <1>11, <1>12, <1>13 DEF SnapInv

LEMMA SendResultKeeps ==
  SnapInv /\ ChildInv /\ SendResult => SnapInv' /\ (ToldInv => ToldInv')
<1> SUFFICES ASSUME SnapInv, ChildInv, SendResult PROVE SnapInv' /\ (ToldInv => ToldInv')
  OBVIOUS
<1> DEFINE r == CompileResult(work.outcome)
<1>1. /\ child = "running" /\ work.at = "answer"
      /\ UNCHANGED <<tool, slots, late, child, io, rings, made, toWorker>>
      /\ cap' = NoCapture
      /\ toTool' = toTool \o <<r>> \/ toTool' = toTool
      /\ work' = [FreshWork EXCEPT !.at = "idle"]
  BY DEF SendResult, Compiling, toolVars, Answer
<1>2. tool.pc = "result" /\ CompileRuns /\ tool.source < Sources
  <2>1. tool.pc \notin {"spawn", "end"}
    BY <1>1 DEF ChildInv, WorkerGone
  <2>2. tool.pc = "result"
    BY <1>1, <2>1 DEF SnapInv, PhaseInv, TypeInv, TypeOK
  <2> QED  BY <1>1, <2>2 DEF SnapInv, PhaseInv, CompileAsked, CompileAnswered
<1>3. Unanswered /\ hist.clean <= tool.source /\ (tool.exit = kOk => hist.clean = tool.source)
  BY <1>1, <1>2 DEF Unanswered, SnapInv, HonestInv
<1>4. /\ tool.source \in Nat /\ Sources \in Nat /\ hist.clean \in Nat /\ work.outcome \in Outcomes
      /\ toTool \in Seq(Messages)
  BY SnapAssumption DEF SnapInv, TypeInv, TypeOK
<1>5. r \in Messages /\ r.type = "CompileResult" /\ r.outcome = work.outcome
  BY <1>4, MessagesMade DEF CompileResult
<1> HIDE DEF r
<1>6. /\ toTool' \in Seq(Messages)
      /\ \A i \in DOMAIN toTool' :
           \/ i \in DOMAIN toTool /\ toTool'[i] = toTool[i]
           \/ i = Len(toTool') /\ toTool'[i] = r
      /\ \A i \in DOMAIN toTool : i \in DOMAIN toTool' /\ toTool'[i] = toTool[i]
  <2>1. CASE toTool' = toTool
    BY <1>4, <2>1
  <2>2. CASE toTool' = toTool \o <<r>>
    BY <1>4, <1>5, <2>2
  <2> QED  BY <1>1, <2>1, <2>2
<1>7. work' \in [at : {"hello", "idle", "compile", "restore", "join", "answer"},
                 source : 0..Sources, outcome : Outcomes] /\ work'.at = "idle"
  BY <1>1, SnapAssumption DEF FreshWork, Outcomes
<1>8. /\ hist' \in [clean : 0..Sources, troubles : SUBSET Troubles, lost : SUBSET (Slides \X Buffers)]
      /\ hist'.lost = hist.lost /\ hist.troubles \subseteq hist'.troubles
      /\ hist'.clean = hist.clean + (IF work.outcome = "clean" THEN 1 ELSE 0)
      /\ hist'.troubles = hist.troubles \cup (IF work.outcome = "clean" THEN {} ELSE {"source"})
      /\ content' \subseteq Slides
  <2>1. CASE work.outcome = "clean"
    <3>1. hist' = [hist EXCEPT !.clean = @ + 1] /\ content' \in {content, content \cup (Slides \cap {work.source})}
      BY <2>1 DEF SendResult
    <3>2. hist.clean + 1 \in 0..Sources
      BY <1>2, <1>3, <1>4
    <3> QED  BY <2>1, <3>1, <3>2 DEF SnapInv, TypeInv, TypeOK
  <2>2. CASE work.outcome # "clean"
    <3>1. hist' = [hist EXCEPT !.troubles = @ \cup {"source"}] /\ content' = content
      BY <2>2 DEF SendResult, Trouble
    <3> QED  BY <1>4, <2>2, <3>1 DEF SnapInv, TypeInv, TypeOK, Troubles
  <2> QED  BY <2>1, <2>2
<1>9. TypeInv'
  <2>1. \A i \in DOMAIN toTool' : toTool'[i] \in Messages
    BY <1>6
  <2> QED  BY <1>1, <1>6, <1>7, <1>8, <2>1, NothingCaptured DEF SnapInv, TypeInv, TypeOK
<1>10. PhaseInv'
  <2>1. CompileAnswered'
    BY <1>1, <1>2, <1>5, <1>6, <1>7 DEF CompileRuns, CompileAnswered, Of
  <2> QED  BY <1>1, <1>2, <2>1 DEF SnapInv, PhaseInv
<1>11. CauseInv'
  BY <1>1, <1>5, <1>6, <1>8 DEF SnapInv, CauseInv
<1>12. HonestInv'
  <2>1. toWorker = <<>> /\ \A i \in DOMAIN toTool : toTool[i].type = "CompileBusy"
    BY <1>2 DEF CompileRuns, Of
  <2>2. ~ Unanswered'
    BY <1>1, <1>2, <1>7, <2>1 DEF Unanswered
  <2>3. hist'.clean <= tool.source + 1
    BY <1>3, <1>4, <1>8
  <2>4. tool.exit = kOk =>
          \A i \in DOMAIN toTool' :
            toTool'[i].type = "CompileResult" /\ toTool'[i].outcome = "clean"
              => hist'.clean = tool.source + 1
    BY <1>2, <1>3, <1>4, <1>5, <1>6, <1>8, <2>1 DEF SnapInv, HonestInv
  <2> QED  BY <1>1, <1>2, <2>2, <2>3, <2>4 DEF HonestInv
<1>13. StarveInv'
  <2>1. \A s, b : Delivered(toTool, s, b) => Delivered(toTool', s, b)
    BY <1>6 DEF Delivered
  <2> QED  BY <1>1, <1>2, <1>5, <1>6, <1>8, <2>1
           DEF SnapInv, StarveInv, FramesLast, BusyAccounted, FrameToCome
<1>14. ASSUME ToldInv PROVE ToldInv'
  <2>1. tool.exit = kOk => Coded \cap hist.troubles = {}
    BY <1>1, <1>2, <1>14 DEF ToldInv, Coded, GlUntold, SourceUntold, RenderUntold
  <2>2. toWorker = <<>> /\ \A i \in DOMAIN toTool : toTool[i].type = "CompileBusy"
    BY <1>2 DEF CompileRuns, Of
  <2>3. work.outcome # "clean" => SourceUntold'
    BY <1>1, <1>2, <1>5, <1>6, <1>7, <2>2 DEF SourceUntold
  <2>4. Coded \cap hist'.troubles \subseteq
          (Coded \cap hist.troubles) \cup (IF work.outcome = "clean" THEN {} ELSE {"source"})
    BY <1>8 DEF Coded
  <2> QED  BY <1>1, <2>1, <2>3, <2>4 DEF ToldInv, Coded
<1> QED  BY <1>9, <1>10, <1>11, <1>12, <1>13, <1>14 DEF SnapInv

(* After a release, or a frame, what the places of the tool say still holds. *)
LEMMA TakeReleaseKeeps == SnapInv /\ ChildInv /\ TakeRelease => SnapInv'
<1> SUFFICES ASSUME SnapInv, ChildInv, TakeRelease PROVE SnapInv'
  OBVIOUS
<1> DEFINE m == Head(toWorker)
<1>1. /\ child = "running" /\ toWorker # <<>> /\ m.type = "BufferRelease"
      /\ toWorker' = Tail(toWorker) /\ work.at = "idle"
      /\ UNCHANGED <<tool, slots, late, child, work, io, cap, content, made, toTool, hist>>
      /\ rings' = [rings EXCEPT ![m.slide] = Released(@, m.buffer)]
  BY DEF TakeRelease, Taking, toolVars
<1>2. /\ toWorker' \in Seq(Messages) /\ m \in Messages
      /\ m = toWorker[1] /\ 1 \in DOMAIN toWorker /\ DOMAIN toWorker = 1..Len(toWorker)
      /\ Len(toWorker) \in Nat \ {0} /\ Len(toWorker') = Len(toWorker) - 1
      /\ DOMAIN toWorker' = 1..(Len(toWorker) - 1)
      /\ \A i \in DOMAIN toWorker' : toWorker'[i] = toWorker[i + 1] /\ i + 1 \in DOMAIN toWorker
      /\ \A s, b : Returned(toWorker, s, b) => Returned(toWorker', s, b) \/ m = Release(s, b)
      /\ \A k \in DOMAIN toWorker' : toWorker'[k].type = "FrameBegin" =>
           /\ \A i \in DOMAIN toWorker' : i < k => toWorker'[i].type = "BufferRelease"
           /\ \A s \in Slides : \A b \in rings[s].busy :
                \/ <<s, b>> \in hist.lost \/ ReturnedBefore(toWorker', k, s, b)
                \/ m = Release(s, b)
      /\ tool.pc \notin {"spawn", "end"}
  BY <1>1, Serving
<1>3. m.slide \in Slides /\ m.buffer \in Buffers /\ \A s, b : m = Release(s, b) => m.slide = s /\ m.buffer = b
  BY <1>1, <1>2, MessageFields DEF Release
<1>4. tool.pc \in {"frame", "done", "shutdown", "reap"}
  <2>1. tool.pc \notin {"hello", "ack", "compile"}
    BY <1>1, <1>2 DEF SnapInv, PhaseInv, Msg
  <2>2. tool.pc # "result"
    <3>1. SetSource(tool.source + 1).type = "SetSource"
      BY DEF SetSource
    <3> QED  BY <1>1, <1>2, <3>1 DEF SnapInv, PhaseInv, CompileAsked, CompileRuns, CompileAnswered
  <2> QED  BY <1>2, <2>1, <2>2 DEF SnapInv, TypeInv, TypeOK
<1> HIDE DEF m
<1>5. /\ rings' \in [Slides -> Rings]
      /\ \A s \in Slides : /\ rings'[s].busy \subseteq rings[s].busy
                           /\ s = m.slide => m.buffer \notin rings'[s].busy
  <2>1. rings \in [Slides -> Rings]
    BY DEF SnapInv, TypeInv, TypeOK
  <2>2. \A r \in Rings : /\ Released(r, m.buffer) \in Rings
                         /\ Released(r, m.buffer).busy = r.busy \ {m.buffer}
    BY DEF Released, Rings
  <2> QED  BY <1>1, <1>3, <2>1, <2>2
<1>6. TypeInv'
  <2>1. \A i \in DOMAIN toWorker' : toWorker'[i] \in Messages
    BY <1>2
  <2> QED  BY <1>1, <1>2, <1>5, <2>1 DEF SnapInv, TypeInv, TypeOK
<1>7. PhaseInv'
  <2>1. \A T : Of(toWorker, T) => Of(toWorker', T)
    BY <1>2 DEF Of
  <2>2. FrameAsked => FrameAsked'
    <3> SUFFICES ASSUME FrameAsked PROVE FrameAsked'
      OBVIOUS
    <3>1. Len(toWorker) # 1
      BY <1>1, <1>2 DEF FrameAsked
    <3> QED  BY <1>1, <1>2, <3>1 DEF FrameAsked
  <2>3. tool.pc = "done" => FrameAsked
    BY <1>1 DEF SnapInv, PhaseInv, FrameAnswered
  <2> QED  BY <1>1, <1>4, <2>1, <2>2, <2>3 DEF SnapInv, PhaseInv
<1>8. CauseInv'
  BY <1>1 DEF SnapInv, CauseInv
<1>9. HonestInv'
  BY <1>1, <1>2, <1>4 DEF SnapInv, HonestInv, Unanswered
<1>10. StarveInv'
  <2>1. \A s \in Slides : \A b \in rings'[s].busy : b \in rings[s].busy /\ m # Release(s, b)
    BY <1>3, <1>5
  <2>2. FramesLast'
    <3> SUFFICES ASSUME NEW k \in DOMAIN toWorker', toWorker'[k].type = "FrameBegin"
                 PROVE  /\ \A i \in DOMAIN toWorker' : i < k => toWorker'[i].type = "BufferRelease"
                        /\ \A s \in Slides : \A b \in rings'[s].busy :
                             <<s, b>> \in hist.lost \/ ReturnedBefore(toWorker', k, s, b)
      BY <1>1 DEF FramesLast
    <3> QED  BY <1>2, <2>1
  <2>3. BusyAccounted'
    <3> SUFFICES ASSUME FrameToCome', NEW s \in Slides, NEW b \in rings'[s].busy
                 PROVE  <<s, b>> \in hist.lost \/ Returned(toWorker', s, b) \/ Delivered(toTool, s, b)
      BY <1>1 DEF BusyAccounted
    <3>0. FrameToCome
      BY <1>1 DEF FrameToCome
    <3>1. b \in rings[s].busy /\ m # Release(s, b)
      BY <2>1
    <3>2. <<s, b>> \in hist.lost \/ Returned(toWorker, s, b) \/ Delivered(toTool, s, b)
      BY <1>1, <3>0, <3>1 DEF SnapInv, StarveInv, BusyAccounted
    <3> QED  BY <1>2, <3>1, <3>2
  <2> QED  BY <1>1, <1>4, <2>2, <2>3 DEF SnapInv, StarveInv
<1> QED  BY <1>6, <1>7, <1>8, <1>9, <1>10 DEF SnapInv

LEMMA IOShutdownKeeps == SnapInv /\ ChildInv /\ IOShutdown => SnapInv'
<1> SUFFICES ASSUME SnapInv, ChildInv, IOShutdown PROVE SnapInv'
  OBVIOUS
<1>n. PICK n : n = Len(toWorker)
  OBVIOUS
<1>1. /\ child = "running" /\ toWorker # <<>> /\ toWorker[n] = Msg("Shutdown")
      /\ toWorker' = SubSeq(toWorker, 1, n - 1) /\ io' = "returned"
      /\ UNCHANGED <<tool, slots, late, child, work, cap, content, rings, made, toTool, hist>>
  BY <1>n DEF IOShutdown, toolVars
<1>2. /\ toWorker' \in Seq(Messages) /\ n \in DOMAIN toWorker /\ n \in Nat \ {0}
      /\ DOMAIN toWorker' = 1..(n - 1) /\ DOMAIN toWorker = 1..n
      /\ \A i \in DOMAIN toWorker' : toWorker'[i] = toWorker[i] /\ i \in DOMAIN toWorker
  <2>1. toWorker \in Seq(Messages)
    BY DEF SnapInv, TypeInv
  <2> QED  BY <1>n, <1>1, <2>1
<1>3. Msg("Shutdown").type = "Shutdown" /\ \A s, b : Release(s, b).type = "BufferRelease"
  BY DEF Msg, Release
<1>4. tool.pc = "reap"
  <2>1. tool.pc \notin {"spawn", "end"}
    BY <1>1 DEF ChildInv, WorkerGone
  <2>2. tool.pc \notin {"hello", "compile", "frame", "shutdown"}
    BY <1>1, <1>2, <1>3 DEF SnapInv, PhaseInv, Of
  <2>3. tool.pc \notin {"ack", "result"}
    <3>1. \A x : toWorker = <<x>> => toWorker[n] = x
      BY <1>n
    <3>2. Msg("Hello").type = "Hello" /\ SetSource(tool.source + 1).type = "SetSource"
      BY DEF Msg, SetSource
    <3> QED  BY <1>1, <1>3, <3>1, <3>2
             DEF SnapInv, PhaseInv, CompileAsked, CompileRuns, CompileAnswered
  <2>4. tool.pc # "done"
    BY <1>n, <1>1, <1>2, <1>3 DEF SnapInv, PhaseInv, FrameAsked, FrameAnswered
  <2> QED  BY <2>1, <2>2, <2>3, <2>4 DEF SnapInv, TypeInv, TypeOK
<1>5. TypeInv'
  <2>1. \A i \in DOMAIN toWorker' : toWorker'[i] \in Messages
    BY <1>2
  <2> QED  BY <1>1, <1>2, <2>1 DEF SnapInv, TypeInv, TypeOK
<1>6. PhaseInv'
  BY <1>1, <1>2, <1>4 DEF SnapInv, PhaseInv, Of
<1>7. CauseInv'
  BY <1>1 DEF SnapInv, CauseInv
<1>8. HonestInv'
  BY <1>1, <1>2, <1>4 DEF SnapInv, HonestInv, Unanswered
<1>9. StarveInv'
  <2>1. ASSUME NEW i \in DOMAIN toWorker, NEW s, NEW b, toWorker[i] = Release(s, b)
        PROVE  i \in DOMAIN toWorker'
    <3>1. i # n
      BY <1>1, <1>3, <2>1
    <3> QED  BY <1>2, <3>1
  <2>3. \A k, s, b : ReturnedBefore(toWorker, k, s, b) => ReturnedBefore(toWorker', k, s, b)
    BY <1>2, <2>1 DEF ReturnedBefore
  <2>4. FramesLast'
    BY <1>1, <1>2, <2>3 DEF SnapInv, StarveInv, FramesLast
  <2>5. BusyAccounted'
    BY <1>1, <1>4 DEF BusyAccounted, FrameToCome
  <2> QED  BY <1>1, <1>4, <2>4, <2>5 DEF SnapInv, StarveInv
<1> QED  BY <1>5, <1>6, <1>7, <1>8, <1>9 DEF SnapInv

(* The worker's end. *)
LEMMA EndKeeps == SnapInv /\ ChildInv /\ (Quit \/ Crash) => SnapInv'
<1> SUFFICES ASSUME SnapInv, ChildInv, Quit \/ Crash PROVE SnapInv'
  OBVIOUS
<1>1. /\ child = "running" /\ child' = "zombie"
      /\ UNCHANGED <<tool, slots, late, work, io, cap, content, rings, made, toWorker, toTool>>
      /\ \/ hist' = hist /\ io = "returned"
         \/ hist' = [hist EXCEPT !.troubles = @ \cup {"death"}]
  BY DEF Quit, Crash, Trouble, toolVars, workerVars
<1>2. /\ hist' \in [clean : 0..Sources, troubles : SUBSET Troubles, lost : SUBSET (Slides \X Buffers)]
      /\ hist'.clean = hist.clean /\ hist'.lost = hist.lost /\ hist.troubles \subseteq hist'.troubles
      /\ "death" \in hist'.troubles \/ tool.pc \in {"reap", "end"}
  BY <1>1 DEF SnapInv, PhaseInv, TypeInv, TypeOK, Troubles
<1>3. TypeInv'
  BY <1>1, <1>2 DEF SnapInv, TypeInv, TypeOK
<1>4. PhaseInv'
  BY <1>1 DEF SnapInv, PhaseInv, CompileAsked, CompileRuns, CompileAnswered, FrameAsked, FrameAnswered, Of, Waiting
<1>5. CauseInv'
  BY <1>1, <1>2 DEF SnapInv, CauseInv
<1>6. HonestInv'
  BY <1>1, <1>2 DEF SnapInv, HonestInv, Unanswered
<1>7. StarveInv'
  BY <1>1, <1>2 DEF SnapInv, StarveInv, FramesLast, BusyAccounted
<1> QED  BY <1>3, <1>4, <1>5, <1>6, <1>7 DEF SnapInv

(* Time. *)
LEMMA TimeKeeps == SnapInv /\ (Late \/ OnAlarm) => SnapInv'
<1> SUFFICES ASSUME SnapInv, Late \/ OnAlarm PROVE SnapInv'
  OBVIOUS
<1>1. CASE Late
  BY <1>1, StandingStill DEF SnapInv, Late
<1>2. CASE OnAlarm
  <2>1. /\ late /\ Ended(kTimeout) /\ child' \in {"none", "zombie", "reaped"}
        /\ UNCHANGED <<slots, workerVars, toWorker, toTool, late, hist>>
    BY <1>2 DEF OnAlarm, SnapInv, TypeInv, TypeOK
  <2>2. CausedBy(kTimeout)
    BY <2>1 DEF CausedBy, kSpawnFail, kCompileFail, kRenderException, kWorkerDeath, kTimeout
  <2> QED  BY <2>1, <2>2, CodesAre, Ending DEF SnapInv
<1> QED  BY <1>1, <1>2

-----------------------------------------------------------------------------
(* The ring hands out a free buffer. *)
LEMMA CandidateIn ==
  ASSUME NEW r \in Rings, Candidate(r) # kInvalid
  PROVE  /\ Candidate(r) \in Buffers
         /\ Acquired(r) \in Rings /\ Acquired(r).busy = r.busy \cup {Candidate(r)}
<1> DEFINE F == Free(r)
           D == {Distance(r, b) : b \in F}
           c == Candidate(r)
<1>1. KBuffers \in Nat /\ KBuffers > 0 /\ r.next \in Int /\ F \subseteq Buffers /\ Buffers \subseteq Int
  BY KBuffersAssumption DEF Rings, Buffers, Free
<1>2. F # {}
  BY DEF Candidate
<1>3. \A b \in Int : Distance(r, b) \in Nat
  BY <1>1 DEF Distance
<1>4. \E b \in F : \A d \in F : Distance(r, b) <= Distance(r, d)
  <2>1. D \in SUBSET Nat /\ D # {}
    BY <1>1, <1>2, <1>3
  <2>2. PICK n \in D : \A k \in D : n <= k
    <3> HIDE DEF D
    <3> QED  BY <2>1, SmallestOfNat
  <2> QED  BY <2>2
<1>5. c = CHOOSE b \in F : \A d \in F : Distance(r, b) <= Distance(r, d)
  BY <1>2 DEF Candidate
<1> HIDE DEF F
<1>6. c \in F
  BY <1>4, <1>5
<1>7. c \in Buffers
  BY <1>1, <1>6
<1>8. \A b \in Int : (b + 1) % KBuffers \in Buffers
  BY <1>1 DEF Buffers
<1> HIDE DEF c
<1>9. Acquired(r) = [busy |-> r.busy \cup {c}, next |-> (c + 1) % KBuffers]
  BY <1>2 DEF Acquired, F, c
<1>10. Acquired(r) \in Rings
  BY <1>7, <1>8, <1>9 DEF Rings, Buffers
<1> QED  BY <1>7, <1>9, <1>10 DEF c

LEMMA TakeFrameKeeps == SnapInv /\ ChildInv /\ TakeFrame => SnapInv' /\ (ToldInv => ToldInv')
<1> SUFFICES ASSUME SnapInv, ChildInv, TakeFrame PROVE SnapInv' /\ (ToldInv => ToldInv')
  OBVIOUS
<1> DEFINE got == {[slide |-> s, buffer |-> Candidate(rings[s])] :
                     s \in {x \in content : Candidate(rings[x]) # kInvalid}}
           fresh == {r \in got : <<r.slide, r.buffer>> \notin made}
           first == {s \in content : \A b \in Buffers : <<s, b>> \notin made}
<1>1. /\ child = "running" /\ toWorker # <<>> /\ Head(toWorker).type = "FrameBegin"
      /\ toWorker' = Tail(toWorker) /\ work.at = "idle"
      /\ UNCHANGED <<tool, slots, late, child, work, io, cap>>
  BY DEF TakeFrame, Taking, toolVars
<1>2. PICK failed \in SUBSET fresh, silent \in SUBSET got,
              dropped \in SUBSET first, threw \in BOOLEAN, sent \in BOOLEAN :
        LET R == got \ (failed \cup silent)
            new == {Announce(r.slide, r.buffer) : r \in fresh \ failed}
        IN  /\ failed \cap silent = {} /\ (threw => R # {}) /\ (~ sent => threw)
            /\ dropped \subseteq {r.slide : r \in R}
            /\ Answer(InSomeOrder(new)
                        \o IF sent THEN <<FrameDone(R, threw)>> ELSE <<>>)
            /\ content' = content \ dropped
            /\ made' = made \cup {<<r.slide, r.buffer>> : r \in got \ failed}
            /\ rings' = [s \in Slides |->
                 CASE s \in {r.slide : r \in got \ failed} -> Acquired(rings[s])
                   [] s \in {r.slide : r \in failed} ->
                        Released(Acquired(rings[s]), Candidate(rings[s]))
                   [] OTHER -> rings[s]]
            /\ hist' = [hist EXCEPT
                           !.troubles = @ \cup Reported(threw, silent # {}, failed \cup dropped # {}),
                           !.lost = @ \cup {<<r.slide, r.buffer>> : r \in silent}]
  BY ZenonT(30) DEF TakeFrame
<1> DEFINE R == got \ (failed \cup silent)
           new == {Announce(r.slide, r.buffer) : r \in fresh \ failed}
           o == InSomeOrder(new)
           d == FrameDone(R, threw)
           e == IF sent THEN <<d>> ELSE <<>>
<1>3. /\ toWorker' \in Seq(Messages)
      /\ Head(toWorker) = toWorker[1] /\ 1 \in DOMAIN toWorker /\ DOMAIN toWorker = 1..Len(toWorker)
      /\ Len(toWorker) \in Nat \ {0} /\ Len(toWorker') = Len(toWorker) - 1
      /\ DOMAIN toWorker' = 1..(Len(toWorker) - 1)
      /\ \A i \in DOMAIN toWorker' : toWorker'[i] = toWorker[i + 1] /\ i + 1 \in DOMAIN toWorker
      /\ \A k \in DOMAIN toWorker' : toWorker'[k].type # "FrameBegin"
      /\ tool.pc \notin {"spawn", "end"}
  BY <1>1, Serving
<1>4. tool.pc \in {"done", "shutdown", "reap"}
  <2>1. tool.pc \notin {"hello", "ack", "compile", "frame"}
    BY <1>1, <1>3 DEF SnapInv, PhaseInv, Msg, Of
  <2>2. tool.pc # "result"
    <3>1. SetSource(tool.source + 1).type = "SetSource"
      BY DEF SetSource
    <3> QED  BY <1>1, <1>3, <3>1 DEF SnapInv, PhaseInv, CompileAsked, CompileRuns, CompileAnswered
  <2> QED  BY <1>3, <2>1, <2>2 DEF SnapInv, TypeInv, TypeOK
<1>5. \A r \in got : /\ r.slide \in Slides /\ r.buffer = Candidate(rings[r.slide])
                     /\ r.buffer \in Buffers /\ Candidate(rings[r.slide]) # kInvalid
                     /\ r = [slide |-> r.slide, buffer |-> r.buffer]
  <2>1. content \subseteq Slides /\ rings \in [Slides -> Rings]
    BY DEF SnapInv, TypeInv, TypeOK
  <2> QED  BY <2>1, CandidateIn
<1>6. got \subseteq [slide : Slides, buffer : Buffers] /\ IsFiniteSet(got)
  <2>1. got \subseteq [slide : Slides, buffer : Buffers]
    BY <1>5
  <2> QED  BY <2>1, PartsFinite
<1> HIDE DEF got
<1>7. d \in Messages /\ d.type = "FrameDone" /\ d.results = R /\ d.threw = threw
  <2>1. R \in SUBSET [slide : Slides, buffer : Buffers]
    BY <1>6
  <2> QED  BY <2>1, MessagesMade DEF FrameDone
<1>8. /\ IsFiniteSet(new) /\ new \subseteq Messages
      /\ \A x \in new : \E r \in got \ failed : /\ x.type = "TextureAnnounce" /\ x.slide = r.slide
                                                /\ x.buffer = r.buffer
  <2> DEFINE f == [r \in fresh \ failed |-> Announce(r.slide, r.buffer)]
  <2>1. IsFiniteSet(fresh \ failed)
    BY <1>6, FS_Subset
  <2>2. IsFiniteSet({f[x] : x \in DOMAIN f})
    BY <2>1, ImageIsFinite
  <2>3. new = {f[x] : x \in DOMAIN f}
    OBVIOUS
  <2>4. new \subseteq Messages
    <3> SUFFICES ASSUME NEW r \in got PROVE Announce(r.slide, r.buffer) \in Messages
      OBVIOUS
    <3>1. r.slide \in Slides /\ r.buffer \in Buffers
      BY <1>5
    <3> QED  BY <3>1, MessagesMade
  <2>5. \A x \in new : \E r \in got \ failed : /\ x.type = "TextureAnnounce" /\ x.slide = r.slide
                                              /\ x.buffer = r.buffer
    <3> SUFFICES ASSUME NEW r \in fresh \ failed
                 PROVE  LET x == Announce(r.slide, r.buffer)
                        IN  x.type = "TextureAnnounce" /\ x.slide = r.slide /\ x.buffer = r.buffer
      OBVIOUS
    <3> QED  BY DEF Announce
  <2> QED  BY <2>2, <2>3, <2>4, <2>5
<1>9. /\ o \in Seq(Messages) /\ DOMAIN o = 1..Len(o) /\ Len(o) \in Nat /\ \A i \in DOMAIN o : o[i] \in new
  BY <1>8, OrderOf
<1>r. /\ rings' \in [Slides -> Rings]
      /\ \A s \in Slides : \A b \in rings'[s].busy :
           b \in rings[s].busy \/ [slide |-> s, buffer |-> b] \in got \ failed
  <2> SUFFICES ASSUME NEW s \in Slides
               PROVE  /\ rings'[s] \in Rings
                      /\ \A b \in rings'[s].busy :
                           b \in rings[s].busy \/ [slide |-> s, buffer |-> b] \in got \ failed
    BY <1>2
  <2>0. rings[s] \in Rings
    BY DEF SnapInv, TypeInv, TypeOK
  <2> DEFINE kept == {r.slide : r \in got \ failed}
             back == {r.slide : r \in failed}
  <2>c. rings' = [x \in Slides |->
                    CASE x \in kept -> Acquired(rings[x])
                      [] x \in back -> Released(Acquired(rings[x]), Candidate(rings[x]))
                      [] OTHER -> rings[x]]
    BY <1>2
  <2>d. /\ s \in kept => \E r \in got \ failed : r.slide = s
        /\ s \in back => \E r \in failed : r.slide = s
        /\ s \in kept => s \notin back
    <3>1. \A r, q \in got : r.slide = q.slide => r = q
      BY <1>5
    <3> QED  BY <3>1
  <2> HIDE DEF kept, back
  <2>1. CASE s \in kept
    <3>1. PICK r \in got \ failed : r.slide = s
      BY <2>1, <2>d
    <3>2. r = [slide |-> s, buffer |-> Candidate(rings[s])] /\ Candidate(rings[s]) # kInvalid
      BY <1>5, <3>1
    <3>3. rings'[s] = Acquired(rings[s])
      BY <2>1, <2>c, <2>d
    <3>4. Acquired(rings[s]) \in Rings /\ Acquired(rings[s]).busy = rings[s].busy \cup {Candidate(rings[s])}
      BY <2>0, <3>2, CandidateIn
    <3> QED  BY <3>1, <3>2, <3>3, <3>4
  <2>2. CASE s \notin kept /\ s \in back
    <3>1. PICK r \in failed : r.slide = s
      BY <2>2, <2>d
    <3>2. Candidate(rings[s]) # kInvalid
      BY <1>5, <3>1
    <3>3. rings'[s] = Released(Acquired(rings[s]), Candidate(rings[s]))
      BY <2>2, <2>c
    <3>4. Acquired(rings[s]) \in Rings /\ Acquired(rings[s]).busy = rings[s].busy \cup {Candidate(rings[s])}
      BY <2>0, <3>2, CandidateIn
    <3> QED  BY <3>3, <3>4 DEF Released, Rings
  <2>3. CASE s \notin kept /\ s \notin back
    <3>1. rings'[s] = rings[s]
      BY <2>3, <2>c
    <3> QED  BY <2>0, <3>1
  <2> QED  BY <2>1, <2>2, <2>3
<1>h. /\ hist' \in [clean : 0..Sources, troubles : SUBSET Troubles, lost : SUBSET (Slides \X Buffers)]
      /\ hist'.clean = hist.clean /\ hist.troubles \subseteq hist'.troubles
      /\ "render" \in hist'.troubles <=> threw \/ "render" \in hist.troubles
      /\ hist'.troubles \subseteq hist.troubles \cup {"render", "silent", "unrendered"}
      /\ hist'.lost = hist.lost \cup {<<r.slide, r.buffer>> : r \in silent}
  <2>1. {<<r.slide, r.buffer>> : r \in silent} \subseteq Slides \X Buffers
    BY <1>5
  <2>2. /\ hist'.troubles = hist.troubles \cup Reported(threw, silent # {}, failed \cup dropped # {})
        /\ hist'.lost = hist.lost \cup {<<r.slide, r.buffer>> : r \in silent}
        /\ hist'.clean = hist.clean /\ hist' = [clean |-> hist'.clean, troubles |-> hist'.troubles,
                                                lost |-> hist'.lost]
    BY <1>2 DEF SnapInv, TypeInv, TypeOK
  <2>3. /\ Reported(threw, silent # {}, failed \cup dropped # {})
              \subseteq {"render", "silent", "unrendered"} \cap Troubles
        /\ "render" \in Reported(threw, silent # {}, failed \cup dropped # {}) <=> threw
    BY DEF Reported, Troubles
  <2> QED  BY <2>1, <2>2, <2>3 DEF SnapInv, TypeInv, TypeOK
<1>m. /\ made' \subseteq Slides \X Buffers /\ made \subseteq made'
      /\ \A r \in got \ failed : <<r.slide, r.buffer>> \in made'
  BY <1>2, <1>5 DEF SnapInv, TypeInv, TypeOK
<1>t. toTool' = toTool \o (o \o e) /\ content' \subseteq content
  BY <1>2 DEF Answer
<1>e. (sent => e = <<d>>) /\ (~ sent => e = <<>>)
  OBVIOUS
<1> HIDE DEF R, new, o, d, fresh, first, e
<1>10. /\ toTool' \in Seq(Messages)
       /\ sent => Len(toTool') \in DOMAIN toTool' /\ toTool'[Len(toTool')] = d
       /\ \A i \in DOMAIN toTool' :
            \/ i \in DOMAIN toTool /\ toTool'[i] = toTool[i]
            \/ toTool'[i] \in new
            \/ sent /\ i = Len(toTool') /\ toTool'[i] = d
  <2> DEFINE p == o \o e
  <2>1. toTool \in Seq(Messages) /\ e \in Seq(Messages) /\ o \in Seq(Messages)
    <3>1. e = <<d>> \/ e = <<>>
      BY <1>e
    <3>2. <<d>> \in Seq(Messages) /\ <<>> \in Seq(Messages)
      BY <1>7
    <3> QED  BY <1>9, <3>1, <3>2 DEF SnapInv, TypeInv
  <2>2. /\ p \in Seq(Messages)
        /\ \A j \in DOMAIN p : p[j] \in new \/ (\E k \in DOMAIN e : j = Len(o) + k /\ p[j] = e[k])
        /\ Len(p) = Len(o) + Len(e)
        /\ \A k \in DOMAIN e : Len(o) + k \in DOMAIN p /\ p[Len(o) + k] = e[k]
    <3>1. /\ p \in Seq(Messages) /\ Len(p) = Len(o) + Len(e)
          /\ \A j \in DOMAIN p : \/ j \in DOMAIN o /\ p[j] = o[j]
                                 \/ \E k \in DOMAIN e : j = Len(o) + k /\ p[j] = e[k]
          /\ \A k \in DOMAIN e : Len(o) + k \in DOMAIN p /\ p[Len(o) + k] = e[k]
      BY <2>1, OneAfterTheOther
    <3> QED  BY <1>9, <3>1
  <2> HIDE DEF p
  <2>3. /\ toTool' \in Seq(Messages) /\ Len(toTool') = Len(toTool) + Len(p)
        /\ \A i \in DOMAIN toTool' : \/ i \in DOMAIN toTool /\ toTool'[i] = toTool[i]
                                     \/ \E j \in DOMAIN p : i = Len(toTool) + j /\ toTool'[i] = p[j]
        /\ \A j \in DOMAIN p : Len(toTool) + j \in DOMAIN toTool' /\ toTool'[Len(toTool) + j] = p[j]
    <3>1. toTool' = toTool \o p
      BY <1>t DEF p
    <3>2. /\ toTool \o p \in Seq(Messages) /\ Len(toTool \o p) = Len(toTool) + Len(p)
          /\ \A i \in DOMAIN (toTool \o p) :
               \/ i \in DOMAIN toTool /\ (toTool \o p)[i] = toTool[i]
               \/ \E j \in DOMAIN p : i = Len(toTool) + j /\ (toTool \o p)[i] = p[j]
          /\ \A j \in DOMAIN p : /\ Len(toTool) + j \in DOMAIN (toTool \o p)
                                 /\ (toTool \o p)[Len(toTool) + j] = p[j]
      BY <2>1, <2>2, OneAfterTheOther, Zenon
    <3> QED  BY <3>1, <3>2, Zenon
  <2>4. Len(toTool) \in Nat /\ Len(o) \in Nat
    BY <2>1
  <2>5. CASE sent
    <3>1. e = <<d>> /\ Len(e) = 1 /\ DOMAIN e = {1} /\ e[1] = d
      BY <1>e, <2>5
    <3>2. Len(toTool') = Len(toTool) + (Len(o) + 1) /\ Len(o) + 1 \in DOMAIN p /\ p[Len(o) + 1] = d
      BY <2>2, <2>3, <3>1
    <3>3. Len(toTool') \in DOMAIN toTool' /\ toTool'[Len(toTool')] = d
      BY <2>3, <3>2
    <3>4. \A j \in DOMAIN p : p[j] \in new \/ (j = Len(o) + 1 /\ p[j] = d)
      BY <2>2, <3>1
    <3> QED  BY <2>3, <2>5, <3>2, <3>3, <3>4
  <2>6. CASE ~ sent
    <3>1. DOMAIN e = {}
      BY <1>e, <2>6
    <3> QED  BY <2>2, <2>3, <2>6, <3>1
  <2> QED  BY <2>5, <2>6
<1>a. ASSUME tool.pc = "done"
      PROVE  FrameAnswered' /\ (~ sent => ~ FrameToCome')
  <2>1. FrameAsked
    BY <1>1, <1>a DEF SnapInv, PhaseInv, FrameAnswered
  <2>2. Len(toWorker) = 1
    BY <1>1, <1>3, <2>1 DEF FrameAsked
  <2>3. toWorker' = <<>> /\ DOMAIN toTool = {}
    BY <1>3, <2>1, <2>2 DEF FrameAsked
  <2>4. \A x \in new : x.type = "TextureAnnounce"
    BY <1>8
  <2> QED  BY <1>1, <1>7, <1>10, <1>a, <2>3, <2>4 DEF FrameAnswered, FrameToCome
<1>11. TypeInv'
  <2>1. \A i \in DOMAIN toWorker' : toWorker'[i] \in Messages
    BY <1>3
  <2>2. \A i \in DOMAIN toTool' : toTool'[i] \in Messages
    BY <1>10
  <2>3. content' \subseteq Slides
    BY <1>t DEF SnapInv, TypeInv, TypeOK
  <2> QED  BY <1>1, <1>3, <1>10, <1>r, <1>h, <1>m, <2>1, <2>2, <2>3 DEF SnapInv, TypeInv, TypeOK
<1>12. PhaseInv'
  <2>1. \A T : Of(toWorker, T) => Of(toWorker', T)
    BY <1>3 DEF Of
  <2> QED  BY <1>1, <1>4, <1>a, <2>1 DEF SnapInv, PhaseInv
<1>13. CauseInv'
  <2>1. \A x \in new : x.type = "TextureAnnounce"
    BY <1>8
  <2>2. \A i \in DOMAIN toTool' :
          /\ toTool'[i].type = "HelloAck" /\ ~ toTool'[i].shm => "gl" \in hist'.troubles
          /\ toTool'[i].type = "CompileResult" /\ toTool'[i].outcome # "clean" => "source" \in hist'.troubles
          /\ toTool'[i].type = "FrameDone" /\ toTool'[i].threw => "render" \in hist'.troubles
    BY <1>7, <1>10, <1>h, <2>1 DEF SnapInv, CauseInv
  <2> QED  BY <1>1, <1>h, <2>2 DEF SnapInv, CauseInv
<1>14. HonestInv'
  <2>1. tool.exit = kOk => tool.pc = "done"
    BY <1>1, <1>3, <1>4 DEF SnapInv, HonestInv
  <2> QED  BY <1>1, <1>4, <1>h, <2>1 DEF SnapInv, HonestInv, Unanswered
<1>15. StarveInv'
  <2>1. \A i \in DOMAIN toTool' :
          toTool'[i].type = "TextureAnnounce" => <<toTool'[i].slide, toTool'[i].buffer>> \in made'
    <3> SUFFICES ASSUME NEW i \in DOMAIN toTool', toTool'[i].type = "TextureAnnounce"
                 PROVE  <<toTool'[i].slide, toTool'[i].buffer>> \in made'
      OBVIOUS
    <3>1. CASE i \in DOMAIN toTool /\ toTool'[i] = toTool[i]
      BY <1>m, <3>1 DEF SnapInv, StarveInv
    <3>2. CASE toTool'[i] \in new
      BY <1>8, <1>m, <3>2
    <3>3. CASE toTool'[i] = d
      BY <1>7, <3>3
    <3> QED  BY <1>10, <3>1, <3>2, <3>3
  <2>2. \A s \in Slides : \A b \in rings[s].busy : <<s, b>> \in hist.lost
    <3>1. \A s, b : ~ ReturnedBefore(toWorker, 1, s, b)
      BY <1>3 DEF ReturnedBefore
    <3> QED  BY <1>1, <1>3, <3>1 DEF SnapInv, StarveInv, FramesLast
  <2>3. ASSUME sent, NEW s \in Slides, NEW b \in rings'[s].busy
        PROVE  <<s, b>> \in hist'.lost \/ Delivered(toTool', s, b)
    <3>1. CASE b \in rings[s].busy
      BY <1>h, <2>2, <3>1
    <3>2. CASE [slide |-> s, buffer |-> b] \in silent
      BY <1>h, <3>2
    <3>3. CASE [slide |-> s, buffer |-> b] \in R
      BY <1>7, <1>10, <2>3, <3>3 DEF Delivered
    <3> QED  BY <1>r, <3>1, <3>2, <3>3 DEF R
  <2>4. FramesLast'
    BY <1>3 DEF FramesLast
  <2>5. ~ sent => ~ FrameToCome'
    <3>1. tool'.pc # "done" => ~ FrameToCome'
      BY <1>1, <1>4 DEF FrameToCome
    <3> QED  BY <1>1, <1>a, <3>1
  <2>6. BusyAccounted'
    BY <2>3, <2>5 DEF BusyAccounted
  <2> QED  BY <1>1, <1>4, <2>1, <2>4, <2>6 DEF StarveInv
<1>16. ASSUME ToldInv PROVE ToldInv'
  <2>1. tool.exit = kOk => Coded \cap hist.troubles = {}
    BY <1>1, <1>16 DEF ToldInv, Coded, GlUntold, SourceUntold, RenderUntold
  <2>2. tool.exit = kOk => tool.pc = "done"
    BY <1>1, <1>3, <1>4 DEF SnapInv, HonestInv
  <2>3. ASSUME tool.exit = kOk, threw
        PROVE  RenderUntold'
    <3>1. FrameAsked
      BY <1>1, <2>2, <2>3 DEF SnapInv, PhaseInv, FrameAnswered
    <3>2. toWorker' = <<>> /\ DOMAIN toTool = {}
      BY <1>1, <1>3, <3>1 DEF FrameAsked
    <3>3. \A x \in new : x.type = "TextureAnnounce"
      BY <1>8
    <3> QED  BY <1>1, <1>7, <1>10, <2>2, <2>3, <3>2, <3>3 DEF RenderUntold
  <2>4. Coded \cap hist'.troubles \subseteq (Coded \cap hist.troubles) \cup {"render"}
    BY <1>h DEF Coded
  <2> QED  BY <1>1, <1>h, <2>1, <2>3, <2>4 DEF ToldInv, Coded
<1> QED  BY <1>11, <1>12, <1>13, <1>14, <1>15, <1>16 DEF SnapInv

-----------------------------------------------------------------------------
LEMMA SnapInvInit == Init => SnapInv
<1> SUFFICES ASSUME Init PROVE SnapInv
  OBVIOUS
<1>1. /\ tool = [pc |-> "spawn", exit |-> kOk, source |-> 0, frame |-> 0, looked |-> FALSE]
      /\ slots = {} /\ child = "none" /\ io = "off" /\ content = {} /\ made = {}
      /\ work = [at |-> "hello", source |-> 0, outcome |-> "clean"]
      /\ rings = [s \in Slides |-> FreshRing] /\ toWorker = <<>> /\ toTool = <<>> /\ late = FALSE
      /\ hist = [clean |-> 0, troubles |-> {}, lost |-> {}]
  BY DEF Init, FreshWork
<1>2. /\ DOMAIN toWorker = {} /\ DOMAIN toTool = {}
      /\ toWorker \in Seq(Messages) /\ toTool \in Seq(Messages)
  BY <1>1
<1>3. FreshRing \in Rings /\ FreshRing.busy = {}
  BY KBuffersAssumption DEF FreshRing, Rings, Buffers
<1>4. kOk \in Codes
  BY CodesAre
<1>5. TypeInv
  <2>1. cap \in Captures
    BY CaptureInit DEF CaptureInv
  <2>2. tool \in Tools
    BY <1>1, <1>4, SnapAssumption DEF Tools, Codes
  <2>3. work \in [at : {"hello", "idle", "compile", "restore", "join", "answer"},
                 source : 0..Sources, outcome : Outcomes]
    BY <1>1, SnapAssumption DEF Outcomes
  <2>4. hist \in [clean : 0..Sources, troubles : SUBSET Troubles, lost : SUBSET (Slides \X Buffers)]
    BY <1>1, SnapAssumption
  <2> QED  BY <1>1, <1>2, <1>3, <2>1, <2>2, <2>3, <2>4 DEF TypeInv, TypeOK, Tools
<1>6. PhaseInv
  BY <1>1 DEF PhaseInv
<1>7. CauseInv
  BY <1>1, <1>2 DEF CauseInv, kOk, kSpawnFail, kCompileFail, kRenderException, kWorkerDeath, kTimeout
<1>8. HonestInv
  BY <1>1 DEF HonestInv, Unanswered
<1>9. StarveInv
  BY <1>1, <1>2, <1>3 DEF StarveInv, FramesLast, BusyAccounted
<1> QED  BY <1>5, <1>6, <1>7, <1>8, <1>9 DEF SnapInv

LEMMA SnapInvNext == SnapInv /\ ChildInv /\ CaptureInv /\ CaptureInv' /\ [Next]_vars => SnapInv'
<1> SUFFICES ASSUME SnapInv, ChildInv, CaptureInv, CaptureInv', [Next]_vars PROVE SnapInv'
  OBVIOUS
<1>1. CASE Tool
  BY <1>1, ToolKeeps
<1>2. CASE Late \/ OnAlarm
  BY <1>2, TimeKeeps
<1>3. CASE Quit \/ Crash
  BY <1>3, EndKeeps
<1>4. CASE TakeHello \/ TakeSource \/ SendResult \/ TakeFrame \/ TakeRelease \/ IOShutdown
  BY <1>4, TakeHelloKeeps, TakeSourceKeeps, SendResultKeeps, TakeFrameKeeps, TakeReleaseKeeps,
     IOShutdownKeeps
<1>5. CASE EndCompile \/ Restore \/ Join \/ ReaderStep \/ ReaderFails \/ Write \/ Fork \/ HeirExits
  <2>1. /\ UNCHANGED <<toolVars, child, io, content, rings, made, toWorker, toTool, hist>>
        /\ \/ work' = work
           \/ /\ work.at \in {"compile", "restore", "join"}
              /\ \E at \in {"restore", "join", "answer"} : work' = [work EXCEPT !.at = at]
    BY <1>5 DEF EndCompile, Restore, Join, ReaderStep, ReaderFails, Write, Fork, HeirExits, CompileStep,
                CaptureStep, InCompile, Compiling
  <2>2. cap' \in Captures
    BY DEF CaptureInv
  <2> QED  BY <2>1, <2>2, CaptureGoesOn DEF SnapInv
<1>6. CASE UNCHANGED vars
  <2>1. UNCHANGED <<tool, late, slots, child, workerVars, toWorker, toTool, hist>>
    BY <1>6 DEF vars, workerVars
  <2> QED  BY <2>1, StandingStill DEF SnapInv
<1> QED  BY <1>1, <1>2, <1>3, <1>4, <1>5, <1>6 DEF Next, Work

LEMMA ToldInit == Init => ToldInv
  BY DEF Init, ToldInv

(* No trouble that has a code, and none that comes. *)
LEMMA NothingToTell ==
  ASSUME tool'.exit = kOk => Coded \cap hist.troubles = {}, hist' = hist
  PROVE  ToldInv'
BY DEF ToldInv, Coded

(* What is to be told stays so while main waits and the messages that may  *)
(* leave the queue are others.                                             *)
LEMMA StillUntold ==
  ASSUME ToldInv, tool'.pc = tool.pc, tool'.exit = tool.exit,
         toWorker' = toWorker, work.at = "idle" => work'.at = "idle",
         \A i \in DOMAIN toTool' : \E j \in DOMAIN toTool : toTool'[i] = toTool[j],
         Coded \cap hist'.troubles \subseteq hist.troubles
  PROVE  ToldInv'
<1>1. GlUntold => GlUntold'
  BY DEF GlUntold
<1>2. SourceUntold => SourceUntold'
  BY DEF SourceUntold
<1>3. RenderUntold => RenderUntold'
  BY DEF RenderUntold
<1> QED  BY <1>1, <1>2, <1>3 DEF ToldInv, Coded

LEMMA ToldNext == SnapInv /\ ChildInv /\ ToldInv /\ [Next]_vars => ToldInv'
<1> SUFFICES ASSUME SnapInv, ChildInv, ToldInv, [Next]_vars PROVE ToldInv'
  OBVIOUS
<1>c. /\ kSpawnFail # kOk /\ kTimeout # kOk
      /\ Failed(tool.exit, kWorkerDeath) = kWorkerDeath /\ kWorkerDeath # kOk
      /\ Failed(tool.exit, kTimeout) = kTimeout
      /\ Failed(tool.exit, kCompileFail) # kOk /\ Failed(tool.exit, kRenderException) # kOk
  BY DEF Failed, kOk, kSpawnFail, kCompileFail, kRenderException, kWorkerDeath, kTimeout
<1>t. tool \in Tools
  BY DEF SnapInv, TypeInv, TypeOK, Tools
<1>q. toTool \in Seq(Messages) /\ toWorker \in Seq(Messages)
  BY DEF SnapInv, TypeInv
<1>1. CASE tool'.exit # kOk
  BY <1>1 DEF ToldInv
<1>2. ASSUME hist' = hist, tool'.exit = tool.exit,
             tool.pc \notin {"ack", "result", "done"} \/ toWorker # <<>>
      PROVE  ToldInv'
  <2>1. tool.exit = kOk => Coded \cap hist.troubles = {}
    BY <1>2 DEF ToldInv, Coded, GlUntold, SourceUntold, RenderUntold
  <2> QED  BY <1>2, <2>1, NothingToTell
<1>3. ASSUME SpawnFails \/ TimesOut \/ Disconnects \/ OnAlarm
      PROVE  tool'.exit # kOk
  BY <1>3, <1>c, <1>t DEF SpawnFails, TimesOut, Disconnects, OnAlarm, GivesUp, KillAndEnd, Ended, Tools
<1>4. CASE SpawnWorker
  <2>1. hist' = hist /\ tool'.exit = tool.exit /\ tool.pc = "spawn"
    BY <1>4, <1>t DEF SpawnWorker, Tools
  <2> QED  BY <1>2, <2>1
<1>5. CASE SendHello
  <2>1. hist' = hist /\ (tool'.exit = tool.exit \/ tool'.exit # kOk) /\ tool.pc = "hello"
    BY <1>5, <1>c, <1>t DEF SendHello, KillAndEnd, Ended, Tools
  <2> QED  BY <1>1, <1>2, <2>1
<1>6. CASE SendSource
  <2>1. tool.pc = "compile" /\ (tool'.exit # kOk \/ (hist' = hist /\ tool'.exit = tool.exit))
    BY <1>6, <1>c, <1>t DEF SendSource, KillAndEnd, Ended, Tools
  <2> QED  BY <1>1, <1>2, <2>1
<1>7. CASE SendFrameBegin
  <2>1. hist' = hist /\ (tool'.exit = tool.exit \/ tool'.exit # kOk) /\ tool.pc = "frame"
    BY <1>7, <1>c, <1>t DEF SendFrameBegin, Tools
  <2> QED  BY <1>1, <1>2, <2>1
<1>8. CASE SendShutdown \/ ReapOrKill
  <2>1. hist' = hist /\ tool'.exit = tool.exit /\ tool.pc \in {"shutdown", "reap"}
    BY <1>8, <1>t DEF SendShutdown, ReapOrKill, Ended, Tools
  <2> QED  BY <1>2, <2>1
<1>9. CASE FindsNothing \/ LooksAtWorker \/ Late \/ UNCHANGED vars
  <2>1. \/ tool'.exit # kOk
        \/ /\ tool'.exit = tool.exit /\ tool'.pc = tool.pc
           /\ UNCHANGED <<toWorker, toTool, work, hist>>
    BY <1>9, <1>c, <1>t DEF FindsNothing, LooksAtWorker, Late, Ended, vars, workerVars, Tools
  <2> QED  BY <1>1, <2>1, StillUntold
<1>10. CASE RecvAnnounce \/ RecvCompileBusy
  <2>1. UNCHANGED <<tool, toWorker, work, hist>> /\ toTool # <<>> /\ toTool' = Tail(toTool)
    BY <1>10 DEF RecvAnnounce, RecvCompileBusy, Receiving, workerVars
  <2>2. \A i \in DOMAIN toTool' : \E j \in DOMAIN toTool : toTool'[i] = toTool[j]
    BY <1>q, <2>1, TailOf
  <2> QED  BY <2>1, <2>2, StillUntold
<1>11. CASE RecvHelloAck \/ RecvCompileResult \/ RecvFrameDone
  <2>1. hist' = hist /\ toTool # <<>> /\ Head(toTool) = toTool[1] /\ 1 \in DOMAIN toTool
    BY <1>11, <1>q, TailOf DEF RecvHelloAck, RecvCompileResult, RecvFrameDone, Receiving
  <2>2. CASE RecvHelloAck
    <3>1. /\ tool.pc = "ack" /\ Head(toTool).type = "HelloAck"
          /\ tool'.exit = kOk => Head(toTool).shm /\ tool.exit = kOk
      BY <1>c, <1>t, <2>2 DEF RecvHelloAck, Receiving, KillAndEnd, Ended, Tools
    <3>2. tool'.exit = kOk => Coded \cap hist.troubles = {}
      BY <2>1, <3>1 DEF ToldInv, Coded, GlUntold, SourceUntold, RenderUntold
    <3> QED  BY <2>1, <3>2, NothingToTell
  <2>3. CASE RecvCompileResult
    <3>1. /\ tool.pc = "result" /\ Head(toTool).type = "CompileResult"
          /\ tool'.exit = kOk => Head(toTool).outcome = "clean" /\ tool.exit = kOk
      BY <1>c, <1>t, <2>3 DEF RecvCompileResult, Receiving, Clean, Tools
    <3>2. tool'.exit = kOk => Coded \cap hist.troubles = {}
      BY <2>1, <3>1 DEF ToldInv, Coded, GlUntold, SourceUntold, RenderUntold
    <3> QED  BY <2>1, <3>2, NothingToTell
  <2>4. CASE RecvFrameDone
    <3>1. /\ tool.pc = "done" /\ Head(toTool).type = "FrameDone"
          /\ tool'.exit = kOk => ~ Head(toTool).threw /\ tool.exit = kOk
      BY <1>c, <1>t, <2>4 DEF RecvFrameDone, Receiving, Tools
    <3>2. tool'.exit = kOk => Coded \cap hist.troubles = {}
      BY <2>1, <3>1 DEF ToldInv, Coded, GlUntold, SourceUntold, RenderUntold
    <3> QED  BY <2>1, <3>2, NothingToTell
  <2> QED  BY <1>11, <2>2, <2>3, <2>4
<1>12. CASE TakeHello \/ SendResult \/ TakeFrame
  BY <1>12, TakeHelloKeeps, SendResultKeeps, TakeFrameKeeps
<1>13. CASE TakeSource \/ TakeRelease \/ IOShutdown
  <2>1. hist' = hist /\ tool' = tool /\ toWorker # <<>>
    BY <1>13 DEF TakeSource, TakeRelease, IOShutdown, Taking, toolVars
  <2> QED  BY <1>2, <2>1
<1>14. CASE EndCompile \/ Restore \/ Join \/ ReaderStep \/ ReaderFails \/ Write \/ Fork \/ HeirExits
  <2>1. /\ UNCHANGED <<tool, toWorker, toTool, hist>>
        /\ work' = work \/ work.at # "idle"
    BY <1>14 DEF EndCompile, Restore, Join, ReaderStep, ReaderFails, Write, Fork, HeirExits, CompileStep,
                 CaptureStep, InCompile, Compiling, toolVars
  <2> QED  BY <2>1, StillUntold
<1>15. CASE Quit \/ Crash
  <2>1. /\ UNCHANGED <<tool, toWorker, toTool, work>>
        /\ hist' = hist \/ hist' = [hist EXCEPT !.troubles = @ \cup {"death"}]
    BY <1>15 DEF Quit, Crash, Trouble, toolVars, workerVars
  <2>2. Coded \cap hist'.troubles \subseteq hist.troubles
    BY <2>1 DEF SnapInv, TypeInv, TypeOK, Coded
  <2> QED  BY <2>1, <2>2, StillUntold
<1> QED
  BY <1>1, <1>3, <1>4, <1>5, <1>6, <1>7, <1>8, <1>9, <1>10, <1>11, <1>12, <1>13, <1>14, <1>15
  DEF Next, Tool, Work

(* The four invariants hold together. *)
LEMMA SnapInvHolds == Spec => [](SnapInv /\ ChildInv /\ CaptureInv /\ ToldInv)
<1>1. Init => SnapInv /\ ChildInv /\ CaptureInv /\ ToldInv
  BY SnapInvInit, ChildInit, CaptureInit, ToldInit
<1>2. SnapInv /\ ChildInv /\ CaptureInv /\ ToldInv /\ [Next]_vars
        => (SnapInv /\ ChildInv /\ CaptureInv /\ ToldInv)'
  BY SnapInvNext, ChildNext, CaptureNext, ToldNext
<1> QED  BY <1>1, <1>2, PTL DEF Spec

(* Every variable keeps its type: the exit code is one that snap_main.cpp  *)
(* declares, no frame or source is counted past its number, and every ring *)
(* is one that WorkerApp.cpp can have made (snap_main.cpp:53-60, 436-642). *)
THEOREM SnapTyped == Spec => []TypeOK
<1>1. SnapInv => TypeOK
  BY DEF SnapInv, TypeInv
<1> QED  BY <1>1, SnapInvHolds, PTL

(* What the exit code says is so: 0 only after the worker found every      *)
(* source clean, every frame was answered and no exception with a message  *)
(* was thrown, and each other code only when what it names has happened    *)
(* (snap_main.cpp:53-60, 421-426, 436-642).  As in the code, 0 does not    *)
(* say that no slide threw without a message, that every slide was         *)
(* rendered, or that the worker lived on after its last answer.            *)
THEOREM ExitCodeIsHonest == Spec => []ExitCodeHonest
<1>1. ASSUME SnapInv, ToldInv PROVE ExitCodeHonest
  <2>1. ASSUME tool.pc = "end", tool.exit = kOk
        PROVE  hist.troubles \subseteq {"silent", "unrendered", "death"}
    <3>1. Coded \cap hist.troubles = {}
      BY <1>1, <2>1 DEF ToldInv, Coded, GlUntold, SourceUntold, RenderUntold
    <3>2. hist.troubles \subseteq Troubles
      BY <1>1 DEF SnapInv, TypeInv, TypeOK
    <3> QED  BY <3>1, <3>2 DEF Coded, Troubles
  <2> QED  BY <1>1, <2>1 DEF SnapInv, CauseInv, HonestInv, ExitCodeHonest
<1> QED  BY <1>1, SnapInvHolds, PTL

(* When the worker comes to a frame, it has had back every buffer that an  *)
(* answer gave away: the tool releases what it has read before it asks for *)
(* the next frame, and the socket keeps the order (snap_main.cpp:544,      *)
(* 583-622; WorkerApp.cpp:260-331).                                        *)
THEOREM RingIsNeverStarved == Spec => []RingNeverStarves
<1>1. SnapInv => RingNeverStarves
  <2> SUFFICES ASSUME SnapInv, toWorker # <<>>, Head(toWorker).type = "FrameBegin",
                      NEW s \in Slides, NEW b \in rings[s].busy
               PROVE  <<s, b>> \in hist.lost
    BY DEF RingNeverStarves
  <2>1. Head(toWorker) = toWorker[1] /\ 1 \in DOMAIN toWorker /\ DOMAIN toWorker = 1..Len(toWorker)
    BY TailOf DEF SnapInv, TypeInv
  <2>2. ~ ReturnedBefore(toWorker, 1, s, b)
    BY <2>1 DEF ReturnedBefore
  <2> QED  BY <2>1, <2>2 DEF SnapInv, StarveInv, FramesLast
<1> QED  BY <1>1, SnapInvHolds, PTL
=============================================================================
