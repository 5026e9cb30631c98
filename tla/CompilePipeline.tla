-------------------------- MODULE CompilePipeline ---------------------------
(***************************************************************************)
(* How a source file gets compiled: the editor resets its flags, the UI    *)
(* submits it (RemoteEngine::submitIfNeeded), the worker answers           *)
(* CompileBusy and CompileResult, the watchdog kills a worker that takes   *)
(* too long, and a restart resubmits all but the poisoned file.  The       *)
(* supervisor is the one of SupervisorLogic, called the way pump() calls   *)
(* it; time is left out: a deadline that is armed may or may not have      *)
(* passed, and all crashes fall into one storm window.                     *)
(*                                                                         *)
(* A request carries the revision of its file (how many times the user has *)
(* executed it) for the properties to refer to; the code sends none.       *)
(***************************************************************************)
EXTENDS Integers, Sequences, FiniteSets, FiniteSetsExt

CONSTANTS
  Files,       \* slide indices, -1 for the setup file
  Texts,       \* subset of {"good", "bad", "incomplete", "fatal"}
  Decks,       \* presentations: functions from files to what they may say
  NoFile,      \* kNoSlide
  StormLimit,  \* crashes in a row the supervisor tolerates
  MaxActs      \* bound: what the user does altogether

ASSUME PipelineAssumption ==
  /\ Files \subseteq Int /\ Files # {} /\ IsFiniteSet(Files) /\ NoFile \notin Files
  /\ Texts \subseteq {"good", "bad", "incomplete", "fatal"}
  /\ \A d \in Decks :
       /\ DOMAIN d \subseteq Files /\ DOMAIN d # {}
       /\ \A s \in DOMAIN d : d[s] \subseteq Texts /\ d[s] # {}
  /\ StormLimit \in Nat /\ MaxActs \in Nat
(* As in SupervisorLogic, for its backoff: the provers do not know it.     *)
ASSUME ShiftAssumption == \A k \in 0..30 : 2^k \in Nat \ {0}

VARIABLES
  deck,      \* the presentation that is open: never changes
  proc,      \* the worker process: "none", "running", "dead" (not yet reaped)
  logic,     \* the supervisor
  ui,        \* [phase, todo]: where the UI frame is, files still to submit
  files,     \* the UI's SourceFiles
  job,       \* the request the worker is compiling
  toWorker,  \* SetSources on the socket and in the worker's queue
  toMain,    \* CompileBusy and CompileResult on the socket
  acts,      \* what the user may still do
  hist       \* history of each file's current revision, for the properties

vars == <<proc, logic, ui, files, job, toWorker, toMain, acts, hist>>
user == <<acts, hist>>

Sup == INSTANCE SupervisorLogic WITH
         Slides <- Files, NoSlide <- NoFile, StormCount <- StormLimit,
         StormWindow <- 1, BackoffMax <- 0, Second <- 1, PingInterval <- 0,
         PongTimeout <- 0, FrameTimeout <- 0, CompileTimeout <- 0,
         MaxTime <- 0, MaxPending <- 0, now <- 0, action <- "None"

NoJob == [type |-> "none"]

(* validated is left out: nothing in the UI process reads it.              *)
FreshFile(k) ==
  [text |-> k, compiled |-> FALSE, syntax_error |-> FALSE,
   in_flight |-> FALSE, request_id |-> 0]
FreshHist == [rev |-> 0, answered |-> FALSE, named |-> FALSE, culprit |-> FALSE]

SetSource(s, id) ==
  [type |-> "SetSource", slide |-> s, id |-> id, text |-> files[s].text,
   rev |-> hist[s].rev]

(* The verdict on a text.  One the validator finds incomplete, or throws   *)
(* on, is neither compiled nor an error.                                   *)
CompileBusy(m) == [type |-> "CompileBusy", slide |-> m.slide]
CompileResult(m) ==
  [type |-> "CompileResult", slide |-> m.slide, id |-> m.id, rev |-> m.rev,
   compiled |-> m.text \in {"good", "bad"}, syntax_error |-> m.text = "bad"]

(* Requests alive in the worker; the answers main has not read.            *)
Requests ==
  {toWorker[i] : i \in DOMAIN toWorker} \cup (IF job = NoJob THEN {} ELSE {job})
Answers == {m \in {toMain[i] : i \in DOMAIN toMain} : m.type = "CompileResult"}

(* next_request_id_++: ids are only compared for equality, so any id that  *)
(* nobody remembers will do, but not 0.  (Mutant: they start at 0.)        *)
IdFromZero == IF \A s \in DOMAIN files : files[s].request_id = 0 THEN 0 ELSE 1
FreshId ==
  LET used == {m.id : m \in Requests \cup Answers} \cup {files[s].request_id : s \in DOMAIN files}
  IN  CHOOSE i \in 1..(Cardinality(used) + 1) :
        i \notin used /\ \A j \in 1..(i - 1) : j \in used

Init ==
  /\ deck \in Decks
  /\ proc = "none" /\ logic = Sup!Start(Sup!InitialLogic, 0)
  /\ ui = [phase |-> "reap", todo |-> {}]
  /\ \E texts \in [DOMAIN deck -> Texts] :
       /\ \A s \in DOMAIN deck : texts[s] \in deck[s]
       /\ files = [s \in DOMAIN deck |-> FreshFile(texts[s])]
  /\ job = NoJob /\ toWorker = <<>> /\ toMain = <<>>
  /\ acts = MaxActs /\ hist = [s \in DOMAIN deck |-> FreshHist]

-----------------------------------------------------------------------------
(* The user types, executes (Ctrl+Enter) or restarts the worker.  The      *)
(* editor runs before the UI frame's pump and, inline, between the slides. *)

UserActs ==
  /\ ui.phase \in {"reap", "submit"} /\ acts > 0 /\ acts' = acts - 1
  /\ UNCHANGED <<proc, ui, job, toWorker, toMain>>

Type(s, k) ==
  /\ UserActs /\ files[s].text # k
  /\ files' = [files EXCEPT ![s].text = k]
  /\ UNCHANGED <<logic, hist>>

(* What executing leaves of a file: a request still in flight is orphaned. *)
(* (Mutant: it is not.)                                                    *)
KeepsRequest(f) == [FreshFile(f.text) EXCEPT !.request_id = f.request_id]
Executed(f) == FreshFile(f.text)

Execute(s) ==
  /\ UserActs
  /\ files' = [files EXCEPT ![s] = Executed(@)]
  /\ hist' = [hist EXCEPT ![s] = [FreshHist EXCEPT !.rev = hist[s].rev + 1]]
  /\ UNCHANGED logic

RestartWorker ==
  /\ UserActs
  /\ logic' = Sup!RequestRestart(logic, 0)
  /\ UNCHANGED <<files, hist>>

-----------------------------------------------------------------------------
(* The UI frame: pump(), then submitIfNeeded() for every file in order.    *)

(* (Mutant: only the marker is set, not the flag that blocks.)             *)
MarksOnly(f) == [f EXCEPT !.in_flight = FALSE]
Poisoned(f) == [f EXCEPT !.in_flight = FALSE, !.compiled = TRUE, !.syntax_error = TRUE]

ApplyPoison(l) ==
  [s \in DOMAIN files |-> IF s = l.poisoned_slide THEN Poisoned(files[s]) ELSE files[s]]

(* The exit is noticed before the socket is read, and closes it: what the  *)
(* worker had still sent is lost.                                          *)
Reap ==
  /\ ui.phase = "reap" /\ proc = "dead"
  /\ LET l == Sup!OnWorkerExit(logic, 0)
     IN  /\ files' = ApplyPoison(l)
         /\ logic' = Sup!TakePoisonedSlide(l)
         /\ hist' = [s \in DOMAIN hist |->
                      [hist[s] EXCEPT
                         !.answered = FALSE,
                         !.named = @ \/ l.poisoned_slide = s,
                         !.culprit = @ \/ (job # NoJob /\ job.slide = s
                                           /\ job.rev = hist[s].rev)]]
  /\ proc' = "none" /\ job' = NoJob /\ toMain' = <<>> /\ toWorker' = <<>>
  /\ ui' = [ui EXCEPT !.phase = "drain"]
  /\ UNCHANGED acts

NothingToReap ==
  /\ ui.phase = "reap" /\ proc # "dead"
  /\ ui' = [ui EXCEPT !.phase = "drain"]
  /\ UNCHANGED <<proc, logic, files, job, toWorker, toMain, user>>

Receiving(type) ==
  /\ ui.phase = "drain" /\ proc # "none"
  /\ toMain # <<>> /\ Head(toMain).type = type
  /\ toMain' = Tail(toMain)

RecvCompileBusy ==
  /\ Receiving("CompileBusy")
  /\ logic' = Sup!OnCompileBusy(logic, Head(toMain).slide, 0)
  /\ UNCHANGED <<proc, ui, files, job, toWorker, user>>

(* A result for a request the file has forgotten is stale.  (Mutant: it is *)
(* believed.)                                                              *)
MatchesSlide(m) == TRUE
Matches(m) == files[m.slide].request_id = m.id

RecvCompileResult ==
  /\ Receiving("CompileResult")
  /\ LET m == Head(toMain)
     IN  /\ logic' = Sup!OnCompileResult(logic, m.slide, 0)
         /\ IF Matches(m)
            THEN /\ files' = [files EXCEPT ![m.slide] =
                      [@ EXCEPT !.in_flight = FALSE, !.compiled = m.compiled,
                                !.syntax_error = m.syntax_error]]
                 /\ hist' = [hist EXCEPT ![m.slide].answered = TRUE]
            ELSE UNCHANGED <<files, hist>>
  /\ UNCHANGED <<proc, ui, job, toWorker, acts>>

(* Nothing is left to read: update() follows.                              *)
Updated ==
  /\ ui.phase = "drain" /\ (proc = "none" \/ toMain = <<>>)
  /\ ui' = [phase |-> "submit", todo |-> DOMAIN files]

(* What was submitted died with the old interpreter.  (Mutants: a poisoned *)
(* file is sent again, too; an unanswered request is still waited for.)    *)
ResetsAll(f) == [f EXCEPT !.compiled = FALSE, !.syntax_error = FALSE, !.in_flight = FALSE]
ResetsVerdict(f) == IF f.syntax_error THEN f ELSE [f EXCEPT !.compiled = FALSE]
Resubmittable(f) ==
  IF f.syntax_error THEN f ELSE [f EXCEPT !.compiled = FALSE, !.in_flight = FALSE]

(* fork may fail, which the supervisor is told is an instant crash.        *)
UpdateSpawn ==
  /\ Updated /\ Sup!MaySpawn(logic, 0)
  /\ LET l == Sup!OnSpawned(Sup!Update(logic, 0, FALSE), 0)
     IN  \/ /\ proc' = "running" /\ logic' = l
            /\ files' = [s \in DOMAIN files |-> Resubmittable(files[s])]
         \/ /\ logic' = Sup!OnWorkerExit(l, 0)
            /\ UNCHANGED <<proc, files>>
  /\ UNCHANGED <<job, toWorker, toMain, user>>

(* The user asked for a restart, or a compile has taken too long; SIGTERM  *)
(* ends the worker some time later.                                        *)
UpdateKill ==
  /\ Updated
  /\ \E expired \in BOOLEAN :
       /\ expired => Sup!Armed(logic).compile \/ Sup!Armed(logic).queue
       /\ Sup!MayKill(logic, expired)
       /\ logic' = Sup!Update(logic, 0, expired)
  /\ UNCHANGED <<proc, files, job, toWorker, toMain, user>>

(* No deadline has passed, the backoff has not elapsed.                    *)
UpdateNone ==
  /\ Updated /\ ~ Sup!MayKill(logic, FALSE)
  /\ UNCHANGED <<proc, logic, files, job, toWorker, toMain, user>>

(* A file that is not settled is submitted to a living worker; a send to a *)
(* dead one fails and changes nothing.                                     *)
Wanted(f) == ~ f.compiled /\ ~ f.syntax_error /\ ~ f.in_flight
Sends == logic.spawned /\ proc = "running"

Submit ==
  /\ ui.phase = "submit" /\ ui.todo # {}
  /\ LET s == Min(ui.todo)
     IN  /\ ui' = [phase |-> IF ui.todo = {s} THEN "reap" ELSE "submit",
                   todo |-> ui.todo \ {s}]
         /\ IF Wanted(files[s]) /\ Sends
            THEN /\ toWorker' = Append(toWorker, SetSource(s, FreshId))
                 /\ files' = [files EXCEPT ![s].in_flight = TRUE,
                                           ![s].request_id = FreshId]
                 /\ logic' = Sup!OnCompileSubmitted(logic, 0)
            ELSE UNCHANGED <<toWorker, files, logic>>
  /\ UNCHANGED <<proc, job, toMain, user>>

UIStep ==
  \/ Reap \/ NothingToReap \/ RecvCompileBusy \/ RecvCompileResult
  \/ UpdateSpawn \/ UpdateKill \/ UpdateNone \/ Submit

-----------------------------------------------------------------------------
(* The worker compiles one request at a time, in order.  A fatal text      *)
(* never returns: the process crashes or hangs.                            *)

StartCompile ==
  /\ proc = "running" /\ job = NoJob /\ toWorker # <<>>
  /\ job' = Head(toWorker) /\ toWorker' = Tail(toWorker)
  /\ toMain' = Append(toMain, CompileBusy(Head(toWorker)))
  /\ UNCHANGED <<proc, logic, ui, files, user>>

Hung == job # NoJob /\ job.text = "fatal"

FinishCompile ==
  /\ proc = "running" /\ job # NoJob /\ ~ Hung
  /\ job' = NoJob /\ toMain' = Append(toMain, CompileResult(job))
  /\ UNCHANGED <<proc, logic, ui, files, toWorker, user>>

(* At any time: slide code that is rendered can crash, too.  What the      *)
(* worker was compiling stays in `job` for `hist` until the reap.          *)
Crash ==
  /\ proc = "running"
  /\ proc' = "dead"
  /\ UNCHANGED <<logic, ui, files, job, toWorker, toMain, user>>

Next ==
  \/ UIStep \/ StartCompile \/ FinishCompile \/ Crash \/ RestartWorker
  \/ \E s \in DOMAIN deck : Execute(s) \/ \E k \in deck[s] : Type(s, k)

Spec == Init /\ [][Next /\ UNCHANGED deck]_<<vars, deck>>

(* The UI loop runs on; the worker compiles; a worker that was sent a      *)
(* signal dies; a hung compile is noticed when its deadline has passed     *)
(* (time goes on while it hangs), and an armed spawn is due in the end.    *)
Fairness ==
  /\ WF_vars(UIStep) /\ WF_vars(StartCompile \/ FinishCompile)
  /\ WF_vars(logic.killing /\ Crash)
  /\ SF_vars(Hung /\ UpdateKill) /\ SF_vars(UpdateSpawn)
FairSpec == Spec /\ Fairness

-----------------------------------------------------------------------------
(* Properties. *)

(* Type correctness of the UI's files, the supervisor and the messages.    *)
TypeOK ==
  /\ proc \in {"none", "running", "dead"} /\ logic \in Sup!Logic
  /\ ui.phase \in {"reap", "drain", "submit"} /\ ui.todo \subseteq Files
  /\ \A s \in DOMAIN deck :
       /\ files[s].text \in deck[s]
       /\ {files[s].compiled, files[s].syntax_error, files[s].in_flight} \subseteq BOOLEAN
       /\ files[s].request_id \in Nat
       /\ hist[s].rev \in 0..(MaxActs - acts)
  /\ \A m \in Requests \cup Answers : m.slide \in Files /\ m.id \in Nat \ {0}
  /\ acts \in 0..MaxActs

(* The supervisor's count of pending compiles is exact while the worker    *)
(* lives: submissions the worker has not answered plus answers main has    *)
(* not read, whatever the user orphaned meanwhile.  (It arms the queue     *)
(* deadline and holds back the frame deadline.)                            *)
PendingIsExact ==
  proc = "running" =>
    logic.compiles_pending =
      Len(toWorker) + (IF job = NoJob THEN 0 ELSE 1)
      + Cardinality({i \in DOMAIN toMain : toMain[i].type = "CompileResult"})

(* A file that waits for an answer will get it: exactly one request or     *)
(* answer with its id exists.  Otherwise it would never be compiled again, *)
(* because compile_in_flight blocks its resubmission.                      *)
WaitIsBacked ==
  proc = "running" =>
    \A s \in DOMAIN deck : files[s].in_flight =>
      /\ Cardinality({m \in Requests \cup Answers :
                        m.slide = s /\ m.id = files[s].request_id}) = 1
      /\ \A m \in Requests \cup Answers :
           m.id = files[s].request_id => m.slide = s /\ m.rev = hist[s].rev

(* "its result must not be applied over the new text": no verdict on an    *)
(* earlier revision changes what the UI holds of a file.                   *)
NoStaleVerdict ==
  [][\A s \in DOMAIN deck :
       RecvCompileResult /\ files'[s] # files[s] => Head(toMain).rev = hist[s].rev]_vars

(* The supervisor blames the right file: while compile_busy is set, its    *)
(* busy_slide is what the worker is compiling, or its answer is unread.    *)
BlamesTheRightFile ==
  proc = "running" /\ logic.compile_busy =>
    \/ job # NoJob /\ job.slide = logic.busy_slide
    \/ \E m \in Answers : m.slide = logic.busy_slide

(* "poisoned files keep syntax_error until edited": a file that the        *)
(* supervisor named at a death is in no request until the user executes    *)
(* it, however often the worker is restarted.                              *)
PoisonStaysOut ==
  \A s \in DOMAIN deck : hist[s].named => \A m \in Requests : m.slide # s

(* "Poisoned source: if a CompileBusy{S} was outstanding at death, mark S  *)
(* syntax_error ...; editing S clears it": a text whose compile a worker   *)
(* died in is not compiled again before the user executes it.              *)
CulpritStaysOut ==
  \A s \in DOMAIN deck : hist[s].culprit => \A m \in Requests : m.slide # s

(* "a failed compile (or a poisoned file) stays put until the user edits": *)
(* one worker is not asked twice for the same revision of a file.          *)
FailedStaysPut ==
  \A s \in DOMAIN deck : hist[s].answered => \A m \in Requests : m.slide # s

(* Every file is settled in the end, through crashes, hangs and restarts,  *)
(* unless the supervisor gave up or the text is incomplete.                *)
AllSettle ==
  <>[](logic.gave_up \/ \A s \in DOMAIN deck : files[s].compiled \/ files[s].text = "incomplete")
=============================================================================
