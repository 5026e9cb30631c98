----------------------- MODULE CompilePipeline_proofs -----------------------
(***************************************************************************)
(* For every presentation, every number of user acts and every storm       *)
(* limit: a poisoned file stays out of the compiler until it is executed,  *)
(* no verdict on an old text is believed, what waits will be answered, the *)
(* supervisor counts the compiles and blames the right file, and every     *)
(* variable keeps its type.  The first two arguments do not look inside    *)
(* the supervisor: whom it names at a death, and when it kills, is free    *)
(* there.                                                                  *)
(***************************************************************************)
EXTENDS CompilePipeline, ProofLemmas

(* What has happened to a queue in a step: nothing, a message read, a      *)
(* message sent, or all of it lost.                                        *)
InQueue(q) == {q[i] : i \in DOMAIN q}

LEMMA AppendAdds ==
  ASSUME NEW q, NEW M, q \in Seq(M), NEW m
  PROVE  InQueue(Append(q, m)) = InQueue(q) \cup {m} /\ Append(q, m) \in Seq(M \cup {m})
<1>1. Append(q, m) \in Seq(M \cup {m})
  OBVIOUS
<1>2. /\ DOMAIN Append(q, m) = DOMAIN q \cup {Len(q) + 1}
      /\ \A i \in DOMAIN q : Append(q, m)[i] = q[i]
      /\ Append(q, m)[Len(q) + 1] = m
  OBVIOUS
<1> QED  BY <1>1, <1>2 DEF InQueue

LEMMA TailTakes ==
  ASSUME NEW q, NEW M, q \in Seq(M), q # <<>>
  PROVE  /\ InQueue(Tail(q)) \subseteq InQueue(q) /\ Head(q) \in InQueue(q)
         /\ Tail(q) \in Seq(M) /\ Head(q) \in M
<1>1. Tail(q) \in Seq(M) /\ Head(q) \in M /\ Head(q) = q[1] /\ 1 \in DOMAIN q
  OBVIOUS
<1>2. \A i \in DOMAIN Tail(q) : Tail(q)[i] = q[i + 1] /\ i + 1 \in DOMAIN q
  OBVIOUS
<1> QED  BY <1>1, <1>2 DEF InQueue

-----------------------------------------------------------------------------
(* The state and what is under way. *)

FileFields == {"text", "compiled", "syntax_error", "in_flight", "request_id"}
HistFields == {"rev", "answered", "named", "culprit"}
Shape ==
  /\ DOMAIN files = DOMAIN deck /\ DOMAIN hist = DOMAIN deck
  /\ \A s \in DOMAIN deck : FileFields \subseteq DOMAIN files[s] /\ HistFields \subseteq DOMAIN hist[s]

(* Both queues are sequences.                                              *)
Queues ==
  /\ \E M : toWorker \in Seq(M)
  /\ \E M : toMain \in Seq(M)

UnderWay == Requests \cup Answers

(* A file the supervisor has named is marked, and nothing of it is under   *)
(* way.                                                                    *)
NamedIsOut ==
  \A s \in DOMAIN deck : hist[s].named =>
    files[s].syntax_error /\ \A m \in UnderWay : m.slide # s

PoisonInv == Shape /\ Queues /\ NamedIsOut

(* The same request, on its way there or back. *)
SameRequest(m, n) == m.slide = n.slide /\ m.id = n.id /\ m.rev = n.rev
OnlyOld == \A m \in UnderWay' : \E n \in UnderWay : SameRequest(m, n)

LEMMA QueuesStand ==
  ASSUME Queues, UNCHANGED <<toWorker, toMain, job>>
  PROVE  Queues' /\ OnlyOld
BY DEF Queues, OnlyOld, UnderWay, Requests, Answers, SameRequest

LEMMA QueuesCleared ==
  ASSUME toWorker' = <<>>, toMain' = <<>>, job' = NoJob
  PROVE  Queues' /\ OnlyOld
<1>1. <<>> \in Seq({}) /\ DOMAIN <<>> = {}
  OBVIOUS
<1> QED  BY <1>1 DEF Queues, OnlyOld, UnderWay, Requests, Answers

LEMMA MessageRead ==
  ASSUME Queues, toMain # <<>>, toMain' = Tail(toMain), UNCHANGED <<toWorker, job>>
  PROVE  /\ Queues' /\ OnlyOld
         /\ Head(toMain).type = "CompileResult" => Head(toMain) \in UnderWay
<1>1. PICK M : toMain \in Seq(M)
  BY DEF Queues
<1>2. /\ InQueue(Tail(toMain)) \subseteq InQueue(toMain) /\ Head(toMain) \in InQueue(toMain)
      /\ Tail(toMain) \in Seq(M)
  BY <1>1, TailTakes
<1>3. Requests' = Requests /\ Answers' \subseteq Answers
  BY <1>2 DEF Requests, Answers, InQueue
<1>4. Head(toMain).type = "CompileResult" => Head(toMain) \in Answers
  BY <1>2 DEF Answers, InQueue
<1>5. Queues'
  BY <1>2 DEF Queues
<1> QED  BY <1>3, <1>4, <1>5 DEF OnlyOld, UnderWay, SameRequest

LEMMA CompileStarted ==
  ASSUME Queues, StartCompile
  PROVE  Queues' /\ OnlyOld
<1>1. PICK M : toWorker \in Seq(M)
  BY DEF Queues
<1>2. PICK N : toMain \in Seq(N)
  BY DEF Queues
<1> DEFINE busy == CompileBusy(Head(toWorker))
<1>3. /\ toWorker # <<>> /\ job' = Head(toWorker) /\ toWorker' = Tail(toWorker)
      /\ toMain' = Append(toMain, busy)
  BY DEF StartCompile
<1>4. busy.type # "CompileResult"
  BY DEF CompileBusy
<1> HIDE DEF busy
<1>5. /\ InQueue(toWorker') \subseteq InQueue(toWorker) /\ job' \in InQueue(toWorker)
      /\ toWorker' \in Seq(M)
  BY <1>1, <1>3, TailTakes
<1>6. InQueue(toMain') = InQueue(toMain) \cup {busy} /\ toMain' \in Seq(N \cup {busy})
  BY <1>2, <1>3, AppendAdds
<1>7. Answers' = Answers
  BY <1>4, <1>6 DEF Answers, InQueue
<1>8. Requests' \subseteq Requests
  BY <1>5 DEF Requests, InQueue
<1> QED  BY <1>5, <1>6, <1>7, <1>8 DEF Queues, OnlyOld, UnderWay, SameRequest

LEMMA CompileFinished ==
  ASSUME Queues, FinishCompile
  PROVE  Queues' /\ OnlyOld
<1>1. PICK N : toMain \in Seq(N)
  BY DEF Queues
<1> DEFINE result == CompileResult(job)
<1>2. job # NoJob /\ job' = NoJob /\ toWorker' = toWorker /\ toMain' = Append(toMain, result)
  BY DEF FinishCompile
<1>3. SameRequest(result, job)
  BY DEF CompileResult, SameRequest
<1> HIDE DEF result
<1>4. InQueue(toMain') = InQueue(toMain) \cup {result} /\ toMain' \in Seq(N \cup {result})
  BY <1>1, <1>2, AppendAdds
<1>5. Answers' \subseteq Answers \cup {result}
  BY <1>4 DEF Answers, InQueue
<1>6. Requests' \subseteq Requests /\ job \in Requests
  BY <1>2 DEF Requests
<1> QED  BY <1>2, <1>3, <1>4, <1>5, <1>6 DEF Queues, OnlyOld, UnderWay, SameRequest

(* A submission adds its request, with an id nobody remembers, and its     *)
(* file is the one that waits for it.                                      *)
Submitted(s) ==
  /\ Wanted(files[s])
  /\ files' = [files EXCEPT ![s].in_flight = TRUE, ![s].request_id = FreshId]
  /\ UNCHANGED hist
  /\ UnderWay' = UnderWay \cup {SetSource(s, FreshId)}

LEMMA SubmitSends ==
  ASSUME Queues, Submit
  PROVE  /\ Queues'
         /\ \/ OnlyOld /\ UNCHANGED <<files, hist>>
            \/ \E s \in {Min(ui.todo)} : Submitted(s)
<1> DEFINE s == Min(ui.todo)
           m == SetSource(s, FreshId)
<1>1. /\ IF Wanted(files[s]) /\ Sends
         THEN /\ toWorker' = Append(toWorker, m)
              /\ files' = [files EXCEPT ![s].in_flight = TRUE, ![s].request_id = FreshId]
         ELSE UNCHANGED <<toWorker, files>>
      /\ UNCHANGED <<job, toMain, hist>>
  BY DEF Submit, user
<1>2. CASE ~ (Wanted(files[s]) /\ Sends)
  BY <1>1, <1>2, QueuesStand
<1>3. CASE Wanted(files[s]) /\ Sends
  <2> HIDE DEF m
  <2>1. PICK M : toWorker \in Seq(M)
    BY DEF Queues
  <2>a. toWorker' = Append(toWorker, m)
    BY <1>1, <1>3
  <2>2. InQueue(toWorker') = InQueue(toWorker) \cup {m} /\ toWorker' \in Seq(M \cup {m})
    <3>1. /\ InQueue(Append(toWorker, m)) = InQueue(toWorker) \cup {m}
          /\ Append(toWorker, m) \in Seq(M \cup {m})
      BY <2>1, AppendAdds
    <3> QED  BY <2>a, <3>1, Zenon
  <2>3. Requests' = Requests \cup {m} /\ Answers' = Answers
    BY <1>1, <2>2 DEF Requests, Answers, InQueue
  <2>4. Queues'
    BY <1>1, <2>2 DEF Queues
  <2>5. UnderWay' = UnderWay \cup {m}
    BY <2>3 DEF UnderWay
  <2>6. Submitted(s)
    BY <1>1, <1>3, <2>5 DEF Submitted, m
  <2> QED  BY <2>4, <2>6
<1> QED  BY <1>2, <1>3

-----------------------------------------------------------------------------
(* Poison. *)

LEMMA ShapeInit == Init => Shape
<1> SUFFICES ASSUME Init PROVE Shape
  OBVIOUS
<1>1. PICK texts : files = [s \in DOMAIN deck |-> FreshFile(texts[s])]
  BY DEF Init
<1>2. hist = [s \in DOMAIN deck |-> FreshHist]
  BY DEF Init
<1> QED  BY <1>1, <1>2 DEF Shape, FreshFile, FreshHist, FileFields, HistFields

LEMMA QueuesInit == Init => Queues /\ UnderWay = {}
<1>1. <<>> \in Seq({}) /\ DOMAIN <<>> = {}
  OBVIOUS
<1> QED  BY <1>1 DEF Init, Queues, UnderWay, Requests, Answers

LEMMA PoisonInit == Init => PoisonInv
<1> SUFFICES ASSUME Init PROVE PoisonInv
  OBVIOUS
<1>1. hist = [s \in DOMAIN deck |-> FreshHist]
  BY DEF Init
<1> QED  BY <1>1, ShapeInit, QueuesInit DEF PoisonInv, NamedIsOut, FreshHist

(* Nothing new is under way, and no file loses its mark but by Execute.    *)
LEMMA PoisonKept ==
  ASSUME PoisonInv, Queues', Shape', OnlyOld, UNCHANGED deck,
         \A s \in DOMAIN deck : hist'[s].named =>
           hist[s].named /\ files'[s].syntax_error
  PROVE  PoisonInv'
BY DEF PoisonInv, NamedIsOut, OnlyOld, SameRequest, UnderWay

LEMMA PoisonNext == PoisonInv /\ [Next /\ UNCHANGED deck]_<<vars, deck>> => PoisonInv'
<1> SUFFICES ASSUME PoisonInv, [Next /\ UNCHANGED deck]_<<vars, deck>> PROVE PoisonInv'
  OBVIOUS
<1>0. deck' = deck
  BY DEF vars
<1> USE <1>0
<1>a. Shape /\ Queues /\ NamedIsOut
  BY DEF PoisonInv
<1>b. ASSUME UNCHANGED <<files, hist>>
      PROVE  Shape' /\ \A s \in DOMAIN deck : hist'[s].named => hist[s].named /\ files'[s].syntax_error
  BY <1>a, <1>b DEF Shape, NamedIsOut
<1>1. ASSUME NEW s \in DOMAIN deck, NEW k, Type(s, k)
      PROVE  PoisonInv'
  <2>1. /\ files' = [files EXCEPT ![s].text = k]
        /\ UNCHANGED <<hist, job, toWorker, toMain>>
    BY <1>1 DEF Type, UserActs
  <2>2. Shape' /\ \A t \in DOMAIN deck : files'[t].syntax_error = files[t].syntax_error
    BY <1>a, <2>1 DEF Shape, FileFields
  <2>3. Queues' /\ OnlyOld
    BY <1>a, <2>1, QueuesStand
  <2> QED  BY <1>a, <2>1, <2>2, <2>3, PoisonKept DEF NamedIsOut
<1>2. ASSUME NEW s \in DOMAIN deck, Execute(s)
      PROVE  PoisonInv'
  <2>1. /\ files' = [files EXCEPT ![s] = Executed(files[s])]
        /\ hist' = [hist EXCEPT ![s] = [FreshHist EXCEPT !.rev = hist[s].rev + 1]]
        /\ UNCHANGED <<job, toWorker, toMain>>
    BY <1>2 DEF Execute, UserActs
  <2>2. FileFields \subseteq DOMAIN Executed(files[s])
    BY DEF Executed, FreshFile, FileFields
  <2>3. LET h == [FreshHist EXCEPT !.rev = hist[s].rev + 1]
        IN  HistFields \subseteq DOMAIN h /\ h.named = FALSE
    BY DEF FreshHist, HistFields
  <2>4. Shape'
    BY <1>a, <2>1, <2>2, <2>3 DEF Shape
  <2>5. ASSUME NEW t \in DOMAIN deck, hist'[t].named
        PROVE  t # s /\ hist[t].named /\ files'[t].syntax_error
    BY <1>a, <2>1, <2>3, <2>5 DEF Shape, NamedIsOut
  <2>6. Queues' /\ OnlyOld
    BY <1>a, <2>1, QueuesStand
  <2> QED  BY <2>4, <2>5, <2>6, PoisonKept
<1>3. CASE RestartWorker
  <2>1. UNCHANGED <<files, hist, job, toWorker, toMain>>
    BY <1>3 DEF RestartWorker, UserActs
  <2> QED  BY <2>1, <1>a, <1>b, QueuesStand, PoisonKept
<1>4. CASE Reap
  <2> DEFINE l == Sup!OnWorkerExit(logic, 0)
  <2>1. /\ files' = ApplyPoison(l)
        /\ hist' = [s \in DOMAIN hist |->
                      [hist[s] EXCEPT
                         !.answered = FALSE,
                         !.named = @ \/ l.poisoned_slide = s,
                         !.culprit = @ \/ (job # NoJob /\ job.slide = s
                                           /\ job.rev = hist[s].rev)]]
        /\ job' = NoJob /\ toMain' = <<>> /\ toWorker' = <<>>
    BY <1>4 DEF Reap
  <2> HIDE DEF l
  <2>2. ASSUME NEW s \in DOMAIN deck
        PROVE  /\ HistFields \subseteq DOMAIN hist'[s]
               /\ hist'[s].named = (hist[s].named \/ l.poisoned_slide = s)
               /\ FileFields \subseteq DOMAIN files'[s]
               /\ hist'[s].named => files'[s].syntax_error
    <3>1. /\ HistFields \subseteq DOMAIN hist'[s]
          /\ hist'[s].named = (hist[s].named \/ l.poisoned_slide = s)
      BY <1>a, <2>1 DEF Shape, HistFields
    <3>2. files'[s] = IF s = l.poisoned_slide THEN Poisoned(files[s]) ELSE files[s]
      BY <1>a, <2>1 DEF Shape, ApplyPoison
    <3>3. FileFields \subseteq DOMAIN Poisoned(files[s]) /\ Poisoned(files[s]).syntax_error = TRUE
      BY <1>a DEF Shape, Poisoned, FileFields
    <3> QED  BY <1>a, <3>1, <3>2, <3>3 DEF Shape, NamedIsOut
  <2>3. Shape'
    BY <1>a, <2>1, <2>2 DEF Shape, ApplyPoison
  <2>4. Queues' /\ UnderWay' = {}
    <3>1. <<>> \in Seq({}) /\ DOMAIN <<>> = {}
      OBVIOUS
    <3> QED  BY <2>1, <3>1 DEF Queues, UnderWay, Requests, Answers
  <2> QED  BY <2>2, <2>3, <2>4 DEF PoisonInv, NamedIsOut
<1>5. CASE NothingToReap
  <2>1. UNCHANGED <<files, hist, job, toWorker, toMain>>
    BY <1>5 DEF NothingToReap, user
  <2> QED  BY <2>1, <1>a, <1>b, QueuesStand, PoisonKept
<1>6. CASE RecvCompileBusy
  <2>1. toMain # <<>> /\ toMain' = Tail(toMain) /\ UNCHANGED <<files, hist, job, toWorker>>
    BY <1>6 DEF RecvCompileBusy, Receiving, user
  <2> QED  BY <2>1, <1>a, <1>b, MessageRead, PoisonKept
<1>7. CASE RecvCompileResult
  <2> DEFINE m == Head(toMain)
  <2>1. /\ toMain # <<>> /\ m.type = "CompileResult" /\ toMain' = Tail(toMain)
        /\ UNCHANGED <<job, toWorker>>
        /\ \/ UNCHANGED <<files, hist>>
           \/ /\ files' = [files EXCEPT ![m.slide] =
                   [@ EXCEPT !.in_flight = FALSE, !.compiled = m.compiled,
                             !.syntax_error = m.syntax_error]]
              /\ hist' = [hist EXCEPT ![m.slide].answered = TRUE]
    BY <1>7 DEF RecvCompileResult, Receiving
  <2>2. m \in UnderWay /\ Queues' /\ OnlyOld
    BY <1>a, <2>1, MessageRead
  <2> HIDE DEF m
  <2>3. CASE UNCHANGED <<files, hist>>
    BY <2>2, <2>3, <1>b, PoisonKept
  <2>4. CASE /\ files' = [files EXCEPT ![m.slide] =
                  [@ EXCEPT !.in_flight = FALSE, !.compiled = m.compiled,
                            !.syntax_error = m.syntax_error]]
             /\ hist' = [hist EXCEPT ![m.slide].answered = TRUE]
    <3>1. Shape' /\ \A s \in DOMAIN deck : hist'[s].named = hist[s].named
      BY <1>a, <2>4 DEF Shape, FileFields, HistFields
    <3>2. \A s \in DOMAIN deck : s # m.slide => files'[s] = files[s]
      BY <1>a, <2>4 DEF Shape
    <3>3. \A s \in DOMAIN deck : hist[s].named => s # m.slide /\ files[s].syntax_error
      BY <1>a, <2>2 DEF NamedIsOut
    <3> QED  BY <2>2, <3>1, <3>2, <3>3, PoisonKept
  <2> QED  BY <2>1, <2>3, <2>4
<1>8. CASE UpdateSpawn
  <2>1. /\ UNCHANGED <<hist, job, toWorker, toMain>>
        /\ \/ files' = [s \in DOMAIN files |-> Resubmittable(files[s])]
           \/ files' = files
    BY <1>8 DEF UpdateSpawn, user
  <2>2. ASSUME NEW f, FileFields \subseteq DOMAIN f
        PROVE  /\ FileFields \subseteq DOMAIN Resubmittable(f)
               /\ Resubmittable(f).syntax_error = f.syntax_error
    BY <2>2 DEF Resubmittable, FileFields
  <2>3. Shape' /\ \A s \in DOMAIN deck : files'[s].syntax_error = files[s].syntax_error
    BY <1>a, <2>1, <2>2 DEF Shape
  <2> QED  BY <1>a, <2>1, <2>3, QueuesStand, PoisonKept DEF NamedIsOut
<1>9. CASE UpdateKill
  <2>1. UNCHANGED <<files, hist, job, toWorker, toMain>>
    BY <1>9 DEF UpdateKill, user
  <2> QED  BY <2>1, <1>a, <1>b, QueuesStand, PoisonKept
<1>10. CASE UpdateNone
  <2>1. UNCHANGED <<files, hist, job, toWorker, toMain>>
    BY <1>10 DEF UpdateNone, user
  <2> QED  BY <2>1, <1>a, <1>b, QueuesStand, PoisonKept
<1>11. CASE Submit
  <2>1. CASE OnlyOld /\ UNCHANGED <<files, hist>>
    BY <2>1, <1>11, <1>a, <1>b, SubmitSends, PoisonKept
  <2>2. ASSUME NEW s, Submitted(s)
        PROVE  PoisonInv'
    <3>1. /\ files' = [files EXCEPT ![s].in_flight = TRUE, ![s].request_id = FreshId]
          /\ ~ files[s].syntax_error /\ hist' = hist
          /\ UnderWay' = UnderWay \cup {SetSource(s, FreshId)}
      BY <2>2 DEF Submitted, Wanted
    <3>2. Shape' /\ \A t \in DOMAIN deck : files'[t].syntax_error = files[t].syntax_error
      BY <1>a, <3>1 DEF Shape, FileFields
    <3>3. SetSource(s, FreshId).slide = s
      BY DEF SetSource
    <3>4. NamedIsOut'
      BY <1>a, <3>1, <3>2, <3>3 DEF NamedIsOut
    <3> QED  BY <3>2, <3>4, <1>a, <1>11, SubmitSends DEF PoisonInv
  <2> QED  BY <2>1, <2>2, <1>11, <1>a, SubmitSends
<1>12. CASE StartCompile
  <2>1. UNCHANGED <<files, hist>>
    BY <1>12 DEF StartCompile, user
  <2> QED  BY <2>1, <1>12, <1>a, <1>b, CompileStarted, PoisonKept
<1>13. CASE FinishCompile
  <2>1. UNCHANGED <<files, hist>>
    BY <1>13 DEF FinishCompile, user
  <2> QED  BY <2>1, <1>13, <1>a, <1>b, CompileFinished, PoisonKept
<1>14. CASE Crash
  <2>1. UNCHANGED <<files, hist, job, toWorker, toMain>>
    BY <1>14 DEF Crash, user
  <2> QED  BY <2>1, <1>a, <1>b, QueuesStand, PoisonKept
<1>15. CASE UNCHANGED <<vars, deck>>
  <2>1. UNCHANGED <<files, hist, job, toWorker, toMain>>
    BY <1>15 DEF vars
  <2> QED  BY <2>1, <1>a, <1>b, QueuesStand, PoisonKept
<1> QED  BY <1>1, <1>2, <1>3, <1>4, <1>5, <1>6, <1>7, <1>8, <1>9, <1>10, <1>11, <1>12,
            <1>13, <1>14, <1>15 DEF Next, UIStep

(* A file that the supervisor named at a death is in no request until the  *)
(* user executes it, however often the worker is restarted                 *)
(* (RemoteEngine.cpp:144-152, 490-493, 518-532).                             *)
THEOREM PoisonedFileStaysOut == Spec => []PoisonStaysOut
<1>1. PoisonInv => PoisonStaysOut
  BY DEF PoisonInv, NamedIsOut, UnderWay, PoisonStaysOut
<1> QED  BY <1>1, PoisonInit, PoisonNext, PTL DEF Spec

-----------------------------------------------------------------------------
(* Stale verdicts. *)

LEMMA UnderWayFinite == Queues => IsFiniteSet(UnderWay)
<1> SUFFICES ASSUME Queues PROVE IsFiniteSet(UnderWay)
  OBVIOUS
<1>1. ASSUME NEW q, NEW M, q \in Seq(M)
      PROVE  IsFiniteSet({q[i] : i \in DOMAIN q})
  <2>1. DOMAIN q = 1..Len(q) /\ Len(q) \in Nat
    BY <1>1
  <2>2. IsFiniteSet(DOMAIN q)
    BY <2>1, FS_Interval
  <2> QED  BY <2>2, ImageIsFinite
<1>2. IsFiniteSet({toWorker[i] : i \in DOMAIN toWorker}) /\ IsFiniteSet({toMain[i] : i \in DOMAIN toMain})
  BY <1>1 DEF Queues
<1>3. IsFiniteSet(IF job = NoJob THEN {} ELSE {job})
  BY FS_EmptySet, FS_Singleton
<1>4. IsFiniteSet(Requests)
  BY <1>2, <1>3, FS_Union DEF Requests
<1>5. Answers \in SUBSET {toMain[i] : i \in DOMAIN toMain}
  BY DEF Answers
<1>6. IsFiniteSet(Answers)
  BY <1>2, <1>5, FS_Subset
<1> QED  BY <1>4, <1>6, FS_Union DEF UnderWay

(* There is an id that nobody remembers.                                   *)
LEMMA FreshIdIsFresh ==
  ASSUME Queues, Shape, deck \in Decks
  PROVE  /\ FreshId \in Nat \ {0}
         /\ \A m \in UnderWay : m.id # FreshId
         /\ \A s \in DOMAIN deck : files[s].request_id # FreshId
<1> DEFINE used == {m.id : m \in Requests \cup Answers} \cup {files[s].request_id : s \in DOMAIN files}
           n == Cardinality(used)
           T == {i \in 1..(n + 1) : i \notin used}
<1>1. IsFiniteSet(DOMAIN files)
  BY PipelineAssumption, FS_Subset DEF Shape
<1>2. IsFiniteSet({m.id : m \in UnderWay}) /\ IsFiniteSet({files[s].request_id : s \in DOMAIN files})
  <2> DEFINE id == [m \in UnderWay |-> m.id]
             request_id == [s \in DOMAIN files |-> files[s].request_id]
  <2>1. IsFiniteSet({id[m] : m \in DOMAIN id})
    BY UnderWayFinite, ImageIsFinite
  <2>2. IsFiniteSet({request_id[s] : s \in DOMAIN request_id})
    BY <1>1, ImageIsFinite
  <2> QED  BY <2>1, <2>2
<1>3. IsFiniteSet(used)
  BY <1>2, FS_Union DEF UnderWay
<1>4. n \in Nat
  BY <1>3, FS_CardinalityType
<1>5. FreshId = CHOOSE i \in 1..(n + 1) : i \notin used /\ \A j \in 1..(i - 1) : j \in used
  BY DEF FreshId
<1>6. \A m \in UnderWay : m.id \in used
  BY DEF UnderWay
<1>7. \A s \in DOMAIN deck : files[s].request_id \in used
  BY DEF Shape
<1> HIDE DEF used
<1>8. T # {}
  <2> SUFFICES ASSUME T = {} PROVE FALSE
    OBVIOUS
  <2>1. 1..(n + 1) \in SUBSET used
    OBVIOUS
  <2>2. Cardinality(1..(n + 1)) <= n
    BY <2>1, <1>3, FS_Subset
  <2>3. Cardinality(1..(n + 1)) = n + 1
    <3> HIDE DEF n
    <3>1. Cardinality(1..(n + 1)) = IF 1 > n + 1 THEN 0 ELSE (n + 1) - 1 + 1
      BY <1>4, FS_Interval
    <3> QED  BY <3>1, <1>4
  <2> QED  BY <2>2, <2>3, <1>4
<1>9. PICK x \in T : \A y \in T : x <= y
  <2>1. T \in SUBSET Nat
    BY <1>4
  <2> QED  BY <2>1, <1>8, SmallestOfNat
<1> HIDE DEF n
<1>10. x \in 1..(n + 1) /\ x \notin used /\ \A j \in 1..(x - 1) : j \in used
  <2>1. ASSUME NEW j \in 1..(x - 1), j \notin used
        PROVE  FALSE
    <3>1. j \in 1..(n + 1) /\ j < x
      BY <1>4
    <3> QED  BY <3>1, <2>1, <1>9
  <2> QED  BY <2>1
<1>11. FreshId \in 1..(n + 1) /\ FreshId \notin used
  BY <1>5, <1>10
<1> QED  BY <1>4, <1>6, <1>7, <1>11

(* What carries a file's id is a request for its text of now.              *)
IdsOwn ==
  \A m \in UnderWay :
    /\ m.id # 0
    /\ \A s \in DOMAIN deck :
         m.id = files[s].request_id => m.slide = s /\ m.rev = hist[s].rev

IdInv == Shape /\ Queues /\ deck \in Decks /\ IdsOwn

LEMMA IdInit == Init => IdInv
  BY ShapeInit, QueuesInit DEF Init, IdInv, IdsOwn

LEMMA IdsKept ==
  ASSUME IdInv, Queues', Shape', OnlyOld, UNCHANGED deck,
         \A s \in DOMAIN deck :
           \/ files'[s].request_id = 0
           \/ files'[s].request_id = files[s].request_id /\ hist'[s].rev = hist[s].rev
  PROVE  IdInv'
<1>1. IdsOwn'
  <2> SUFFICES ASSUME NEW m \in UnderWay'
               PROVE  /\ m.id # 0
                      /\ \A s \in DOMAIN deck : m.id = files'[s].request_id =>
                            m.slide = s /\ m.rev = hist'[s].rev
    BY DEF IdsOwn
  <2>1. PICK n \in UnderWay : SameRequest(m, n)
    BY DEF OnlyOld
  <2>2. m.id # 0 /\ m.id = n.id /\ m.slide = n.slide /\ m.rev = n.rev
    BY <2>1 DEF SameRequest, IdInv, IdsOwn
  <2> QED  BY <2>2 DEF IdInv, IdsOwn
<1> QED  BY <1>1 DEF IdInv

LEMMA IdNext == IdInv /\ [Next /\ UNCHANGED deck]_<<vars, deck>> => IdInv'
<1> SUFFICES ASSUME IdInv, [Next /\ UNCHANGED deck]_<<vars, deck>> PROVE IdInv'
  OBVIOUS
<1>0. deck' = deck
  BY DEF vars
<1> USE <1>0
<1>a. Shape /\ Queues /\ deck \in Decks /\ IdsOwn
  BY DEF IdInv
<1>b. ASSUME UNCHANGED <<files, hist>>
      PROVE  Shape' /\ \A s \in DOMAIN deck :
               files'[s].request_id = files[s].request_id /\ hist'[s].rev = hist[s].rev
  BY <1>a, <1>b DEF Shape
<1>1. ASSUME NEW s \in DOMAIN deck, NEW k, Type(s, k)
      PROVE  IdInv'
  <2>1. /\ files' = [files EXCEPT ![s].text = k]
        /\ UNCHANGED <<hist, job, toWorker, toMain>>
    BY <1>1 DEF Type, UserActs
  <2>2. Shape' /\ \A t \in DOMAIN deck : files'[t].request_id = files[t].request_id
    BY <1>a, <2>1 DEF Shape, FileFields
  <2> QED  BY <1>a, <2>1, <2>2, QueuesStand, IdsKept
<1>2. ASSUME NEW s \in DOMAIN deck, Execute(s)
      PROVE  IdInv'
  <2>1. /\ files' = [files EXCEPT ![s] = Executed(files[s])]
        /\ hist' = [hist EXCEPT ![s] = [FreshHist EXCEPT !.rev = hist[s].rev + 1]]
        /\ UNCHANGED <<job, toWorker, toMain>>
    BY <1>2 DEF Execute, UserActs
  <2>2. FileFields \subseteq DOMAIN Executed(files[s]) /\ Executed(files[s]).request_id = 0
    BY DEF Executed, FreshFile, FileFields
  <2>3. HistFields \subseteq DOMAIN [FreshHist EXCEPT !.rev = hist[s].rev + 1]
    BY DEF FreshHist, HistFields
  <2>4. Shape'
    BY <1>a, <2>1, <2>2, <2>3 DEF Shape
  <2>5. \A t \in DOMAIN deck :
          IF t = s THEN files'[t].request_id = 0
          ELSE files'[t].request_id = files[t].request_id /\ hist'[t].rev = hist[t].rev
    BY <1>a, <2>1, <2>2 DEF Shape
  <2> QED  BY <1>a, <2>1, <2>4, <2>5, QueuesStand, IdsKept
<1>3. CASE RestartWorker
  <2>1. UNCHANGED <<files, hist, job, toWorker, toMain>>
    BY <1>3 DEF RestartWorker, UserActs
  <2> QED  BY <2>1, <1>a, <1>b, QueuesStand, IdsKept
<1>4. CASE Reap
  <2> DEFINE l == Sup!OnWorkerExit(logic, 0)
  <2>1. /\ files' = ApplyPoison(l)
        /\ hist' = [s \in DOMAIN hist |->
                      [hist[s] EXCEPT
                         !.answered = FALSE,
                         !.named = @ \/ l.poisoned_slide = s,
                         !.culprit = @ \/ (job # NoJob /\ job.slide = s
                                           /\ job.rev = hist[s].rev)]]
        /\ job' = NoJob /\ toMain' = <<>> /\ toWorker' = <<>>
    BY <1>4 DEF Reap
  <2> HIDE DEF l
  <2>2. ASSUME NEW s \in DOMAIN deck
        PROVE  /\ HistFields \subseteq DOMAIN hist'[s] /\ hist'[s].rev = hist[s].rev
               /\ FileFields \subseteq DOMAIN files'[s] /\ files'[s].request_id = files[s].request_id
    <3>1. HistFields \subseteq DOMAIN hist'[s] /\ hist'[s].rev = hist[s].rev
      BY <1>a, <2>1 DEF Shape, HistFields
    <3>2. files'[s] = IF s = l.poisoned_slide THEN Poisoned(files[s]) ELSE files[s]
      BY <1>a, <2>1 DEF Shape, ApplyPoison
    <3>3. /\ FileFields \subseteq DOMAIN Poisoned(files[s])
          /\ Poisoned(files[s]).request_id = files[s].request_id
      BY <1>a DEF Shape, Poisoned, FileFields
    <3> QED  BY <1>a, <3>1, <3>2, <3>3 DEF Shape
  <2>3. Shape'
    BY <1>a, <2>1, <2>2 DEF Shape, ApplyPoison
  <2> QED  BY <1>a, <2>1, <2>2, <2>3, QueuesCleared, IdsKept
<1>5. CASE NothingToReap
  <2>1. UNCHANGED <<files, hist, job, toWorker, toMain>>
    BY <1>5 DEF NothingToReap, user
  <2> QED  BY <2>1, <1>a, <1>b, QueuesStand, IdsKept
<1>6. CASE RecvCompileBusy
  <2>1. toMain # <<>> /\ toMain' = Tail(toMain) /\ UNCHANGED <<files, hist, job, toWorker>>
    BY <1>6 DEF RecvCompileBusy, Receiving, user
  <2> QED  BY <2>1, <1>a, <1>b, MessageRead, IdsKept
<1>7. CASE RecvCompileResult
  <2> DEFINE m == Head(toMain)
  <2>1. /\ toMain # <<>> /\ toMain' = Tail(toMain) /\ UNCHANGED <<job, toWorker>>
        /\ \/ UNCHANGED <<files, hist>>
           \/ /\ files' = [files EXCEPT ![m.slide] =
                   [@ EXCEPT !.in_flight = FALSE, !.compiled = m.compiled,
                             !.syntax_error = m.syntax_error]]
              /\ hist' = [hist EXCEPT ![m.slide].answered = TRUE]
    BY <1>7 DEF RecvCompileResult, Receiving
  <2>2. Queues' /\ OnlyOld
    BY <1>a, <2>1, MessageRead
  <2> HIDE DEF m
  <2>3. CASE UNCHANGED <<files, hist>>
    BY <2>2, <2>3, <1>b, IdsKept
  <2>4. CASE /\ files' = [files EXCEPT ![m.slide] =
                  [@ EXCEPT !.in_flight = FALSE, !.compiled = m.compiled,
                            !.syntax_error = m.syntax_error]]
             /\ hist' = [hist EXCEPT ![m.slide].answered = TRUE]
    <3>1. Shape' /\ \A s \in DOMAIN deck :
            files'[s].request_id = files[s].request_id /\ hist'[s].rev = hist[s].rev
      BY <1>a, <2>4 DEF Shape, FileFields, HistFields
    <3> QED  BY <2>2, <3>1, IdsKept
  <2> QED  BY <2>1, <2>3, <2>4
<1>8. CASE UpdateSpawn
  <2>1. /\ UNCHANGED <<hist, job, toWorker, toMain>>
        /\ \/ files' = [s \in DOMAIN files |-> Resubmittable(files[s])]
           \/ files' = files
    BY <1>8 DEF UpdateSpawn, user
  <2>2. ASSUME NEW f, FileFields \subseteq DOMAIN f
        PROVE  /\ FileFields \subseteq DOMAIN Resubmittable(f)
               /\ Resubmittable(f).request_id = f.request_id
    BY <2>2 DEF Resubmittable, FileFields
  <2>3. Shape' /\ \A s \in DOMAIN deck : files'[s].request_id = files[s].request_id
    BY <1>a, <2>1, <2>2 DEF Shape
  <2> QED  BY <1>a, <2>1, <2>3, QueuesStand, IdsKept
<1>9. CASE UpdateKill
  <2>1. UNCHANGED <<files, hist, job, toWorker, toMain>>
    BY <1>9 DEF UpdateKill, user
  <2> QED  BY <2>1, <1>a, <1>b, QueuesStand, IdsKept
<1>10. CASE UpdateNone
  <2>1. UNCHANGED <<files, hist, job, toWorker, toMain>>
    BY <1>10 DEF UpdateNone, user
  <2> QED  BY <2>1, <1>a, <1>b, QueuesStand, IdsKept
<1>11. CASE Submit
  <2>1. CASE OnlyOld /\ UNCHANGED <<files, hist>>
    BY <2>1, <1>11, <1>a, <1>b, SubmitSends, IdsKept
  <2>2. ASSUME NEW s, Submitted(s)
        PROVE  IdInv'
    <3> DEFINE id == FreshId
               n == SetSource(s, id)
    <3>1. /\ files' = [files EXCEPT ![s].in_flight = TRUE, ![s].request_id = id]
          /\ hist' = hist /\ UnderWay' = UnderWay \cup {n}
      BY <2>2 DEF Submitted
    <3>2. /\ id \in Nat \ {0} /\ \A m \in UnderWay : m.id # id
          /\ \A t \in DOMAIN deck : files[t].request_id # id
      BY <1>a, FreshIdIsFresh
    <3>3. n.id = id /\ n.slide = s /\ n.rev = hist[s].rev
      BY DEF SetSource
    <3> HIDE DEF id, n
    <3>4. Shape' /\ \A t \in DOMAIN deck :
            files'[t].request_id = IF t = s THEN id ELSE files[t].request_id
      BY <1>a, <3>1 DEF Shape, FileFields
    <3>5. IdsOwn'
      <4> SUFFICES ASSUME NEW m \in UnderWay'
                   PROVE  /\ m.id # 0
                          /\ \A t \in DOMAIN deck : m.id = files'[t].request_id =>
                                m.slide = t /\ m.rev = hist[t].rev
        BY <3>1 DEF IdsOwn
      <4>1. CASE m = n
        BY <4>1, <3>2, <3>3, <3>4
      <4>2. CASE m \in UnderWay
        BY <4>2, <1>a, <3>2, <3>4 DEF IdsOwn
      <4> QED  BY <3>1, <4>1, <4>2
    <3> QED  BY <3>4, <3>5, <1>a, <1>11, SubmitSends DEF IdInv
  <2> QED  BY <2>1, <2>2, <1>11, <1>a, SubmitSends
<1>12. CASE StartCompile
  <2>1. UNCHANGED <<files, hist>>
    BY <1>12 DEF StartCompile, user
  <2> QED  BY <2>1, <1>12, <1>a, <1>b, CompileStarted, IdsKept
<1>13. CASE FinishCompile
  <2>1. UNCHANGED <<files, hist>>
    BY <1>13 DEF FinishCompile, user
  <2> QED  BY <2>1, <1>13, <1>a, <1>b, CompileFinished, IdsKept
<1>14. CASE Crash
  <2>1. UNCHANGED <<files, hist, job, toWorker, toMain>>
    BY <1>14 DEF Crash, user
  <2> QED  BY <2>1, <1>a, <1>b, QueuesStand, IdsKept
<1>15. CASE UNCHANGED <<vars, deck>>
  <2>1. UNCHANGED <<files, hist, job, toWorker, toMain>>
    BY <1>15 DEF vars
  <2> QED  BY <2>1, <1>a, <1>b, QueuesStand, IdsKept
<1> QED  BY <1>1, <1>2, <1>3, <1>4, <1>5, <1>6, <1>7, <1>8, <1>9, <1>10, <1>11, <1>12,
            <1>13, <1>14, <1>15 DEF Next, UIStep

LEMMA VerdictIsOwn ==
  ASSUME IdInv, RecvCompileResult, NEW s \in DOMAIN deck, files'[s] # files[s]
  PROVE  Head(toMain).rev = hist[s].rev
<1> DEFINE m == Head(toMain)
<1>1. /\ toMain # <<>> /\ m.type = "CompileResult" /\ toMain' = Tail(toMain)
      /\ UNCHANGED <<job, toWorker>>
  BY DEF RecvCompileResult, Receiving
<1>2. /\ Matches(m)
      /\ files' = [files EXCEPT ![m.slide] =
             [@ EXCEPT !.in_flight = FALSE, !.compiled = m.compiled,
                       !.syntax_error = m.syntax_error]]
  BY DEF RecvCompileResult
<1>3. m \in UnderWay
  BY <1>1, MessageRead DEF IdInv
<1> HIDE DEF m
<1>4. s = m.slide
  BY <1>2 DEF IdInv, Shape
<1>5. m.rev = hist[s].rev
  BY <1>2, <1>3, <1>4 DEF IdInv, IdsOwn, Matches
<1> QED  BY <1>5 DEF m

(* No verdict on an earlier revision changes what the UI holds of a file,  *)
(* whatever is typed, executed, restarted and killed while a compile runs  *)
(* (RemoteEngine.cpp:202-212: the request id is compared).                 *)
THEOREM VerdictsAreNotStale == Spec => NoStaleVerdict
<1>1. IdInv => [\A s \in DOMAIN deck :
                  RecvCompileResult /\ files'[s] # files[s] => Head(toMain).rev = hist[s].rev]_vars
  BY VerdictIsOwn
<1> QED  BY <1>1, IdInit, IdNext, PTL DEF Spec, NoStaleVerdict

-----------------------------------------------------------------------------
(* The count of pending compiles. *)

LogicFields == {"compiles_pending", "spawned"}

(* What the supervisor's methods do to the count and to `spawned`.         *)
Counts(l, d, n) ==
  LogicFields \subseteq DOMAIN d /\ d.spawned = l.spawned /\ d.compiles_pending = n

LEMMA MethodCounts ==
  ASSUME NEW l, LogicFields \subseteq DOMAIN l, NEW s, NEW expired
  PROVE  /\ Counts(l, Sup!Start(l, 0), l.compiles_pending)
         /\ Counts(l, Sup!RequestRestart(l, 0), l.compiles_pending)
         /\ Counts(l, Sup!Update(l, 0, expired), l.compiles_pending)
         /\ Counts(l, Sup!TakePoisonedSlide(l), l.compiles_pending)
         /\ Counts(l, Sup!OnCompileBusy(l, s, 0), l.compiles_pending)
         /\ Counts(l, Sup!OnCompileSubmitted(l, 0), l.compiles_pending + 1)
         /\ Counts(l, Sup!OnCompileResult(l, s, 0),
                   IF l.compiles_pending > 0 THEN l.compiles_pending - 1 ELSE l.compiles_pending)
<1>1. Counts(l, Sup!Start(l, 0), l.compiles_pending)
  BY DEF Counts, LogicFields, Sup!Start
<1>2. Counts(l, Sup!RequestRestart(l, 0), l.compiles_pending)
  BY DEF Counts, LogicFields, Sup!RequestRestart
<1>3. Counts(l, Sup!Update(l, 0, expired), l.compiles_pending)
  BY DEF Counts, LogicFields, Sup!Update
<1>4. Counts(l, Sup!TakePoisonedSlide(l), l.compiles_pending)
  BY DEF Counts, LogicFields, Sup!TakePoisonedSlide
<1>5. Counts(l, Sup!OnCompileBusy(l, s, 0), l.compiles_pending)
  BY DEF Counts, LogicFields, Sup!OnCompileBusy
<1>6. Counts(l, Sup!OnCompileSubmitted(l, 0), l.compiles_pending + 1)
  BY DEF Counts, LogicFields, Sup!OnCompileSubmitted
<1>7. Counts(l, Sup!OnCompileResult(l, s, 0),
             IF l.compiles_pending > 0 THEN l.compiles_pending - 1 ELSE l.compiles_pending)
  BY DEF Counts, LogicFields, Sup!OnCompileResult
<1> QED  BY <1>1, <1>2, <1>3, <1>4, <1>5, <1>6, <1>7

LEMMA SpawnCounts ==
  ASSUME NEW l, LogicFields \subseteq DOMAIN l
  PROVE  LET d == Sup!OnSpawned(l, 0)
         IN  LogicFields \subseteq DOMAIN d /\ d.spawned = TRUE /\ d.compiles_pending = 0
BY DEF LogicFields, Sup!OnSpawned, Sup!Disarmed

LEMMA ExitCounts ==
  ASSUME NEW l, LogicFields \subseteq DOMAIN l, l.spawned
  PROVE  LET d == Sup!OnWorkerExit(l, 0)
         IN  LogicFields \subseteq DOMAIN d /\ d.spawned = FALSE
BY DEF LogicFields, Sup!OnWorkerExit, Sup!Buried, Sup!Disarmed

(* The queues hold what is sent on them; without a process they are empty. *)
Sources(q) == \E M : q \in Seq(M) /\ \A m \in M : m.type = "SetSource"
Results == CountOf(toMain, "CompileResult")
Jobs == IF job = NoJob THEN 0 ELSE 1

PendingInv ==
  /\ Sources(toWorker) /\ IsQueue(toMain)
  /\ LogicFields \subseteq DOMAIN logic /\ (logic.spawned <=> proc # "none")
  /\ proc = "none" => toWorker = <<>> /\ toMain = <<>> /\ job = NoJob
  /\ proc = "running" => logic.compiles_pending = Len(toWorker) + Jobs + Results

LEMMA SourcesIntro ==
  ASSUME NEW M, \A m \in M : m.type = "SetSource", NEW q \in Seq(M)
  PROVE  Sources(q)
BY DEF Sources

LEMMA SourcesFacts ==
  /\ Sources(<<>>)
  /\ \A q : Sources(q) => Len(q) \in Nat
  /\ \A q, m : Sources(q) /\ m.type = "SetSource" =>
       Sources(Append(q, m)) /\ Len(Append(q, m)) = Len(q) + 1
  /\ \A q : Sources(q) /\ q # <<>> =>
       Sources(Tail(q)) /\ Len(Tail(q)) = Len(q) - 1 /\ Head(q).type = "SetSource"
<1>0. ASSUME NEW q, NEW M, q \in Seq(M), \A m \in M : m.type = "SetSource"
      PROVE  Sources(q)
  BY <1>0 DEF Sources
<1>1. Sources(<<>>)
  <2>1. \A M : (\A m \in M : m.type = "SetSource") => \A q \in Seq(M) : Sources(q)
    BY SourcesIntro
  <2>2. (\A m \in {} : m.type = "SetSource") /\ <<>> \in Seq({})
    OBVIOUS
  <2> QED  BY <2>1, <2>2, Zenon
<1>2. ASSUME NEW q, Sources(q)
      PROVE  Len(q) \in Nat
  BY <1>2 DEF Sources
<1>3. ASSUME NEW q, NEW m, Sources(q), m.type = "SetSource"
      PROVE  Sources(Append(q, m)) /\ Len(Append(q, m)) = Len(q) + 1
  <2>1. PICK M : q \in Seq(M) /\ \A x \in M : x.type = "SetSource"
    BY <1>3 DEF Sources
  <2>2. Append(q, m) \in Seq(M \cup {m}) /\ Len(Append(q, m)) = Len(q) + 1
    BY <2>1
  <2>3. \A x \in M \cup {m} : x.type = "SetSource"
    BY <2>1, <1>3
  <2> QED  BY <2>2, <2>3, <1>0
<1>4. ASSUME NEW q, Sources(q), q # <<>>
      PROVE  Sources(Tail(q)) /\ Len(Tail(q)) = Len(q) - 1 /\ Head(q).type = "SetSource"
  <2>1. PICK M : q \in Seq(M) /\ \A x \in M : x.type = "SetSource"
    BY <1>4 DEF Sources
  <2>2. Tail(q) \in Seq(M) /\ Len(Tail(q)) = Len(q) - 1 /\ Head(q) \in M
    BY <2>1, <1>4
  <2> QED  BY <2>1, <2>2, <1>0
<1> QED  BY <1>1, <1>2, <1>3, <1>4

LEMMA ResultFacts ==
  /\ IsQueue(<<>>) /\ CountOf(<<>>, "CompileResult") = 0
  /\ \A q : IsQueue(q) => CountOf(q, "CompileResult") \in Nat
  /\ \A q, m : IsQueue(q) =>
       /\ IsQueue(Append(q, m))
       /\ CountOf(Append(q, m), "CompileResult") =
            CountOf(q, "CompileResult") + IF m.type = "CompileResult" THEN 1 ELSE 0
  /\ \A q : IsQueue(q) /\ q # <<>> =>
       /\ IsQueue(Tail(q)) /\ CountOf(Tail(q), "CompileResult") \in Nat
       /\ CountOf(q, "CompileResult") =
            CountOf(Tail(q), "CompileResult") + IF Head(q).type = "CompileResult" THEN 1 ELSE 0
BY QueueFacts

LEMMA PendingInit == Init => PendingInv
<1> SUFFICES ASSUME Init PROVE PendingInv
  OBVIOUS
<1>1. LogicFields \subseteq DOMAIN Sup!InitialLogic /\ Sup!InitialLogic.spawned = FALSE
  BY DEF Sup!InitialLogic, LogicFields
<1>2. LogicFields \subseteq DOMAIN logic /\ logic.spawned = FALSE
  BY <1>1, MethodCounts DEF Init, Counts
<1> QED  BY <1>2, SourcesFacts, ResultFacts DEF Init, PendingInv

(* A step that leaves the queues, the process and the count alone.         *)
LEMMA PendingKept ==
  ASSUME PendingInv, UNCHANGED <<proc, job, toWorker, toMain>>,
         Counts(logic, logic', logic.compiles_pending)
  PROVE  PendingInv'
BY DEF PendingInv, Counts, Results, Jobs

LEMMA PendingNext == PendingInv /\ [Next /\ UNCHANGED deck]_<<vars, deck>> => PendingInv'
<1> SUFFICES ASSUME PendingInv, [Next /\ UNCHANGED deck]_<<vars, deck>> PROVE PendingInv'
  OBVIOUS
<1>a. /\ Sources(toWorker) /\ IsQueue(toMain)
      /\ LogicFields \subseteq DOMAIN logic /\ (logic.spawned <=> proc # "none")
      /\ proc = "none" => toWorker = <<>> /\ toMain = <<>> /\ job = NoJob
      /\ proc = "running" => logic.compiles_pending = Len(toWorker) + Jobs + Results
  BY DEF PendingInv
<1>b. Counts(logic, logic, logic.compiles_pending)
  BY <1>a DEF Counts
<1>1. ASSUME NEW s \in DOMAIN deck, NEW k, Type(s, k)
      PROVE  PendingInv'
  BY <1>1, <1>b, PendingKept DEF Type, UserActs
<1>2. ASSUME NEW s \in DOMAIN deck, Execute(s)
      PROVE  PendingInv'
  BY <1>2, <1>b, PendingKept DEF Execute, UserActs
<1>3. CASE RestartWorker
  BY <1>3, <1>a, MethodCounts, PendingKept DEF RestartWorker, UserActs
<1>4. CASE Reap
  <2> DEFINE l == Sup!OnWorkerExit(logic, 0)
  <2>1. /\ proc = "dead" /\ proc' = "none" /\ logic' = Sup!TakePoisonedSlide(l)
        /\ job' = NoJob /\ toMain' = <<>> /\ toWorker' = <<>>
    BY <1>4 DEF Reap
  <2>2. LogicFields \subseteq DOMAIN l /\ l.spawned = FALSE
    BY <1>a, <2>1, ExitCounts
  <2> HIDE DEF l
  <2>3. LogicFields \subseteq DOMAIN logic' /\ logic'.spawned = FALSE
    BY <2>1, <2>2, MethodCounts DEF Counts
  <2> QED  BY <2>1, <2>3, SourcesFacts, ResultFacts DEF PendingInv
<1>5. CASE NothingToReap
  BY <1>5, <1>b, PendingKept DEF NothingToReap
<1>6. CASE RecvCompileBusy
  <2>1. /\ toMain # <<>> /\ Head(toMain).type = "CompileBusy" /\ toMain' = Tail(toMain)
        /\ proc # "none" /\ logic' = Sup!OnCompileBusy(logic, Head(toMain).slide, 0)
        /\ UNCHANGED <<proc, job, toWorker>>
    BY <1>6 DEF RecvCompileBusy, Receiving
  <2>2. Counts(logic, logic', logic.compiles_pending)
    BY <2>1, <1>a, MethodCounts
  <2>3. IsQueue(toMain') /\ Results' = Results
    BY <2>1, <1>a, ResultFacts DEF Results
  <2> QED  BY <2>1, <2>2, <2>3, <1>a DEF PendingInv, Counts, Jobs
<1>7. CASE RecvCompileResult
  <2>1. /\ toMain # <<>> /\ Head(toMain).type = "CompileResult" /\ toMain' = Tail(toMain)
        /\ proc # "none" /\ logic' = Sup!OnCompileResult(logic, Head(toMain).slide, 0)
        /\ UNCHANGED <<proc, job, toWorker>>
    BY <1>7 DEF RecvCompileResult, Receiving
  <2>2. Counts(logic, logic', IF logic.compiles_pending > 0 THEN logic.compiles_pending - 1
                              ELSE logic.compiles_pending)
    BY <2>1, <1>a, MethodCounts
  <2>3. IsQueue(toMain') /\ Results = Results' + 1 /\ Results' \in Nat
    BY <2>1, <1>a, ResultFacts DEF Results
  <2>4. Len(toWorker) \in Nat /\ Jobs \in Nat /\ Jobs' = Jobs
    BY <2>1, <1>a, SourcesFacts DEF Jobs
  <2>5. proc = "running" => logic'.compiles_pending = Len(toWorker') + Jobs' + Results'
    BY <2>1, <2>2, <2>3, <2>4, <1>a DEF Counts
  <2> QED  BY <2>1, <2>2, <2>3, <2>5, <1>a DEF PendingInv, Counts
<1>8. CASE UpdateSpawn
  <2> DEFINE u == Sup!Update(logic, 0, FALSE)
             l == Sup!OnSpawned(u, 0)
  <2>1. /\ ~ logic.spawned
        /\ \/ proc' = "running" /\ logic' = l
           \/ proc' = proc /\ logic' = Sup!OnWorkerExit(l, 0)
        /\ UNCHANGED <<job, toWorker, toMain>>
    BY <1>8 DEF UpdateSpawn, Sup!MaySpawn
  <2>2. LogicFields \subseteq DOMAIN u
    BY <1>a, MethodCounts DEF Counts
  <2> HIDE DEF u
  <2>3. LogicFields \subseteq DOMAIN l /\ l.spawned = TRUE /\ l.compiles_pending = 0
    BY <2>2, SpawnCounts
  <2> HIDE DEF l
  <2>4. LET d == Sup!OnWorkerExit(l, 0) IN LogicFields \subseteq DOMAIN d /\ d.spawned = FALSE
    BY <2>3, ExitCounts
  <2>5. proc = "none" /\ toWorker = <<>> /\ toMain = <<>> /\ job = NoJob
    BY <2>1, <1>a
  <2>6. Jobs' = 0 /\ Results' = 0 /\ Len(toWorker') = 0
    BY <2>1, <2>5, ResultFacts DEF Jobs, Results
  <2>7. CASE proc' = "running" /\ logic' = l
    BY <2>1, <2>3, <2>5, <2>6, <2>7, <1>a DEF PendingInv
  <2>8. CASE proc' = proc /\ logic' = Sup!OnWorkerExit(l, 0)
    BY <2>1, <2>4, <2>5, <2>8, <1>a DEF PendingInv
  <2> QED  BY <2>1, <2>7, <2>8
<1>9. CASE UpdateKill
  <2>1. PICK expired \in BOOLEAN : logic' = Sup!Update(logic, 0, expired)
    BY <1>9 DEF UpdateKill
  <2>2. UNCHANGED <<proc, job, toWorker, toMain>>
    BY <1>9 DEF UpdateKill
  <2>3. Counts(logic, logic', logic.compiles_pending)
    BY <2>1, <1>a, MethodCounts
  <2> QED  BY <2>2, <2>3, PendingKept
<1>10. CASE UpdateNone
  BY <1>10, <1>b, PendingKept DEF UpdateNone
<1>11. CASE Submit
  <2> DEFINE s == Min(ui.todo)
             m == SetSource(s, FreshId)
  <2>1. /\ IF Wanted(files[s]) /\ Sends
           THEN /\ toWorker' = Append(toWorker, m)
                /\ logic' = Sup!OnCompileSubmitted(logic, 0)
           ELSE UNCHANGED <<toWorker, logic>>
        /\ UNCHANGED <<proc, job, toMain>>
    BY <1>11 DEF Submit
  <2>2. m.type = "SetSource"
    BY DEF SetSource
  <2> HIDE DEF s, m
  <2>3. CASE UNCHANGED <<toWorker, logic>>
    BY <2>1, <2>3, <1>b, PendingKept
  <2>4. CASE Sends /\ toWorker' = Append(toWorker, m) /\ logic' = Sup!OnCompileSubmitted(logic, 0)
    <3>1. Counts(logic, logic', logic.compiles_pending + 1)
      BY <2>4, <1>a, MethodCounts
    <3>2. Sources(toWorker') /\ Len(toWorker') = Len(toWorker) + 1 /\ Len(toWorker) \in Nat
      BY <2>2, <2>4, <1>a, SourcesFacts
    <3>3. proc = "running" /\ Jobs' = Jobs /\ Results' = Results /\ Jobs \in Nat
      BY <2>1, <2>4 DEF Sends, Jobs, Results
    <3>4. Results \in Nat
      BY <1>a, ResultFacts DEF Results
    <3>5. logic'.compiles_pending = Len(toWorker') + Jobs' + Results'
      BY <3>1, <3>2, <3>3, <3>4, <1>a DEF Counts
    <3> QED  BY <2>1, <3>1, <3>2, <3>3, <3>5, <1>a DEF PendingInv, Counts
  <2> QED  BY <2>1, <2>3, <2>4
<1>12. CASE StartCompile
  <2> DEFINE busy == CompileBusy(Head(toWorker))
  <2>1. /\ proc = "running" /\ job = NoJob /\ toWorker # <<>>
        /\ job' = Head(toWorker) /\ toWorker' = Tail(toWorker)
        /\ toMain' = Append(toMain, busy) /\ UNCHANGED <<proc, logic>>
    BY <1>12 DEF StartCompile
  <2>2. busy.type # "CompileResult"
    BY DEF CompileBusy
  <2> HIDE DEF busy
  <2>3. IsQueue(toMain') /\ Results' = Results /\ Results \in Nat
    BY <2>1, <2>2, <1>a, ResultFacts DEF Results
  <2>4. Sources(toWorker') /\ Len(toWorker') = Len(toWorker) - 1 /\ Len(toWorker) \in Nat
    BY <2>1, <1>a, SourcesFacts
  <2>5. Jobs = 0 /\ Jobs' = 1
    <3>1. job' # NoJob
      BY <2>1, <1>a, SourcesFacts DEF NoJob
    <3> QED  BY <2>1, <3>1 DEF Jobs
  <2> QED  BY <2>1, <2>3, <2>4, <2>5, <1>a DEF PendingInv
<1>13. CASE FinishCompile
  <2> DEFINE result == CompileResult(job)
  <2>1. /\ proc = "running" /\ job # NoJob /\ job' = NoJob
        /\ toMain' = Append(toMain, result) /\ UNCHANGED <<proc, logic, toWorker>>
    BY <1>13 DEF FinishCompile
  <2>2. result.type = "CompileResult"
    BY DEF CompileResult
  <2> HIDE DEF result
  <2>3. IsQueue(toMain') /\ Results' = Results + 1 /\ Results \in Nat
    BY <2>1, <2>2, <1>a, ResultFacts DEF Results
  <2>4. Jobs = 1 /\ Jobs' = 0 /\ Len(toWorker) \in Nat
    BY <2>1, <1>a, SourcesFacts DEF Jobs
  <2> QED  BY <2>1, <2>3, <2>4, <1>a DEF PendingInv
<1>14. CASE Crash
  <2>1. proc = "running" /\ proc' = "dead" /\ UNCHANGED <<logic, job, toWorker, toMain>>
    BY <1>14 DEF Crash
  <2> QED  BY <2>1, <1>a DEF PendingInv
<1>15. CASE UNCHANGED <<vars, deck>>
  BY <1>15, <1>b, PendingKept DEF vars
<1> QED  BY <1>1, <1>2, <1>3, <1>4, <1>5, <1>6, <1>7, <1>8, <1>9, <1>10, <1>11, <1>12,
            <1>13, <1>14, <1>15 DEF Next, UIStep

(* The supervisor's count of pending compiles is exact while the worker    *)
(* lives, whatever the user orphans and whichever worker it was sent to    *)
(* (SupervisorLogic.cpp:28, 50, 104, 133, RemoteEngine.cpp:207, 514).      *)
THEOREM PendingCountIsExact == Spec => []PendingIsExact
<1>1. PendingInv => PendingIsExact
  BY DEF PendingInv, Jobs, Results, CountOf, Places, PendingIsExact
<1> QED  BY <1>1, PendingInit, PendingNext, PTL DEF Spec

-----------------------------------------------------------------------------
(* Whom the supervisor blames. *)

BusyFields == {"compile_busy", "busy_slide"}

(* The message at place i of the queue q, or, behind its end, what the     *)
(* worker makes of its job j, is the answer for slide s.                   *)
AnswerAt(q, j, i, s) ==
  IF i > Len(q) THEN j # NoJob /\ j.slide = s
  ELSE q[i].type = "CompileResult" /\ q[i].slide = s

(* A CompileBusy is followed by its CompileResult.                         *)
Paired(q, j) ==
  \A i \in 1..Len(q) : q[i].type = "CompileBusy" => AnswerAt(q, j, i + 1, q[i].slide)

BlameInv ==
  /\ PendingInv /\ BusyFields \subseteq DOMAIN logic
  /\ Paired(toMain, job)
  /\ logic.compile_busy => AnswerAt(toMain, job, 1, logic.busy_slide)

(* What the supervisor's methods do to its suspicion: nothing, or drop it. *)
NoNewBlame(l, d) ==
  /\ BusyFields \subseteq DOMAIN d
  /\ d.compile_busy => l.compile_busy /\ d.busy_slide = l.busy_slide

LEMMA MethodBlames ==
  ASSUME NEW l, BusyFields \subseteq DOMAIN l, NEW s, NEW expired
  PROVE  /\ NoNewBlame(l, Sup!Start(l, 0))
         /\ NoNewBlame(l, Sup!RequestRestart(l, 0))
         /\ NoNewBlame(l, Sup!Update(l, 0, expired))
         /\ NoNewBlame(l, Sup!TakePoisonedSlide(l))
         /\ NoNewBlame(l, Sup!OnCompileSubmitted(l, 0))
         /\ NoNewBlame(l, Sup!OnCompileResult(l, s, 0))
<1>1. NoNewBlame(l, Sup!Start(l, 0))
  BY DEF NoNewBlame, BusyFields, Sup!Start
<1>2. NoNewBlame(l, Sup!RequestRestart(l, 0))
  BY DEF NoNewBlame, BusyFields, Sup!RequestRestart
<1>3. NoNewBlame(l, Sup!Update(l, 0, expired))
  BY DEF NoNewBlame, BusyFields, Sup!Update
<1>4. NoNewBlame(l, Sup!TakePoisonedSlide(l))
  BY DEF NoNewBlame, BusyFields, Sup!TakePoisonedSlide
<1>5. NoNewBlame(l, Sup!OnCompileSubmitted(l, 0))
  BY DEF NoNewBlame, BusyFields, Sup!OnCompileSubmitted
<1>6. NoNewBlame(l, Sup!OnCompileResult(l, s, 0))
  BY DEF NoNewBlame, BusyFields, Sup!OnCompileResult
<1> QED  BY <1>1, <1>2, <1>3, <1>4, <1>5, <1>6

(* A birth and a death acquit; so does the answer.                         *)
LEMMA DisarmedAcquits ==
  ASSUME NEW l, BusyFields \subseteq DOMAIN l
  PROVE  BusyFields \subseteq DOMAIN Sup!Disarmed(l) /\ Sup!Disarmed(l).compile_busy = FALSE
<1> DEFINE a == [l EXCEPT !.handshake = FALSE, !.killing = FALSE,
                          !.ping_outstanding = FALSE, !.frame_outstanding = FALSE]
           b == [a EXCEPT !.compile_busy = FALSE]
<1>1. Sup!Disarmed(l) = [b EXCEPT !.busy_slide = NoFile, !.compiles_pending = 0]
  BY DEF Sup!Disarmed
<1>2. BusyFields \subseteq DOMAIN a
  BY DEF BusyFields
<1> HIDE DEF a
<1>3. BusyFields \subseteq DOMAIN b /\ b.compile_busy = FALSE
  BY <1>2 DEF BusyFields
<1> HIDE DEF b
<1> QED  BY <1>1, <1>3 DEF BusyFields

LEMMA SpawnAcquits ==
  ASSUME NEW l, BusyFields \subseteq DOMAIN l
  PROVE  LET d == Sup!OnSpawned(l, 0)
         IN  BusyFields \subseteq DOMAIN d /\ d.compile_busy = FALSE
BY DisarmedAcquits DEF BusyFields, Sup!OnSpawned

LEMMA ExitAcquits ==
  ASSUME NEW l, BusyFields \subseteq DOMAIN l, l.spawned
  PROVE  LET d == Sup!OnWorkerExit(l, 0)
         IN  BusyFields \subseteq DOMAIN d /\ d.compile_busy = FALSE
<1>1. LET b == Sup!Buried(l)
      IN  BusyFields \subseteq DOMAIN b /\ b.compile_busy = FALSE
  BY DisarmedAcquits DEF BusyFields, Sup!Buried
<1> QED  BY <1>1 DEF BusyFields, Sup!OnWorkerExit

LEMMA AnswerAcquits ==
  ASSUME NEW l, BusyFields \subseteq DOMAIN l, NEW s, l.compile_busy => s = l.busy_slide
  PROVE  ~ Sup!OnCompileResult(l, s, 0).compile_busy
BY DEF BusyFields, Sup!OnCompileResult

LEMMA BusyBlames ==
  ASSUME NEW l, BusyFields \subseteq DOMAIN l, NEW s
  PROVE  LET d == Sup!OnCompileBusy(l, s, 0)
         IN  BusyFields \subseteq DOMAIN d /\ d.busy_slide = s
BY DEF BusyFields, Sup!OnCompileBusy

(* Reading moves every answer forward.                                     *)
LEMMA AnswerMoves ==
  ASSUME NEW M, NEW q \in Seq(M), q # <<>>, NEW j, NEW s, NEW i \in 1..Len(q)
  PROVE  AnswerAt(Tail(q), j, i, s) <=> AnswerAt(q, j, i + 1, s)
<1>1. Len(q) \in Nat \ {0} /\ Len(Tail(q)) = Len(q) - 1 /\ (i > Len(q) - 1 <=> i + 1 > Len(q))
  OBVIOUS
<1>2. i <= Len(q) - 1 => Tail(q)[i] = q[i + 1]
  OBVIOUS
<1> QED  BY <1>1, <1>2 DEF AnswerAt

LEMMA PairedTail ==
  ASSUME NEW M, NEW q \in Seq(M), NEW j, Paired(q, j), q # <<>>
  PROVE  /\ Paired(Tail(q), j)
         /\ q[1].type = "CompileBusy" => AnswerAt(Tail(q), j, 1, q[1].slide)
<1>1. /\ Len(q) \in Nat \ {0} /\ Len(Tail(q)) = Len(q) - 1 /\ 1 \in 1..Len(q)
      /\ \A i \in 1..(Len(q) - 1) : Tail(q)[i] = q[i + 1] /\ i + 1 \in 1..Len(q)
  OBVIOUS
<1>2. ASSUME NEW i \in 1..(Len(q) - 1), Tail(q)[i].type = "CompileBusy"
      PROVE  AnswerAt(Tail(q), j, i + 1, Tail(q)[i].slide)
  <2>1. AnswerAt(q, j, i + 1 + 1, q[i + 1].slide)
    BY <1>1, <1>2 DEF Paired
  <2> QED  BY <1>1, <2>1, AnswerMoves
<1> QED  BY <1>1, <1>2, AnswerMoves DEF Paired

(* The worker begins: it was idle, so nothing in the queue is unanswered.  *)
(* The worker answers: what was to come from its job comes from the queue. *)
LEMMA AnswerKept ==
  ASSUME NEW M, NEW q \in Seq(M), NEW j, NEW m, NEW i \in 1..(Len(q) + 1), NEW s,
         AnswerAt(q, j, i, s)
  PROVE  /\ j = NoJob => i <= Len(q) /\ \A k : AnswerAt(Append(q, m), k, i, s)
         /\ m = CompileResult(j) => \A k : AnswerAt(Append(q, m), k, i, s)
<1>1. /\ Len(q) \in Nat /\ Len(Append(q, m)) = Len(q) + 1
      /\ i <= Len(q) => Append(q, m)[i] = q[i]
      /\ i > Len(q) => Append(q, m)[i] = m
  OBVIOUS
<1>2. m = CompileResult(j) => m.type = "CompileResult" /\ m.slide = j.slide
  BY DEF CompileResult
<1> QED  BY <1>1, <1>2 DEF AnswerAt

LEMMA PairedAppend ==
  ASSUME NEW M, NEW q \in Seq(M), NEW j, NEW k, NEW m, Paired(q, j),
         j = NoJob \/ m = CompileResult(j),
         m.type = "CompileBusy" => k # NoJob /\ k.slide = m.slide
  PROVE  Paired(Append(q, m), k)
<1>1. /\ Len(q) \in Nat /\ Len(Append(q, m)) = Len(q) + 1
      /\ \A i \in 1..Len(q) : Append(q, m)[i] = q[i] /\ i + 1 \in 1..(Len(q) + 1)
      /\ Append(q, m)[Len(q) + 1] = m
  OBVIOUS
<1>2. ASSUME NEW i \in 1..Len(q), q[i].type = "CompileBusy"
      PROVE  AnswerAt(Append(q, m), k, i + 1, q[i].slide)
  <2>1. AnswerAt(q, j, i + 1, q[i].slide)
    BY <1>2 DEF Paired
  <2> QED  BY <1>1, <2>1, AnswerKept
<1>3. m.type = "CompileBusy" => AnswerAt(Append(q, m), k, Len(q) + 1 + 1, m.slide)
  BY <1>1 DEF AnswerAt
<1>4. ASSUME NEW i \in 1..(Len(q) + 1), Append(q, m)[i].type = "CompileBusy"
      PROVE  AnswerAt(Append(q, m), k, i + 1, Append(q, m)[i].slide)
  BY <1>1, <1>2, <1>3, <1>4
<1> QED  BY <1>1, <1>4 DEF Paired

-----------------------------------------------------------------------------
LEMMA BlameInit == Init => BlameInv
<1> SUFFICES ASSUME Init PROVE BlameInv
  OBVIOUS
<1>1. BusyFields \subseteq DOMAIN Sup!InitialLogic /\ ~ Sup!InitialLogic.compile_busy
  BY DEF Sup!InitialLogic, BusyFields
<1>2. BusyFields \subseteq DOMAIN logic /\ ~ logic.compile_busy
  BY <1>1, MethodBlames DEF Init, NoNewBlame
<1>3. Paired(<<>>, job)
  BY DEF Paired
<1> QED  BY <1>2, <1>3, PendingInit DEF Init, BlameInv

(* A step that leaves the answers alone and blames nobody new.             *)
LEMMA BlameKept ==
  ASSUME BlameInv, PendingInv', UNCHANGED <<job, toMain>>, NoNewBlame(logic, logic')
  PROVE  BlameInv'
BY DEF BlameInv, NoNewBlame

LEMMA BlameNext == BlameInv /\ [Next /\ UNCHANGED deck]_<<vars, deck>> => BlameInv'
<1> SUFFICES ASSUME BlameInv, [Next /\ UNCHANGED deck]_<<vars, deck>> PROVE BlameInv'
  OBVIOUS
<1>a. /\ PendingInv /\ BusyFields \subseteq DOMAIN logic /\ Paired(toMain, job)
      /\ logic.compile_busy => AnswerAt(toMain, job, 1, logic.busy_slide)
  BY DEF BlameInv
<1>b. PendingInv'
  BY <1>a, PendingNext
<1>c. NoNewBlame(logic, logic)
  BY <1>a DEF NoNewBlame
<1>d. /\ IsQueue(toMain) /\ (logic.spawned <=> proc # "none")
      /\ Sources(toWorker) /\ (proc = "none" => toMain = <<>>)
  BY <1>a DEF PendingInv
<1>e. PICK M : toMain \in Seq(M)
  BY <1>d DEF IsQueue
<1>1. ASSUME NEW s \in DOMAIN deck, NEW k, Type(s, k)
      PROVE  BlameInv'
  BY <1>1, <1>b, <1>c, BlameKept DEF Type, UserActs
<1>2. ASSUME NEW s \in DOMAIN deck, Execute(s)
      PROVE  BlameInv'
  BY <1>2, <1>b, <1>c, BlameKept DEF Execute, UserActs
<1>3. CASE RestartWorker
  BY <1>3, <1>a, <1>b, MethodBlames, BlameKept DEF RestartWorker, UserActs
<1>4. CASE Reap
  <2> DEFINE l == Sup!OnWorkerExit(logic, 0)
  <2>1. /\ proc = "dead" /\ proc' = "none" /\ logic' = Sup!TakePoisonedSlide(l)
        /\ job' = NoJob /\ toMain' = <<>> /\ toWorker' = <<>>
    BY <1>4, Zenon DEF Reap
  <2>2. BusyFields \subseteq DOMAIN l /\ l.compile_busy = FALSE
    BY <1>a, <1>d, <2>1, ExitAcquits
  <2> HIDE DEF l
  <2>3. BusyFields \subseteq DOMAIN logic' /\ ~ logic'.compile_busy
    BY <2>1, <2>2, MethodBlames DEF NoNewBlame
  <2>4. Paired(<<>>, job')
    BY DEF Paired
  <2> QED  BY <1>b, <2>1, <2>3, <2>4 DEF BlameInv
<1>5. CASE NothingToReap
  BY <1>5, <1>b, <1>c, BlameKept DEF NothingToReap
<1>6. CASE RecvCompileBusy
  <2> DEFINE s == Head(toMain).slide
  <2>1. /\ toMain # <<>> /\ Head(toMain).type = "CompileBusy" /\ toMain' = Tail(toMain)
        /\ logic' = Sup!OnCompileBusy(logic, s, 0) /\ job' = job
    BY <1>6 DEF RecvCompileBusy, Receiving
  <2>2. BusyFields \subseteq DOMAIN logic' /\ logic'.busy_slide = s
    BY <1>a, <2>1, BusyBlames
  <2>3. Head(toMain) = toMain[1]
    BY <1>e, <2>1
  <2>4. Paired(toMain', job') /\ AnswerAt(toMain', job', 1, s)
    BY <1>a, <1>e, <2>1, <2>3, PairedTail
  <2> QED  BY <1>b, <2>2, <2>4 DEF BlameInv
<1>7. CASE RecvCompileResult
  <2> DEFINE s == Head(toMain).slide
  <2>1. /\ toMain # <<>> /\ toMain' = Tail(toMain)
        /\ logic' = Sup!OnCompileResult(logic, s, 0) /\ job' = job
    BY <1>7 DEF RecvCompileResult, Receiving
  <2>2. Head(toMain) = toMain[1] /\ ~ (1 > Len(toMain))
    BY <1>e, <2>1
  <2>3. logic.compile_busy => s = logic.busy_slide
    BY <1>a, <2>2 DEF AnswerAt
  <2>4. ~ logic'.compile_busy
    BY <1>a, <2>1, <2>3, AnswerAcquits
  <2>5. BusyFields \subseteq DOMAIN logic'
    BY <1>a, <2>1, MethodBlames DEF NoNewBlame
  <2>6. Paired(toMain', job')
    BY <1>a, <1>e, <2>1, PairedTail
  <2> QED  BY <1>b, <2>4, <2>5, <2>6 DEF BlameInv
<1>8. CASE UpdateSpawn
  <2> DEFINE u == Sup!Update(logic, 0, FALSE)
             l == Sup!OnSpawned(u, 0)
  <2>1. /\ logic' = l \/ logic' = Sup!OnWorkerExit(l, 0)
        /\ UNCHANGED <<job, toMain>>
    BY <1>8 DEF UpdateSpawn
  <2>2. BusyFields \subseteq DOMAIN u /\ LogicFields \subseteq DOMAIN u
    BY <1>a, MethodBlames, MethodCounts DEF NoNewBlame, Counts, PendingInv
  <2> HIDE DEF u
  <2>3. BusyFields \subseteq DOMAIN l /\ l.compile_busy = FALSE /\ l.spawned = TRUE
    BY <2>2, SpawnAcquits, SpawnCounts
  <2> HIDE DEF l
  <2>4. LET d == Sup!OnWorkerExit(l, 0)
        IN  BusyFields \subseteq DOMAIN d /\ d.compile_busy = FALSE
    BY <2>3, ExitAcquits
  <2>5. BusyFields \subseteq DOMAIN logic' /\ ~ logic'.compile_busy
    BY <2>1, <2>3, <2>4
  <2> QED  BY <1>a, <1>b, <2>1, <2>5 DEF BlameInv
<1>9. CASE UpdateKill
  <2>1. PICK expired \in BOOLEAN : logic' = Sup!Update(logic, 0, expired)
    BY <1>9 DEF UpdateKill
  <2>2. UNCHANGED <<job, toMain>>
    BY <1>9 DEF UpdateKill
  <2> QED  BY <2>1, <2>2, <1>a, <1>b, MethodBlames, BlameKept
<1>10. CASE UpdateNone
  BY <1>10, <1>b, <1>c, BlameKept DEF UpdateNone
<1>11. CASE Submit
  <2>1. logic' = Sup!OnCompileSubmitted(logic, 0) \/ logic' = logic
    BY <1>11 DEF Submit
  <2>2. UNCHANGED <<job, toMain>>
    BY <1>11 DEF Submit
  <2> QED  BY <2>1, <2>2, <1>a, <1>b, <1>c, MethodBlames, BlameKept
<1>12. CASE StartCompile
  <2> DEFINE b == CompileBusy(job')
  <2>1. /\ job = NoJob /\ toWorker # <<>> /\ job' = Head(toWorker)
        /\ toMain' = Append(toMain, b) /\ logic' = logic
    BY <1>12 DEF StartCompile
  <2>2. job' # NoJob
    BY <1>d, <2>1, SourcesFacts DEF NoJob
  <2>3. b.slide = job'.slide
    BY DEF CompileBusy
  <2> HIDE DEF b
  <2>4. Paired(toMain', job')
    BY <1>a, <1>e, <2>1, <2>2, <2>3, PairedAppend
  <2>5. 1 \in 1..(Len(toMain) + 1)
    BY <1>e
  <2>6. logic.compile_busy => AnswerAt(toMain', job', 1, logic.busy_slide)
    BY <1>a, <1>e, <2>1, <2>5, AnswerKept
  <2> QED  BY <1>a, <1>b, <2>1, <2>4, <2>6 DEF BlameInv
<1>13. CASE FinishCompile
  <2> DEFINE r == CompileResult(job)
  <2>1. job' = NoJob /\ toMain' = Append(toMain, r) /\ logic' = logic
    BY <1>13 DEF FinishCompile
  <2>2. r.type # "CompileBusy"
    BY DEF CompileResult
  <2>3. Paired(toMain', job')
    BY <1>a, <1>e, <2>1, <2>2, PairedAppend
  <2>4. 1 \in 1..(Len(toMain) + 1)
    BY <1>e
  <2>5. logic.compile_busy => AnswerAt(toMain', job', 1, logic.busy_slide)
    BY <1>a, <1>e, <2>1, <2>4, AnswerKept
  <2> QED  BY <1>a, <1>b, <2>1, <2>3, <2>5 DEF BlameInv
<1>14. CASE Crash
  BY <1>14, <1>b, <1>c, BlameKept DEF Crash
<1>15. CASE UNCHANGED <<vars, deck>>
  BY <1>15, <1>b, <1>c, BlameKept DEF vars
<1> QED  BY <1>1, <1>2, <1>3, <1>4, <1>5, <1>6, <1>7, <1>8, <1>9, <1>10, <1>11, <1>12,
            <1>13, <1>14, <1>15 DEF Next, UIStep

(* The supervisor blames the right file: whatever is queued and orphaned,  *)
(* while compile_busy is set its busy_slide is what the worker compiles,   *)
(* or its answer is unread (SupervisorLogic.cpp:108-139).                  *)
THEOREM BlameIsRight == Spec => []BlamesTheRightFile
<1>1. BlameInv => BlamesTheRightFile
  <2> SUFFICES ASSUME BlameInv, logic.compile_busy
               PROVE  \/ job # NoJob /\ job.slide = logic.busy_slide
                      \/ \E m \in Answers : m.slide = logic.busy_slide
    BY DEF BlamesTheRightFile
  <2>1. PICK M : toMain \in Seq(M)
    BY DEF BlameInv, PendingInv, IsQueue
  <2>2. AnswerAt(toMain, job, 1, logic.busy_slide)
    BY DEF BlameInv
  <2>3. CASE 1 > Len(toMain)
    BY <2>2, <2>3 DEF AnswerAt
  <2>4. CASE ~ (1 > Len(toMain))
    <3>1. toMain[1].type = "CompileResult" /\ toMain[1].slide = logic.busy_slide
      BY <2>2, <2>4 DEF AnswerAt
    <3>2. 1 \in DOMAIN toMain
      BY <2>1, <2>4
    <3> QED  BY <3>1, <3>2 DEF Answers
  <2> QED  BY <2>3, <2>4
<1> QED  BY <1>1, BlameInit, BlameNext, PTL DEF Spec

-----------------------------------------------------------------------------
(* Who waits for an answer will get one. *)

(* The ids of the messages of one type, and that each is there once.       *)
Ids(q, t) == {q[i].id : i \in Places(q, t)}
Distinct(q, t) == \A i, j \in Places(q, t) : q[i].id = q[j].id => i = j

LEMMA IdsEmpty == \A t : Ids(<<>>, t) = {} /\ Distinct(<<>>, t)
<1>1. \A t : Places(<<>>, t) = {}
  BY DEF Places
<1> QED  BY <1>1 DEF Ids, Distinct

LEMMA IdsAppend ==
  ASSUME NEW M, NEW q \in Seq(M), NEW m, NEW t, Distinct(q, t)
  PROVE  /\ m.type # t => Ids(Append(q, m), t) = Ids(q, t)
         /\ m.type = t => Ids(Append(q, m), t) = Ids(q, t) \cup {m.id}
         /\ m.type # t \/ m.id \notin Ids(q, t) => Distinct(Append(q, m), t)
<1> DEFINE n == Len(q) + 1
           p == Append(q, m)
<1>1. /\ \A i \in DOMAIN q : i # n /\ p[i] = q[i]
      /\ DOMAIN p = DOMAIN q \cup {n} /\ p[n] = m
  OBVIOUS
<1> HIDE DEF n, p
<1>2. Places(p, t) = Places(q, t) \cup (IF m.type = t THEN {n} ELSE {})
  BY <1>1 DEF Places
<1>3. \A i \in Places(q, t) : i # n /\ p[i] = q[i]
  BY <1>1 DEF Places
<1>4. Ids(p, t) = Ids(q, t) \cup (IF m.type = t THEN {m.id} ELSE {})
  BY <1>1, <1>2, <1>3 DEF Ids
<1>5. ASSUME m.type # t \/ m.id \notin Ids(q, t)
      PROVE  Distinct(p, t)
  BY <1>1, <1>2, <1>3, <1>5 DEF Distinct, Ids
<1> QED  BY <1>4, <1>5 DEF p

LEMMA IdsTail ==
  ASSUME NEW M, NEW q \in Seq(M), q # <<>>, NEW t, Distinct(q, t)
  PROVE  /\ Head(q).type # t => Ids(Tail(q), t) = Ids(q, t)
         /\ Head(q).type = t => Ids(Tail(q), t) = Ids(q, t) \ {Head(q).id}
         /\ Distinct(Tail(q), t)
         /\ Head(q).type = t => Head(q).id \in Ids(q, t)
<1> DEFINE p == Tail(q)
           h == Head(q)
<1>1. /\ Len(q) \in Nat \ {0} /\ DOMAIN q = 1..Len(q) /\ DOMAIN p = 1..(Len(q) - 1)
      /\ \A i \in DOMAIN p : p[i] = q[i + 1] /\ i + 1 \in DOMAIN q
      /\ h = q[1] /\ 1 \in DOMAIN q
  OBVIOUS
<1> HIDE DEF p, h
<1>2. \A i \in Places(p, t) : i \in Nat \ {0} /\ i + 1 \in Places(q, t) /\ p[i] = q[i + 1]
  BY <1>1 DEF Places
<1>3. \A j \in Places(q, t) : j = 1 \/ (j - 1 \in Places(p, t) /\ p[j - 1] = q[j])
  <2> SUFFICES ASSUME NEW j \in Places(q, t), j # 1
               PROVE  j - 1 \in Places(p, t) /\ p[j - 1] = q[j]
    OBVIOUS
  <2>1. j \in DOMAIN q /\ q[j].type = t
    BY DEF Places
  <2>2. j - 1 \in DOMAIN p /\ j - 1 + 1 = j
    BY <1>1, <2>1
  <2> QED  BY <1>1, <2>1, <2>2 DEF Places
<1>4. 1 \in Places(q, t) <=> h.type = t
  BY <1>1 DEF Places
<1>5. ASSUME NEW i \in Places(p, t), NEW j \in Places(p, t), p[i].id = p[j].id
      PROVE  i = j
  <2>1. i + 1 = j + 1
    BY <1>2, <1>5 DEF Distinct
  <2> QED  BY <1>2, <2>1
<1>6. \A i \in Places(p, t) : h.type = t => p[i].id # h.id
  <2> SUFFICES ASSUME NEW i \in Places(p, t), h.type = t, p[i].id = h.id
               PROVE  FALSE
    OBVIOUS
  <2>1. i + 1 = 1
    BY <1>1, <1>2, <1>4 DEF Distinct
  <2> QED  BY <1>2, <2>1
<1>7. Ids(p, t) \subseteq Ids(q, t)
  BY <1>2 DEF Ids
<1>8. \A x \in Ids(q, t) : x \in Ids(p, t) \/ (h.type = t /\ x = h.id)
  BY <1>1, <1>3, <1>4 DEF Ids
<1>9. h.type = t => h.id \notin Ids(p, t) /\ h.id \in Ids(q, t)
  BY <1>1, <1>4, <1>6 DEF Ids
<1>10. /\ h.type # t => Ids(p, t) = Ids(q, t)
       /\ h.type = t => Ids(p, t) = Ids(q, t) \ {h.id}
  BY <1>7, <1>8, <1>9
<1> QED  BY <1>5, <1>9, <1>10 DEF Distinct, p, h

(* A request is in one place, as is its answer. *)
Queued == Ids(toWorker, "SetSource")
Compiling == IF job = NoJob THEN {} ELSE {job.id}
Answered == Ids(toMain, "CompileResult")

Apart ==
  /\ Distinct(toWorker, "SetSource") /\ Distinct(toMain, "CompileResult")
  /\ Queued \cap Compiling = {} /\ Queued \cap Answered = {} /\ Compiling \cap Answered = {}

Backed ==
  proc = "running" =>
    \A s \in DOMAIN deck : files[s].in_flight =>
      files[s].request_id \in Queued \cup Compiling \cup Answered

(* A file with an error waits for nothing: a resubmission resets the rest. *)
ErrorsRest == \A s \in DOMAIN deck : files[s].syntax_error => ~ files[s].in_flight

WaitInv == PendingInv /\ IdInv /\ Apart /\ Backed /\ ErrorsRest

LEMMA IdsUnderWay ==
  ASSUME Sources(toWorker)
  PROVE  \A x : x \in Queued \cup Compiling \cup Answered <=> \E m \in UnderWay : m.id = x
<1>1. PICK M : toWorker \in Seq(M) /\ \A m \in M : m.type = "SetSource"
  BY DEF Sources
<1>2. \A i \in DOMAIN toWorker : toWorker[i].type = "SetSource"
  BY <1>1
<1>3. Queued = {m.id : m \in InQueue(toWorker)}
  BY <1>2 DEF Queued, Ids, Places, InQueue
<1>4. Answered = {m.id : m \in Answers}
  BY DEF Answered, Ids, Places, Answers
<1>5. Requests = InQueue(toWorker) \cup (IF job = NoJob THEN {} ELSE {job})
  BY DEF Requests, InQueue
<1> QED  BY <1>3, <1>4, <1>5 DEF UnderWay, Compiling

LEMMA WaitInit == Init => WaitInv
<1> SUFFICES ASSUME Init PROVE WaitInv
  OBVIOUS
<1>1. PICK texts : files = [s \in DOMAIN deck |-> FreshFile(texts[s])]
  BY DEF Init
<1>2. \A s \in DOMAIN deck : ~ files[s].syntax_error /\ ~ files[s].in_flight
  BY <1>1 DEF FreshFile
<1>3. toWorker = <<>> /\ toMain = <<>> /\ job = NoJob /\ proc = "none"
  BY DEF Init
<1>4. Apart
  BY <1>3, IdsEmpty DEF Apart, Queued, Compiling, Answered
<1> QED  BY <1>2, <1>3, <1>4, PendingInit, IdInit DEF WaitInv, Backed, ErrorsRest

(* Nobody begins to wait, and nobody waits for what has been lost.         *)
LEMMA WaitKept ==
  ASSUME WaitInv, PendingInv', IdInv', Apart', UNCHANGED deck,
         proc' = "running" => proc = "running",
         \A s \in DOMAIN deck :
           /\ files'[s].syntax_error => files[s].syntax_error \/ ~ files'[s].in_flight
           /\ files'[s].in_flight =>
                /\ files[s].in_flight /\ files'[s].request_id = files[s].request_id
                /\ proc' = "running" /\ files[s].request_id \in Queued \cup Compiling \cup Answered =>
                     files[s].request_id \in Queued' \cup Compiling' \cup Answered'
  PROVE  WaitInv'
<1>1. Backed'
  BY DEF WaitInv, Backed
<1>2. ErrorsRest'
  BY DEF WaitInv, ErrorsRest
<1> QED  BY <1>1, <1>2 DEF WaitInv

(* A step that leaves all messages where they are.                         *)
LEMMA WaitStands ==
  ASSUME WaitInv, PendingInv', IdInv', UNCHANGED <<deck, job, toWorker, toMain>>,
         proc' = "running" => proc = "running",
         \A s \in DOMAIN deck :
           /\ files'[s].syntax_error => files[s].syntax_error \/ ~ files'[s].in_flight
           /\ files'[s].in_flight =>
                files[s].in_flight /\ files'[s].request_id = files[s].request_id
  PROVE  WaitInv'
<1>1. Queued' = Queued /\ Compiling' = Compiling /\ Answered' = Answered
  BY DEF Queued, Compiling, Answered
<1>2. Apart'
  BY <1>1 DEF WaitInv, Apart
<1> QED  BY <1>1, <1>2, WaitKept

LEMMA WaitNext == WaitInv /\ [Next /\ UNCHANGED deck]_<<vars, deck>> => WaitInv'
<1> SUFFICES ASSUME WaitInv, [Next /\ UNCHANGED deck]_<<vars, deck>> PROVE WaitInv'
  OBVIOUS
<1>0. deck' = deck
  BY DEF vars
<1> USE <1>0
<1>a. PendingInv /\ IdInv /\ Apart /\ Backed /\ ErrorsRest
  BY DEF WaitInv
<1>b. PendingInv' /\ IdInv'
  BY <1>a, PendingNext, IdNext
<1>c. Shape /\ Queues /\ IdsOwn /\ Shape' /\ deck \in Decks
  BY <1>a, <1>b DEF IdInv
<1>d. PICK M : toMain \in Seq(M)
  BY <1>c DEF Queues
<1>e. PICK N : toWorker \in Seq(N) /\ \A m \in N : m.type = "SetSource"
  BY <1>a DEF PendingInv, Sources
<1>f. /\ Distinct(toWorker, "SetSource") /\ Distinct(toMain, "CompileResult")
      /\ Queued \cap Compiling = {} /\ Queued \cap Answered = {} /\ Compiling \cap Answered = {}
  BY <1>a DEF Apart
<1>1. ASSUME NEW s \in DOMAIN deck, NEW k, Type(s, k)
      PROVE  WaitInv'
  <2>1. /\ files' = [files EXCEPT ![s].text = k]
        /\ UNCHANGED <<proc, job, toWorker, toMain>>
    BY <1>1 DEF Type, UserActs
  <2>2. \A t \in DOMAIN deck :
          /\ files'[t].syntax_error = files[t].syntax_error
          /\ files'[t].in_flight = files[t].in_flight
          /\ files'[t].request_id = files[t].request_id
    BY <1>c, <2>1 DEF Shape, FileFields
  <2> QED  BY <1>b, <2>1, <2>2, WaitStands
<1>2. ASSUME NEW s \in DOMAIN deck, Execute(s)
      PROVE  WaitInv'
  <2>1. /\ files' = [files EXCEPT ![s] = Executed(files[s])]
        /\ UNCHANGED <<proc, job, toWorker, toMain>>
    BY <1>2 DEF Execute, UserActs
  <2>2. ~ Executed(files[s]).in_flight /\ ~ Executed(files[s]).syntax_error
    BY DEF Executed, FreshFile
  <2>3. \A t \in DOMAIN deck :
          IF t = s THEN ~ files'[t].in_flight /\ ~ files'[t].syntax_error
          ELSE files'[t] = files[t]
    BY <1>c, <2>1, <2>2 DEF Shape
  <2> QED  BY <1>b, <2>1, <2>3, WaitStands
<1>3. CASE RestartWorker
  BY <1>3, <1>b, WaitStands DEF RestartWorker, UserActs
<1>4. CASE Reap
  <2> DEFINE l == Sup!OnWorkerExit(logic, 0)
  <2>1. /\ files' = ApplyPoison(l) /\ proc' = "none"
        /\ job' = NoJob /\ toMain' = <<>> /\ toWorker' = <<>>
    BY <1>4, Zenon DEF Reap
  <2> HIDE DEF l
  <2>2. ASSUME NEW s \in DOMAIN deck
        PROVE  \/ files'[s] = files[s]
               \/ ~ files'[s].in_flight
    <3>1. files'[s] = IF s = l.poisoned_slide THEN Poisoned(files[s]) ELSE files[s]
      BY <1>c, <2>1 DEF Shape, ApplyPoison
    <3>2. ~ Poisoned(files[s]).in_flight
      BY <1>c DEF Shape, Poisoned, FileFields
    <3> QED  BY <3>1, <3>2
  <2>3. Apart'
    BY <2>1, IdsEmpty DEF Apart, Queued, Compiling, Answered
  <2> QED  BY <1>b, <2>1, <2>2, <2>3, WaitKept
<1>5. CASE NothingToReap
  BY <1>5, <1>b, WaitStands DEF NothingToReap
<1>6. CASE RecvCompileBusy
  <2>1. /\ toMain # <<>> /\ Head(toMain).type = "CompileBusy" /\ toMain' = Tail(toMain)
        /\ UNCHANGED <<proc, files, job, toWorker>>
    BY <1>6 DEF RecvCompileBusy, Receiving
  <2>2. Answered' = Answered /\ Distinct(toMain', "CompileResult")
    BY <1>d, <1>f, <2>1, IdsTail DEF Answered
  <2>3. Queued' = Queued /\ Compiling' = Compiling
    BY <2>1 DEF Queued, Compiling
  <2>4. Apart'
    BY <1>f, <2>1, <2>2, <2>3 DEF Apart
  <2> QED  BY <1>b, <2>1, <2>2, <2>3, <2>4, WaitKept
<1>7. CASE RecvCompileResult
  <2> DEFINE m == Head(toMain)
  <2>1. /\ toMain # <<>> /\ m.type = "CompileResult" /\ toMain' = Tail(toMain)
        /\ UNCHANGED <<proc, job, toWorker>>
        /\ \/ ~ Matches(m) /\ files' = files
           \/ /\ Matches(m)
              /\ files' = [files EXCEPT ![m.slide] =
                   [@ EXCEPT !.in_flight = FALSE, !.compiled = m.compiled,
                             !.syntax_error = m.syntax_error]]
    BY <1>7 DEF RecvCompileResult, Receiving
  <2>2. m \in UnderWay
    BY <1>c, <2>1, MessageRead
  <2>3. Answered' = Answered \ {m.id} /\ Distinct(toMain', "CompileResult")
    BY <1>d, <1>f, <2>1, IdsTail DEF Answered
  <2>4. Queued' = Queued /\ Compiling' = Compiling
    BY <2>1 DEF Queued, Compiling
  <2>5. Apart'
    BY <1>f, <2>1, <2>3, <2>4 DEF Apart
  <2> HIDE DEF m
  <2>6. CASE ~ Matches(m) /\ files' = files
    <3>1. \A s \in DOMAIN deck : files[s].request_id # m.id
      BY <1>c, <2>2, <2>6 DEF IdsOwn, Matches
    <3> QED  BY <1>b, <2>1, <2>3, <2>4, <2>5, <2>6, <3>1, WaitKept
  <2>7. CASE /\ Matches(m)
             /\ files' = [files EXCEPT ![m.slide] =
                  [@ EXCEPT !.in_flight = FALSE, !.compiled = m.compiled,
                            !.syntax_error = m.syntax_error]]
    <3>1. \A s \in DOMAIN deck : s # m.slide => files[s].request_id # m.id
      BY <1>c, <2>2 DEF IdsOwn
    <3>2. \A s \in DOMAIN deck :
            IF s = m.slide THEN ~ files'[s].in_flight ELSE files'[s] = files[s]
      BY <1>c, <2>7 DEF Shape, FileFields
    <3> QED  BY <1>b, <2>1, <2>3, <2>4, <2>5, <3>1, <3>2, WaitKept
  <2> QED  BY <2>1, <2>6, <2>7
<1>8. CASE UpdateSpawn
  <2>1. ~ logic.spawned /\ UNCHANGED <<job, toWorker, toMain>>
    BY <1>8 DEF UpdateSpawn, Sup!MaySpawn
  <2>2. \/ files' = [s \in DOMAIN files |-> Resubmittable(files[s])]
        \/ UNCHANGED <<proc, files>>
    BY <1>8 DEF UpdateSpawn
  <2>3. CASE UNCHANGED <<proc, files>>
    BY <1>b, <2>1, <2>3, WaitStands
  <2>4. CASE files' = [s \in DOMAIN files |-> Resubmittable(files[s])]
    <3>1. ASSUME NEW s \in DOMAIN deck
          PROVE  ~ files'[s].in_flight
      <4>1. files'[s] = Resubmittable(files[s]) /\ FileFields \subseteq DOMAIN files[s]
        BY <1>c, <2>4 DEF Shape
      <4>2. CASE files[s].syntax_error
        BY <1>a, <4>1, <4>2 DEF Resubmittable, ErrorsRest
      <4>3. CASE ~ files[s].syntax_error
        BY <4>1, <4>3 DEF Resubmittable, FileFields
      <4> QED  BY <4>2, <4>3
    <3>2. Apart'
      BY <1>f, <2>1 DEF Apart, Queued, Compiling, Answered
    <3> QED  BY <1>b, <3>1, <3>2 DEF WaitInv, Backed, ErrorsRest
  <2> QED  BY <2>2, <2>3, <2>4
<1>9. CASE UpdateKill
  <2>1. UNCHANGED <<proc, files, job, toWorker, toMain>>
    BY <1>9 DEF UpdateKill
  <2> QED  BY <2>1, <1>b, WaitStands
<1>10. CASE UpdateNone
  BY <1>10, <1>b, WaitStands DEF UpdateNone
<1>11. CASE Submit
  <2> DEFINE s == Min(ui.todo)
             id == FreshId
             m == SetSource(s, id)
  <2>1. /\ \/ UNCHANGED <<toWorker, files>>
           \/ /\ Wanted(files[s]) /\ toWorker' = Append(toWorker, m)
              /\ files' = [files EXCEPT ![s].in_flight = TRUE, ![s].request_id = id]
        /\ UNCHANGED <<proc, job, toMain>>
    BY <1>11 DEF Submit
  <2>2. id \in Nat \ {0} /\ \A n \in UnderWay : n.id # id
    BY <1>c, FreshIdIsFresh
  <2>3. m.type = "SetSource" /\ m.id = id
    BY DEF SetSource
  <2> HIDE DEF s, m, id
  <2>4. CASE UNCHANGED <<toWorker, files>>
    BY <2>1, <2>4, <1>b, WaitStands
  <2>5. CASE /\ Wanted(files[s]) /\ toWorker' = Append(toWorker, m)
             /\ files' = [files EXCEPT ![s].in_flight = TRUE, ![s].request_id = id]
    <3>1. id \notin Queued \cup Compiling \cup Answered
      BY <1>a, <2>2, IdsUnderWay DEF PendingInv
    <3>2. Queued' = Queued \cup {id} /\ Distinct(toWorker', "SetSource")
      BY <1>e, <1>f, <2>3, <2>5, <3>1, IdsAppend DEF Queued
    <3>3. Answered' = Answered /\ Compiling' = Compiling
      BY <2>1 DEF Answered, Compiling
    <3>4. Apart'
      BY <1>f, <2>1, <3>1, <3>2, <3>3 DEF Apart
    <3>5. ~ files[s].syntax_error
      BY <2>5 DEF Wanted
    <3>6. \A t \in DOMAIN deck :
            IF t = s THEN files'[t].request_id = id /\ ~ files'[t].syntax_error
            ELSE files'[t] = files[t]
      BY <1>c, <2>5, <3>5 DEF Shape, FileFields
    <3>7. Backed'
      BY <1>a, <2>1, <3>2, <3>3, <3>6 DEF Backed
    <3>8. ErrorsRest'
      BY <1>a, <3>6 DEF ErrorsRest
    <3> QED  BY <1>b, <3>4, <3>7, <3>8 DEF WaitInv
  <2> QED  BY <2>1, <2>4, <2>5
<1>12. CASE StartCompile
  <2> DEFINE h == Head(toWorker)
             b == CompileBusy(h)
  <2>1. /\ job = NoJob /\ toWorker # <<>> /\ job' = h /\ toWorker' = Tail(toWorker)
        /\ toMain' = Append(toMain, b) /\ UNCHANGED <<proc, files>>
    BY <1>12 DEF StartCompile
  <2>2. b.type # "CompileResult"
    BY DEF CompileBusy
  <2>3. h.type = "SetSource" /\ h # NoJob
    BY <1>e, <2>1 DEF NoJob
  <2>4. /\ Queued' = Queued \ {h.id} /\ h.id \in Queued
        /\ Distinct(toWorker', "SetSource")
    BY <1>e, <1>f, <2>1, <2>3, IdsTail DEF Queued
  <2> HIDE DEF h, b
  <2>5. Answered' = Answered /\ Distinct(toMain', "CompileResult")
    BY <1>d, <1>f, <2>1, <2>2, IdsAppend DEF Answered
  <2>6. Compiling = {} /\ Compiling' = {h.id}
    BY <2>1, <2>3 DEF Compiling
  <2>7. Apart'
    BY <1>f, <2>4, <2>5, <2>6 DEF Apart
  <2> QED  BY <1>b, <2>1, <2>4, <2>5, <2>6, <2>7, WaitKept
<1>13. CASE FinishCompile
  <2> DEFINE r == CompileResult(job)
  <2>1. /\ job # NoJob /\ job' = NoJob /\ toMain' = Append(toMain, r)
        /\ UNCHANGED <<proc, files, toWorker>>
    BY <1>13 DEF FinishCompile
  <2>2. r.type = "CompileResult" /\ r.id = job.id
    BY DEF CompileResult
  <2> HIDE DEF r
  <2>3. Compiling = {job.id} /\ Compiling' = {} /\ Queued' = Queued
    BY <2>1 DEF Compiling, Queued
  <2>4. Answered' = Answered \cup {job.id} /\ Distinct(toMain', "CompileResult")
    <3>1. r.id \notin Ids(toMain, "CompileResult")
      BY <1>f, <2>2, <2>3 DEF Answered
    <3> QED  BY <1>d, <1>f, <2>1, <2>2, <3>1, IdsAppend DEF Answered
  <2>5. Apart'
    BY <1>f, <2>1, <2>3, <2>4 DEF Apart
  <2> QED  BY <1>b, <2>1, <2>3, <2>4, <2>5, WaitKept
<1>14. CASE Crash
  <2>1. proc' = "dead" /\ UNCHANGED <<files, job, toWorker, toMain>>
    BY <1>14 DEF Crash
  <2> QED  BY <2>1, <1>b, WaitStands
<1>15. CASE UNCHANGED <<vars, deck>>
  BY <1>15, <1>b, WaitStands DEF vars
<1> QED  BY <1>1, <1>2, <1>3, <1>4, <1>5, <1>6, <1>7, <1>8, <1>9, <1>10, <1>11, <1>12,
            <1>13, <1>14, <1>15 DEF Next, UIStep

(* Two messages with one id are one.                                       *)
LEMMA OneOfAnId ==
  ASSUME WaitInv, NEW m \in UnderWay, NEW n \in UnderWay, m.id = n.id
  PROVE  m = n
<1>1. PICK N : toWorker \in Seq(N) /\ \A x \in N : x.type = "SetSource"
  BY DEF WaitInv, PendingInv, Sources
<1>2. \A i \in DOMAIN toWorker : i \in Places(toWorker, "SetSource")
  BY <1>1 DEF Places
<1>3. /\ Distinct(toWorker, "SetSource") /\ Distinct(toMain, "CompileResult")
      /\ Queued \cap Compiling = {} /\ Queued \cap Answered = {} /\ Compiling \cap Answered = {}
  BY DEF WaitInv, Apart
<1>4. ASSUME NEW x \in UnderWay
      PROVE  \/ x.id \in Queued /\ \E i \in Places(toWorker, "SetSource") : x = toWorker[i]
             \/ x.id \in Compiling /\ x = job
             \/ x.id \in Answered /\ \E i \in Places(toMain, "CompileResult") : x = toMain[i]
  <2>1. CASE x \in InQueue(toWorker)
    BY <1>2, <2>1 DEF InQueue, Queued, Ids
  <2>2. CASE job # NoJob /\ x = job
    BY <2>2 DEF Compiling
  <2>3. CASE x \in Answers
    BY <2>3 DEF Answers, Answered, Ids, Places
  <2> QED  BY <2>1, <2>2, <2>3 DEF UnderWay, Requests, InQueue
<1>5. CASE m.id \in Queued
  <2>1. n.id \notin Compiling \cup Answered /\ m.id \notin Compiling \cup Answered
    BY <1>3, <1>5
  <2>2. PICK i, j \in Places(toWorker, "SetSource") : m = toWorker[i] /\ n = toWorker[j]
    BY <1>4, <2>1
  <2> QED  BY <1>3, <2>2 DEF Distinct
<1>6. CASE m.id \in Compiling
  BY <1>3, <1>4, <1>6
<1>7. CASE m.id \in Answered
  <2>1. n.id \notin Compiling \cup Queued /\ m.id \notin Compiling \cup Queued
    BY <1>3, <1>7
  <2>2. PICK i, j \in Places(toMain, "CompileResult") : m = toMain[i] /\ n = toMain[j]
    BY <1>4, <2>1
  <2> QED  BY <1>3, <2>2 DEF Distinct
<1> QED  BY <1>4, <1>5, <1>6, <1>7

(* A file that waits for an answer will get it, and only one: whatever is  *)
(* executed again meanwhile, its request is queued, being compiled or      *)
(* answered, once (RemoteEngine.cpp:202-212, 505-515, WorkerApp.cpp).      *)
THEOREM WaitsAreBacked == Spec => []WaitIsBacked
<1>1. WaitInv => WaitIsBacked
  <2> SUFFICES ASSUME WaitInv, proc = "running", NEW s \in DOMAIN deck, files[s].in_flight
               PROVE  /\ Cardinality({m \in UnderWay : m.slide = s /\ m.id = files[s].request_id}) = 1
                      /\ \A m \in UnderWay : m.id = files[s].request_id =>
                           m.slide = s /\ m.rev = hist[s].rev
    BY DEF WaitIsBacked, UnderWay
  <2>1. \A m \in UnderWay : m.id = files[s].request_id => m.slide = s /\ m.rev = hist[s].rev
    BY DEF WaitInv, IdInv, IdsOwn
  <2>2. files[s].request_id \in Queued \cup Compiling \cup Answered
    BY DEF WaitInv, Backed
  <2>3. PICK x \in UnderWay : x.id = files[s].request_id
    BY <2>2, IdsUnderWay DEF WaitInv, PendingInv
  <2>4. {m \in UnderWay : m.slide = s /\ m.id = files[s].request_id} = {x}
    BY <2>1, <2>3, OneOfAnId
  <2> QED  BY <2>1, <2>4, FS_Singleton
<1> QED  BY <1>1, WaitInit, WaitNext, PTL DEF Spec

-----------------------------------------------------------------------------
(* Types.  What the supervisor's methods return is proved once, beside the *)
(* supervisor; its assumptions hold for the values it is given here.       *)
Policy ==
  INSTANCE SupervisorLogic_proofs WITH
    Slides <- Files, NoSlide <- NoFile, StormCount <- StormLimit,
    StormWindow <- 1, BackoffMax <- 0, Second <- 1, PingInterval <- 0,
    PongTimeout <- 0, FrameTimeout <- 0, CompileTimeout <- 0,
    MaxTime <- 0, MaxPending <- 0, now <- 0, action <- "None", exits <- <<>>

LEMMA SameObject == Policy!Logic = Sup!Logic /\ Policy!Time = Nat
BY DEF Sup!Logic, Policy!Logic, Sup!Time, Policy!Time

(* While a worker lives there is room for one more crash on the record,    *)
(* and the supervisor has not given up.                                    *)
Recorded(l) ==
  (~ l.gave_up => Len(l.crash_times) <= StormLimit) /\ (l.spawned => ~ l.gave_up)
Object(l) == l \in Sup!Logic /\ Recorded(l)
SameRecord(l, d) ==
  d.gave_up = l.gave_up /\ d.crash_times = l.crash_times /\ d.spawned = l.spawned

LEMMA ObjectFacts ==
  ASSUME NEW l \in Sup!Logic
  PROVE  /\ l.crash_times \in Seq(Nat) /\ l.gave_up \in BOOLEAN /\ l.spawned \in BOOLEAN
         /\ l \in Policy!Logic /\ 0 \in Policy!Time
BY SameObject DEF Sup!Logic, Sup!Time

(* The methods the pipeline calls, but for those at an exit and a spawn.   *)
LEMMA MethodObject ==
  ASSUME NEW l, Object(l), NEW s \in Files \cup {NoFile}
  PROVE  /\ Object(Sup!OnCompileSubmitted(l, 0))
         /\ Object(Sup!OnCompileBusy(l, s, 0))
         /\ Object(Sup!OnCompileResult(l, s, 0))
         /\ Object(Sup!TakePoisonedSlide(l))
<1>1. l \in Sup!Logic /\ l \in Policy!Logic /\ 0 \in Policy!Time
  BY ObjectFacts DEF Object
<1>2. /\ Policy!OnCompileSubmitted(l, 0) \in Policy!Logic
      /\ Policy!OnCompileBusy(l, s, 0) \in Policy!Logic
      /\ Policy!OnCompileResult(l, s, 0) \in Policy!Logic
      /\ Policy!TakePoisonedSlide(l) \in Policy!Logic
  BY <1>1, Policy!MethodTypes, PipelineAssumption, ShiftAssumption
<1>3. /\ Sup!OnCompileSubmitted(l, 0) \in Sup!Logic
      /\ Sup!OnCompileBusy(l, s, 0) \in Sup!Logic
  BY <1>2, SameObject
     DEF Policy!OnCompileSubmitted, Sup!OnCompileSubmitted, Policy!OnCompileBusy, Sup!OnCompileBusy
<1>4. /\ Sup!OnCompileResult(l, s, 0) \in Sup!Logic
      /\ Sup!TakePoisonedSlide(l) \in Sup!Logic
  BY <1>2, SameObject
     DEF Policy!OnCompileResult, Sup!OnCompileResult, Policy!TakePoisonedSlide, Sup!TakePoisonedSlide
<1>5. SameRecord(l, Sup!OnCompileSubmitted(l, 0))
  BY <1>1 DEF SameRecord, Sup!Logic, Sup!OnCompileSubmitted
<1>6. SameRecord(l, Sup!OnCompileBusy(l, s, 0))
  BY <1>1 DEF SameRecord, Sup!Logic, Sup!OnCompileBusy
<1>7. SameRecord(l, Sup!OnCompileResult(l, s, 0))
  BY <1>1 DEF SameRecord, Sup!Logic, Sup!OnCompileResult
<1>8. SameRecord(l, Sup!TakePoisonedSlide(l))
  BY <1>1 DEF SameRecord, Sup!Logic, Sup!TakePoisonedSlide
<1> QED  BY <1>3, <1>4, <1>5, <1>6, <1>7, <1>8 DEF Object, Recorded, SameRecord

LEMMA RestartObject ==
  ASSUME NEW l, Object(l)
  PROVE  Object(Sup!RequestRestart(l, 0))
<1>1. l \in Sup!Logic /\ l \in Policy!Logic /\ 0 \in Policy!Time
  BY ObjectFacts DEF Object
<1>2. Policy!RequestRestart(l, 0) \in Policy!Logic
  <2>1. NoFile \in Files \cup {NoFile}
    OBVIOUS
  <2> QED  BY <1>1, <2>1, Policy!MethodTypes, PipelineAssumption, ShiftAssumption
<1>3. Sup!RequestRestart(l, 0) \in Sup!Logic
  BY <1>2, SameObject DEF Policy!RequestRestart, Sup!RequestRestart
<1>4. LET d == Sup!RequestRestart(l, 0)
      IN  \/ d = l
          \/ ~ d.gave_up /\ d.crash_times = <<>>
  BY <1>1 DEF Sup!Logic, Sup!RequestRestart
<1>5. Len(<<>>) = 0
  OBVIOUS
<1> QED  BY <1>3, <1>4, <1>5, PipelineAssumption DEF Object, Recorded

LEMMA UpdateObject ==
  ASSUME NEW l, Object(l), NEW expired \in BOOLEAN
  PROVE  /\ Object(Sup!Update(l, 0, expired))
         /\ Sup!Update(l, 0, expired).gave_up = l.gave_up
<1>1. l \in Sup!Logic /\ l \in Policy!Logic /\ 0 \in Policy!Time
  BY ObjectFacts DEF Object
<1>3. Sup!Update(l, 0, expired) \in Sup!Logic
  <2>1. [l EXCEPT !.spawn_pending = FALSE] \in Sup!Logic
    BY <1>1 DEF Sup!Logic
  <2>2. [l EXCEPT !.killing = TRUE, !.restart_requested = FALSE] \in Sup!Logic
    BY <1>1 DEF Sup!Logic
  <2> QED  BY Zenon, <1>1, <2>1, <2>2 DEF Sup!Update
<1>4. SameRecord(l, Sup!Update(l, 0, expired))
  BY <1>1 DEF SameRecord, Sup!Logic, Sup!Update
<1> QED  BY <1>3, <1>4 DEF Object, Recorded, SameRecord

LEMMA SpawnedObject ==
  ASSUME NEW l, Object(l), ~ l.gave_up
  PROVE  Object(Sup!OnSpawned(l, 0)) /\ Sup!OnSpawned(l, 0).spawned
<1>1. l \in Sup!Logic /\ l \in Policy!Logic /\ 0 \in Policy!Time
  BY ObjectFacts DEF Object
<1>2. Policy!OnSpawned(l, 0) \in Policy!Logic
  BY <1>1, Policy!SpawnedEffect, PipelineAssumption, ShiftAssumption
<1>3. Sup!OnSpawned(l, 0) \in Sup!Logic
  BY <1>2, SameObject
     DEF Policy!OnSpawned, Sup!OnSpawned, Policy!Disarmed, Sup!Disarmed
<1>4. LET d == Sup!OnSpawned(l, 0)
      IN  d.gave_up = l.gave_up /\ d.crash_times = l.crash_times /\ d.spawned
  BY <1>1 DEF Sup!Logic, Sup!OnSpawned, Sup!Disarmed
<1> QED  BY <1>3, <1>4 DEF Object, Recorded

LEMMA ExitObject ==
  ASSUME NEW l, Object(l), l.spawned
  PROVE  Object(Sup!OnWorkerExit(l, 0))
<1>1. /\ l \in Sup!Logic /\ l \in Policy!Logic /\ 0 \in Policy!Time
      /\ Len(l.crash_times) <= StormLimit /\ ~ l.gave_up
  BY ObjectFacts DEF Object, Recorded
<1>2. LET d == Policy!OnWorkerExit(l, 0)
      IN  d \in Policy!Logic /\ ~ d.spawned /\ (d.gave_up \/ Len(d.crash_times) <= StormLimit)
  BY <1>1, Policy!ExitEffect, PipelineAssumption, ShiftAssumption
<1>3. Policy!OnWorkerExit(l, 0) = Sup!OnWorkerExit(l, 0)
  <2>1. Policy!Buried(l) = Sup!Buried(l)
    BY Zenon DEF Policy!Buried, Sup!Buried, Policy!Disarmed, Sup!Disarmed
  <2>2. \A times, limit : Policy!PopOlderThan(times, limit) = Sup!PopOlderThan(times, limit)
    BY Zenon DEF Policy!PopOlderThan, Sup!PopOlderThan, Policy!Cardinality, Sup!Cardinality
  <2>3. \A d : Policy!BackoffDelay(d) = Sup!BackoffDelay(d)
    BY Zenon DEF Policy!BackoffDelay, Sup!BackoffDelay
  <2> QED  BY Zenon, <2>1, <2>2, <2>3 DEF Policy!OnWorkerExit, Sup!OnWorkerExit
<1> QED  BY <1>2, <1>3, SameObject DEF Object, Recorded

LEMMA StartedObject == Object(Sup!Start(Sup!InitialLogic, 0))
<1>1. Sup!InitialLogic \in Sup!Logic
  BY DEF Sup!InitialLogic, Sup!Logic, Sup!Time
<1>2. Len(<<>>) = 0
  OBVIOUS
<1>3. Recorded(Sup!InitialLogic)
  BY <1>2, PipelineAssumption DEF Recorded, Sup!InitialLogic
<1>4. LET l == Sup!InitialLogic
          d == Sup!Start(l, 0)
      IN  /\ d \in Sup!Logic
          /\ d.gave_up = l.gave_up /\ d.crash_times = l.crash_times /\ d.spawned = l.spawned
  BY <1>1 DEF Sup!Start, Sup!Logic, Sup!Time
<1> QED  BY <1>3, <1>4 DEF Object, Recorded

-----------------------------------------------------------------------------
FileStates ==
  [text : Texts, compiled : BOOLEAN, syntax_error : BOOLEAN, in_flight : BOOLEAN,
   request_id : Nat]
RequestSet ==
  [type : {"SetSource"}, slide : DOMAIN deck, id : Nat \ {0}, text : Texts, rev : Int]
AnswerSet ==
  [type : {"CompileBusy"}, slide : DOMAIN deck]
  \cup [type : {"CompileResult"}, slide : DOMAIN deck, id : Nat \ {0}, rev : Int,
        compiled : BOOLEAN, syntax_error : BOOLEAN]
Frames == [phase : {"reap", "drain", "submit"}, todo : SUBSET DOMAIN deck]

FilesTyped ==
  files \in [DOMAIN deck -> FileStates] /\ \A s \in DOMAIN deck : files[s].text \in deck[s]
HistTyped ==
  /\ acts \in 0..MaxActs
  /\ \A s \in DOMAIN deck : hist[s].rev \in 0..(MaxActs - acts)
MessagesTyped ==
  toWorker \in Seq(RequestSet) /\ job \in RequestSet \cup {NoJob} /\ toMain \in Seq(AnswerSet)

TypeInv ==
  /\ proc \in {"none", "running", "dead"} /\ Object(logic) /\ ui \in Frames
  /\ FilesTyped /\ HistTyped /\ MessagesTyped

LEMMA DeckFacts ==
  ASSUME deck \in Decks
  PROVE  /\ DOMAIN deck \subseteq Files /\ \A s \in DOMAIN deck : deck[s] \subseteq Texts
         /\ DOMAIN deck \subseteq Int /\ MaxActs \in Nat
BY PipelineAssumption

(* What the code makes of a file is a file, with the same text.            *)
LEMMA FileTyped ==
  ASSUME NEW f \in FileStates
  PROVE  \A g \in {Executed(f), Poisoned(f), Resubmittable(f)} :
           g \in FileStates /\ g.text = f.text
<1>1. Executed(f) \in FileStates /\ Executed(f).text = f.text
  BY DEF Executed, FreshFile, FileStates
<1>2. Poisoned(f) \in FileStates /\ Poisoned(f).text = f.text
  BY DEF Poisoned, FileStates
<1>3. Resubmittable(f) \in FileStates /\ Resubmittable(f).text = f.text
  BY DEF Resubmittable, FileStates
<1> QED  BY <1>1, <1>2, <1>3

LEMMA RequestFacts ==
  ASSUME NEW m \in RequestSet
  PROVE  /\ m.type = "SetSource" /\ m.slide \in DOMAIN deck /\ m.id \in Nat \ {0}
         /\ CompileBusy(m) \in AnswerSet /\ CompileResult(m) \in AnswerSet
<1>1. m.type = "SetSource" /\ m.slide \in DOMAIN deck /\ m.id \in Nat \ {0} /\ m.rev \in Int
  BY DEF RequestSet
<1>2. CompileBusy(m) \in AnswerSet
  BY <1>1 DEF CompileBusy, AnswerSet
<1>3. CompileResult(m) \in AnswerSet
  BY <1>1 DEF CompileResult, AnswerSet
<1> QED  BY <1>1, <1>2, <1>3

LEMMA AnswerFacts ==
  ASSUME NEW m \in AnswerSet
  PROVE  /\ m.slide \in DOMAIN deck
         /\ m.type = "CompileResult" =>
              m.compiled \in BOOLEAN /\ m.syntax_error \in BOOLEAN /\ m.id \in Nat \ {0}
BY DEF AnswerSet

LEMMA TypedInit == Init => TypeInv
<1> SUFFICES ASSUME Init PROVE TypeInv
  OBVIOUS
<1>1. PICK texts \in [DOMAIN deck -> Texts] :
        /\ \A s \in DOMAIN deck : texts[s] \in deck[s]
        /\ files = [s \in DOMAIN deck |-> FreshFile(texts[s])]
  BY DEF Init
<1>2. FilesTyped
  BY <1>1 DEF FilesTyped, FileStates, FreshFile
<1>3. hist = [s \in DOMAIN deck |-> FreshHist] /\ acts = MaxActs
  BY DEF Init
<1>4. HistTyped
  BY <1>3, PipelineAssumption DEF HistTyped, FreshHist
<1>5. MessagesTyped
  BY DEF Init, MessagesTyped
<1>6. ui \in Frames
  BY DEF Init, Frames
<1>7. Object(logic) /\ proc = "none"
  BY StartedObject DEF Init
<1> QED  BY <1>2, <1>4, <1>5, <1>6, <1>7 DEF TypeInv

LEMMA StillTyped ==
  ASSUME deck' = deck
  PROVE  /\ UNCHANGED files /\ FilesTyped => FilesTyped'
         /\ UNCHANGED <<acts, hist>> /\ HistTyped => HistTyped'
         /\ UNCHANGED <<toWorker, job, toMain>> /\ MessagesTyped => MessagesTyped'
         /\ UNCHANGED ui /\ ui \in Frames => ui' \in Frames'
         /\ Frames' = Frames /\ RequestSet' = RequestSet /\ AnswerSet' = AnswerSet
<1>1. Frames' = Frames
  BY DEF Frames
<1>2. RequestSet' = RequestSet
  BY DEF RequestSet
<1>3. AnswerSet' = AnswerSet
  BY DEF AnswerSet
<1>4. UNCHANGED files /\ FilesTyped => FilesTyped'
  BY DEF FilesTyped
<1>5. UNCHANGED <<acts, hist>> /\ HistTyped => HistTyped'
  BY DEF HistTyped
<1>6. UNCHANGED <<toWorker, job, toMain>> /\ MessagesTyped => MessagesTyped'
  BY <1>2, <1>3 DEF MessagesTyped
<1> QED  BY <1>1, <1>2, <1>3, <1>4, <1>5, <1>6

(* What the user does leaves the processes and the messages alone.         *)
LEMMA UserTyped ==
  ASSUME TypeInv, IdInv, deck' = deck, NEW s \in DOMAIN deck, NEW k \in deck[s],
         Type(s, k) \/ Execute(s) \/ RestartWorker
  PROVE  TypeInv'
<1>1. /\ deck \in Decks /\ DOMAIN hist = DOMAIN deck
      /\ \A t \in DOMAIN deck : HistFields \subseteq DOMAIN hist[t]
  BY DEF IdInv, Shape
<1>2. MaxActs \in Nat /\ deck[s] \subseteq Texts
  BY <1>1, DeckFacts
<1>3. /\ acts > 0 /\ acts' = acts - 1
      /\ UNCHANGED <<proc, ui, job, toWorker, toMain>>
  BY DEF Type, Execute, RestartWorker, UserActs
<1>4. /\ FilesTyped /\ HistTyped /\ MessagesTyped /\ ui \in Frames /\ Object(logic)
      /\ proc \in {"none", "running", "dead"}
  BY DEF TypeInv
<1>5. MessagesTyped' /\ ui' \in Frames' /\ proc' \in {"none", "running", "dead"}
  BY <1>3, <1>4, StillTyped
<1>6. acts' \in 0..MaxActs /\ MaxActs - acts' = MaxActs - acts + 1
  BY <1>2, <1>3, <1>4 DEF HistTyped
<1>7. CASE Type(s, k)
  <2>1. files' = [files EXCEPT ![s].text = k] /\ UNCHANGED <<logic, hist>>
    BY <1>7 DEF Type
  <2>2. [files[s] EXCEPT !.text = k] \in FileStates /\ [files[s] EXCEPT !.text = k].text = k
    BY <1>2, <1>4 DEF FilesTyped, FileStates
  <2>3. FilesTyped'
    BY <1>4, <2>1, <2>2 DEF FilesTyped
  <2>4. HistTyped'
    BY <1>2, <1>4, <1>6, <2>1 DEF HistTyped
  <2> QED  BY <1>4, <1>5, <2>1, <2>3, <2>4 DEF TypeInv
<1>8. CASE Execute(s)
  <2>1. /\ files' = [files EXCEPT ![s] = Executed(files[s])]
        /\ hist' = [hist EXCEPT ![s] = [FreshHist EXCEPT !.rev = hist[s].rev + 1]]
        /\ UNCHANGED logic
    BY <1>8 DEF Execute
  <2>2. FilesTyped'
    <3>1. Executed(files[s]) \in FileStates /\ Executed(files[s]).text = files[s].text
      BY <1>4, FileTyped DEF FilesTyped
    <3> QED  BY <1>4, <2>1, <3>1 DEF FilesTyped
  <2>3. \A t \in DOMAIN deck : hist'[t].rev \in {hist[t].rev, hist[t].rev + 1}
    BY <1>1, <2>1 DEF FreshHist
  <2>4. HistTyped'
    <3>1. ASSUME NEW t \in DOMAIN deck
          PROVE  hist'[t].rev \in 0..(MaxActs - acts')
      <4>1. hist[t].rev \in 0..(MaxActs - acts) /\ acts \in 0..MaxActs
        BY <1>4 DEF HistTyped
      <4>2. hist'[t].rev = hist[t].rev \/ hist'[t].rev = hist[t].rev + 1
        BY <2>3
      <4>3. PICK n \in 0..(MaxActs - acts) : n = hist[t].rev
        BY <4>1
      <4>4. PICK v \in Nat : v = MaxActs - acts
        BY <1>2, <4>1
      <4>5. MaxActs - acts' = v + 1 /\ n \in 0..v
        BY <1>6, <4>3, <4>4
      <4>6. n \in 0..(MaxActs - acts') /\ n + 1 \in 0..(MaxActs - acts')
        <5>1. n \in 0..(v + 1) /\ n + 1 \in 0..(v + 1)
          BY <4>5
        <5> QED  BY <4>5, <5>1
      <4> QED  BY <4>2, <4>3, <4>6
    <3> QED  BY <1>6, <3>1 DEF HistTyped
  <2> QED  BY <1>4, <1>5, <2>1, <2>2, <2>4 DEF TypeInv
<1>9. CASE RestartWorker
  <2>1. logic' = Sup!RequestRestart(logic, 0) /\ UNCHANGED <<files, hist>>
    BY <1>9 DEF RestartWorker
  <2>2. HistTyped'
    BY <1>2, <1>4, <1>6, <2>1 DEF HistTyped
  <2> QED  BY <1>4, <1>5, <2>1, <2>2, RestartObject, StillTyped DEF TypeInv
<1> QED  BY <1>7, <1>8, <1>9

LEMMA ReapTyped ==
  ASSUME TypeInv, IdInv, PendingInv, deck' = deck, Reap
  PROVE  TypeInv'
<1> DEFINE l == Sup!OnWorkerExit(logic, 0)
<1>1. /\ files' = ApplyPoison(l) /\ logic' = Sup!TakePoisonedSlide(l)
      /\ hist' = [s \in DOMAIN hist |->
                    [hist[s] EXCEPT
                       !.answered = FALSE,
                       !.named = @ \/ l.poisoned_slide = s,
                       !.culprit = @ \/ (job # NoJob /\ job.slide = s
                                         /\ job.rev = hist[s].rev)]]
      /\ proc = "dead" /\ proc' = "none" /\ job' = NoJob /\ toMain' = <<>> /\ toWorker' = <<>>
      /\ ui' = [ui EXCEPT !.phase = "drain"] /\ acts' = acts
  BY DEF Reap
<1>2. Object(l)
  BY <1>1, ExitObject DEF PendingInv, TypeInv
<1>3. Object(logic')
  <2>1. NoFile \in Files \cup {NoFile}
    OBVIOUS
  <2> QED  BY <1>1, <1>2, <2>1, MethodObject
<1> HIDE DEF l
<1>4. /\ DOMAIN files = DOMAIN deck /\ DOMAIN hist = DOMAIN deck
      /\ \A s \in DOMAIN deck : HistFields \subseteq DOMAIN hist[s]
  BY DEF IdInv, Shape
<1>5. FilesTyped'
  <2>1. /\ files \in [DOMAIN deck -> FileStates] /\ \A s \in DOMAIN deck : files[s].text \in deck[s]
    BY DEF TypeInv, FilesTyped
  <2>2. \A s \in DOMAIN deck : Poisoned(files[s]) \in FileStates /\ Poisoned(files[s]).text = files[s].text
    BY <2>1, FileTyped
  <2>3. files' = [s \in DOMAIN deck |-> IF s = l.poisoned_slide THEN Poisoned(files[s]) ELSE files[s]]
    BY <1>1, <1>4 DEF ApplyPoison
  <2> QED  BY <2>1, <2>2, <2>3 DEF FilesTyped
<1>6. \A s \in DOMAIN deck : hist'[s].rev = hist[s].rev
  BY <1>1, <1>4 DEF HistFields
<1>7. HistTyped'
  BY <1>1, <1>6 DEF TypeInv, HistTyped
<1>8. MessagesTyped'
  <2>1. <<>> \in Seq(RequestSet) /\ <<>> \in Seq(AnswerSet)
    OBVIOUS
  <2>2. RequestSet' = RequestSet /\ AnswerSet' = AnswerSet
    BY StillTyped
  <2> QED  BY <1>1, <2>1, <2>2 DEF MessagesTyped
<1>9. ui' \in Frames'
  BY <1>1, StillTyped DEF TypeInv, Frames
<1> QED  BY <1>1, <1>3, <1>5, <1>7, <1>8, <1>9 DEF TypeInv

LEMMA ReceiveTyped ==
  ASSUME TypeInv, IdInv, deck' = deck, RecvCompileBusy \/ RecvCompileResult
  PROVE  TypeInv'
<1> DEFINE m == Head(toMain)
<1>1. toMain # <<>> /\ toMain' = Tail(toMain) /\ UNCHANGED <<proc, ui, job, toWorker, acts>>
  BY DEF RecvCompileBusy, RecvCompileResult, Receiving, user
<1>2. m \in AnswerSet /\ toMain' \in Seq(AnswerSet)
  BY <1>1 DEF TypeInv, MessagesTyped
<1>3. MessagesTyped' /\ ui' \in Frames'
  BY <1>1, <1>2, StillTyped DEF TypeInv, MessagesTyped
<1>4. /\ deck \in Decks /\ DOMAIN hist = DOMAIN deck
      /\ \A s \in DOMAIN deck : HistFields \subseteq DOMAIN hist[s]
  BY DEF IdInv, Shape
<1> HIDE DEF m
<1>5. m.slide \in DOMAIN deck /\ m.slide \in Files \cup {NoFile}
  BY <1>2, <1>4, AnswerFacts, DeckFacts
<1>6. CASE RecvCompileBusy
  <2>1. logic' = Sup!OnCompileBusy(logic, m.slide, 0) /\ UNCHANGED <<files, hist>>
    BY <1>6 DEF RecvCompileBusy, user, m
  <2>2. Object(logic')
    BY <1>5, <2>1, MethodObject DEF TypeInv
  <2> QED  BY <1>1, <1>3, <2>1, <2>2, StillTyped DEF TypeInv
<1>7. CASE RecvCompileResult
  <2>1. /\ logic' = Sup!OnCompileResult(logic, m.slide, 0) /\ m.type = "CompileResult"
        /\ \/ UNCHANGED <<files, hist>>
           \/ /\ files' = [files EXCEPT ![m.slide] =
                   [@ EXCEPT !.in_flight = FALSE, !.compiled = m.compiled,
                             !.syntax_error = m.syntax_error]]
              /\ hist' = [hist EXCEPT ![m.slide].answered = TRUE]
    BY <1>7 DEF RecvCompileResult, Receiving, m
  <2>2. Object(logic')
    BY <1>5, <2>1, MethodObject DEF TypeInv
  <2>3. m.compiled \in BOOLEAN /\ m.syntax_error \in BOOLEAN
    BY <1>2, <2>1, AnswerFacts
  <2>4. CASE UNCHANGED <<files, hist>>
    BY <1>1, <1>3, <2>2, <2>4, StillTyped DEF TypeInv
  <2>5. CASE /\ files' = [files EXCEPT ![m.slide] =
                  [@ EXCEPT !.in_flight = FALSE, !.compiled = m.compiled,
                            !.syntax_error = m.syntax_error]]
             /\ hist' = [hist EXCEPT ![m.slide].answered = TRUE]
    <3>1. FilesTyped'
      <4> DEFINE g == [files[m.slide] EXCEPT !.in_flight = FALSE, !.compiled = m.compiled,
                                             !.syntax_error = m.syntax_error]
      <4>1. FilesTyped
        BY DEF TypeInv
      <4>2. g \in FileStates /\ g.text = files[m.slide].text
        BY <1>5, <2>3, <4>1 DEF FilesTyped, FileStates
      <4>3. files' = [files EXCEPT ![m.slide] = g]
        BY <2>5
      <4> HIDE DEF g
      <4> QED  BY <1>5, <4>1, <4>2, <4>3 DEF FilesTyped
    <3>2. \A s \in DOMAIN deck : hist'[s].rev = hist[s].rev
      BY <1>4, <2>5 DEF HistFields
    <3>3. HistTyped'
      BY <1>1, <3>2 DEF TypeInv, HistTyped
    <3> QED  BY <1>1, <1>3, <2>2, <3>1, <3>3 DEF TypeInv
  <2> QED  BY <2>1, <2>4, <2>5
<1> QED  BY <1>6, <1>7

(* The UI frame beyond its pump: the supervisor is asked what to do, and   *)
(* the files are submitted one by one.                                     *)
LEMMA UpdateTyped ==
  ASSUME TypeInv, IdInv, deck' = deck, UpdateSpawn \/ UpdateKill \/ UpdateNone
  PROVE  TypeInv'
<1>1. /\ ui' = [phase |-> "submit", todo |-> DOMAIN files]
      /\ UNCHANGED <<job, toWorker, toMain, acts, hist>>
  BY DEF UpdateSpawn, UpdateKill, UpdateNone, Updated, user
<1>2. DOMAIN files = DOMAIN deck
  BY DEF IdInv, Shape
<1>3. ui' \in Frames' /\ HistTyped' /\ MessagesTyped'
  BY <1>1, <1>2, StillTyped DEF TypeInv, Frames
<1>4. CASE UpdateSpawn
  <2> DEFINE asked == Sup!Update(logic, 0, FALSE)
             l == Sup!OnSpawned(asked, 0)
  <2>1. /\ ~ logic.gave_up
        /\ \/ /\ proc' = "running" /\ logic' = l
              /\ files' = [s \in DOMAIN files |-> Resubmittable(files[s])]
           \/ /\ logic' = Sup!OnWorkerExit(l, 0)
              /\ UNCHANGED <<proc, files>>
    BY <1>4 DEF UpdateSpawn, Sup!MaySpawn
  <2>2. Object(asked) /\ ~ asked.gave_up
    BY <2>1, UpdateObject DEF TypeInv
  <2> HIDE DEF asked
  <2>3. Object(l) /\ l.spawned
    BY <2>2, SpawnedObject
  <2> HIDE DEF l
  <2>4. Object(logic')
    BY <2>1, <2>3, ExitObject
  <2>5. files \in [DOMAIN deck -> FileStates] /\ \A s \in DOMAIN deck : files[s].text \in deck[s]
    BY DEF TypeInv, FilesTyped
  <2>6. \A s \in DOMAIN deck :
          Resubmittable(files[s]) \in FileStates /\ Resubmittable(files[s]).text = files[s].text
    BY <2>5, FileTyped
  <2>7. FilesTyped'
    BY <1>2, <2>1, <2>5, <2>6 DEF FilesTyped
  <2>8. proc' \in {"none", "running", "dead"}
    BY <2>1 DEF TypeInv
  <2> QED  BY <1>3, <2>4, <2>7, <2>8 DEF TypeInv
<1>5. CASE UpdateKill
  <2>1. PICK expired \in BOOLEAN : logic' = Sup!Update(logic, 0, expired)
    BY <1>5 DEF UpdateKill
  <2>2. UNCHANGED <<proc, files>>
    BY <1>5 DEF UpdateKill
  <2> QED  BY <1>3, <2>1, <2>2, UpdateObject, StillTyped DEF TypeInv
<1>6. CASE UpdateNone
  <2>1. UNCHANGED <<proc, logic, files>>
    BY <1>6 DEF UpdateNone
  <2> QED  BY <1>3, <2>1, StillTyped DEF TypeInv
<1> QED  BY <1>4, <1>5, <1>6

LEMMA LeastFile ==
  ASSUME NEW S \in SUBSET Files, S # {}
  PROVE  \E x \in S : \A y \in S : x <= y
<1>1. S \in SUBSET Int /\ IsFiniteSet(S)
  BY PipelineAssumption, FS_Subset
<1> QED  BY <1>1, LeastOfFinite

LEMMA SubmitTyped ==
  ASSUME TypeInv, IdInv, deck' = deck, Submit
  PROVE  TypeInv'
<1> DEFINE s == Min(ui.todo)
           m == SetSource(s, FreshId)
<1>1. /\ ui.todo # {}
      /\ ui' = [phase |-> IF ui.todo = {s} THEN "reap" ELSE "submit", todo |-> ui.todo \ {s}]
      /\ IF Wanted(files[s]) /\ Sends
         THEN /\ toWorker' = Append(toWorker, m)
              /\ files' = [files EXCEPT ![s].in_flight = TRUE, ![s].request_id = FreshId]
              /\ logic' = Sup!OnCompileSubmitted(logic, 0)
         ELSE UNCHANGED <<toWorker, files, logic>>
      /\ UNCHANGED <<proc, job, toMain, acts, hist>>
  BY DEF Submit, user
<1>2. ui.todo \subseteq DOMAIN deck /\ deck \in Decks
  BY DEF TypeInv, IdInv, Frames
<1>3. s \in ui.todo
  <2>1. ui.todo \subseteq Files
    BY <1>2, DeckFacts
  <2>2. \E x \in ui.todo : \A y \in ui.todo : x <= y
    BY <1>1, <2>1, LeastFile
  <2> QED  BY <2>2 DEF Min
<1>4. FreshId \in Nat \ {0}
  BY FreshIdIsFresh DEF IdInv
<1>5. ui' \in Frames' /\ HistTyped'
  BY <1>1, <1>2, StillTyped DEF TypeInv, Frames
<1>6. CASE ~ (Wanted(files[s]) /\ Sends)
  BY <1>1, <1>5, <1>6, StillTyped DEF TypeInv
<1>7. CASE Wanted(files[s]) /\ Sends
  <2>1. s \in DOMAIN deck /\ s \in Files \cup {NoFile}
    BY <1>2, <1>3, DeckFacts
  <2>2. FilesTyped /\ HistTyped /\ MessagesTyped
    BY DEF TypeInv
  <2>3. files[s] \in FileStates /\ files[s].text \in Texts /\ hist[s].rev \in Int
    BY <2>1, <2>2 DEF FilesTyped, FileStates, HistTyped
  <2>4. m \in RequestSet
    BY <1>4, <2>1, <2>3 DEF SetSource, RequestSet
  <2>5. MessagesTyped'
    <3> HIDE DEF m
    <3>1. Append(toWorker, m) \in Seq(RequestSet)
      BY <2>2, <2>4 DEF MessagesTyped
    <3> QED  BY <1>1, <1>7, <2>2, <3>1, StillTyped DEF MessagesTyped
  <2>6. FilesTyped'
    <3> DEFINE g == [files[s] EXCEPT !.in_flight = TRUE, !.request_id = FreshId]
    <3>1. g \in FileStates /\ g.text = files[s].text
      BY <1>4, <2>3 DEF FileStates
    <3>2. files' = [files EXCEPT ![s] = g]
      BY <1>1, <1>7, <2>1, <2>2, Zenon DEF FilesTyped
    <3> HIDE DEF g
    <3> QED  BY <2>1, <2>2, <3>1, <3>2 DEF FilesTyped
  <2>7. Object(logic')
    BY <1>1, <1>7, <2>1, MethodObject DEF TypeInv
  <2> QED  BY <1>1, <1>5, <2>5, <2>6, <2>7 DEF TypeInv
<1> QED  BY <1>6, <1>7

LEMMA TypedNext == TypeInv /\ PendingInv /\ IdInv /\ [Next /\ UNCHANGED deck]_<<vars, deck>> => TypeInv'
<1> SUFFICES ASSUME TypeInv, PendingInv, IdInv, [Next /\ UNCHANGED deck]_<<vars, deck>>
             PROVE  TypeInv'
  OBVIOUS
<1>0. deck' = deck
  BY DEF vars
<1> USE <1>0
<1>1. ASSUME NEW s \in DOMAIN deck, NEW k \in deck[s], Type(s, k)
      PROVE  TypeInv'
  BY <1>1, UserTyped
<1>2. ASSUME NEW s \in DOMAIN deck, Execute(s) \/ RestartWorker
      PROVE  TypeInv'
  <2>1. PICK k : k \in deck[s]
    BY PipelineAssumption DEF IdInv
  <2> QED  BY <1>2, <2>1, UserTyped
<1>3. CASE RestartWorker
  <2>1. PICK s : s \in DOMAIN deck
    BY PipelineAssumption DEF IdInv
  <2> QED  BY <1>2, <1>3, <2>1
<1>4. CASE NothingToReap
  <2>1. ui' = [ui EXCEPT !.phase = "drain"]
        /\ UNCHANGED <<proc, logic, files, job, toWorker, toMain, acts, hist>>
    BY <1>4 DEF NothingToReap, user
  <2>2. ui' \in Frames'
    BY <2>1, StillTyped DEF TypeInv, Frames
  <2> QED  BY <2>1, <2>2, StillTyped DEF TypeInv
<1>5. CASE StartCompile
  <2>1. /\ toWorker # <<>> /\ job' = Head(toWorker) /\ toWorker' = Tail(toWorker)
        /\ toMain' = Append(toMain, CompileBusy(Head(toWorker)))
        /\ UNCHANGED <<proc, logic, ui, files, acts, hist>>
    BY <1>5 DEF StartCompile, user
  <2>2. Head(toWorker) \in RequestSet /\ toWorker' \in Seq(RequestSet) /\ toMain \in Seq(AnswerSet)
    BY <2>1 DEF TypeInv, MessagesTyped
  <2>3. toMain' \in Seq(AnswerSet)
    BY <2>1, <2>2, RequestFacts
  <2>4. MessagesTyped'
    BY <2>1, <2>2, <2>3, StillTyped DEF MessagesTyped
  <2> QED  BY <2>1, <2>4, StillTyped DEF TypeInv
<1>6. CASE FinishCompile
  <2>1. /\ job # NoJob /\ job' = NoJob /\ toMain' = Append(toMain, CompileResult(job))
        /\ UNCHANGED <<proc, logic, ui, files, toWorker, acts, hist>>
    BY <1>6 DEF FinishCompile, user
  <2>2. job \in RequestSet /\ toWorker \in Seq(RequestSet) /\ toMain \in Seq(AnswerSet)
    BY <2>1 DEF TypeInv, MessagesTyped
  <2>3. toMain' \in Seq(AnswerSet)
    BY <2>1, <2>2, RequestFacts
  <2>4. MessagesTyped'
    BY <2>1, <2>2, <2>3, StillTyped DEF MessagesTyped
  <2> QED  BY <2>1, <2>4, StillTyped DEF TypeInv
<1>7. CASE Crash
  <2>1. proc' = "dead" /\ UNCHANGED <<logic, ui, files, job, toWorker, toMain, acts, hist>>
    BY <1>7 DEF Crash, user
  <2> QED  BY <2>1, StillTyped DEF TypeInv
<1>8. CASE UNCHANGED <<vars, deck>>
  <2>1. UNCHANGED <<proc, logic, ui, files, job, toWorker, toMain, acts, hist>>
    BY <1>8 DEF vars
  <2> QED  BY <2>1, StillTyped DEF TypeInv
<1> QED  BY <1>1, <1>2, <1>3, <1>4, <1>5, <1>6, <1>7, <1>8, ReapTyped, ReceiveTyped, UpdateTyped,
            SubmitTyped DEF Next, UIStep

LEMMA TypedAlways == Spec => []TypeInv
<1>1. Init => TypeInv /\ PendingInv /\ IdInv
  BY TypedInit, PendingInit, IdInit
<1>2. TypeInv /\ PendingInv /\ IdInv /\ [Next /\ UNCHANGED deck]_<<vars, deck>>
        => TypeInv' /\ PendingInv' /\ IdInv'
  BY TypedNext, PendingNext, IdNext
<1> QED  BY <1>1, <1>2, PTL DEF Spec

(* Every variable keeps its type: the UI's files (RemoteEngine.h), the     *)
(* supervisor's object through every call pump() makes on it, and the      *)
(* messages; a file never says what its presentation does not let it say,  *)
(* and no request or answer is of a file that is not there or without an   *)
(* id (RemoteEngine.cpp:202-212, 485-517).                                 *)
THEOREM PipelineTyped == Spec => []TypeOK
<1>1. TypeInv /\ IdInv => TypeOK
  <2> SUFFICES ASSUME TypeInv, IdInv PROVE TypeOK
    OBVIOUS
  <2>1. deck \in Decks /\ DOMAIN deck \subseteq Files
    BY DeckFacts DEF IdInv
  <2>2. ui.phase \in {"reap", "drain", "submit"} /\ ui.todo \subseteq Files
    BY <2>1 DEF TypeInv, Frames
  <2>3. \A s \in DOMAIN deck :
          /\ files[s].text \in deck[s]
          /\ {files[s].compiled, files[s].syntax_error, files[s].in_flight} \subseteq BOOLEAN
          /\ files[s].request_id \in Nat
          /\ hist[s].rev \in 0..(MaxActs - acts)
    BY DEF TypeInv, FilesTyped, FileStates, HistTyped
  <2>4. \A m \in Requests : m \in RequestSet
    BY DEF TypeInv, MessagesTyped, Requests
  <2>5. \A m \in Answers : m \in AnswerSet /\ m.type = "CompileResult"
    BY DEF TypeInv, MessagesTyped, Answers
  <2>6. \A m \in Requests \cup Answers : m.slide \in Files /\ m.id \in Nat \ {0}
    BY <2>1, <2>4, <2>5, RequestFacts, AnswerFacts
  <2> QED  BY <2>2, <2>3, <2>6 DEF TypeInv, Object, HistTyped, TypeOK
<1>2. Spec => []IdInv
  BY IdInit, IdNext, PTL DEF Spec
<1> QED  BY <1>1, <1>2, TypedAlways, PTL
=============================================================================
