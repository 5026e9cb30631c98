------------------------ MODULE SlideSession_proofs -------------------------
(***************************************************************************)
(* For every set of slides and every scene: the types of the session; a    *)
(* slide runs its own code, with the names of its own text unless it is a  *)
(* lambda literal; an input that is down in a slide is held there, or its  *)
(* end is on the way.                                                      *)
(***************************************************************************)
EXTENDS SlideSession, ProofLemmas

-----------------------------------------------------------------------------
(* Files are submitted in ascending order: every file to send, and nothing *)
(* else, is in Ascending(ToSend).                                          *)

IsAscending(q, S) ==
  /\ q \in [1..Cardinality(S) -> S]
  /\ \A i, j \in 1..Cardinality(S) : i < j => q[i] < q[j]

LEMMA FilesAreIntegers == Files \subseteq Int /\ IsFiniteSet(Files)
<1>1. IsFiniteSet(Slides \cup {Setup})
  BY FS_AddElement, SessionAssumption
<1> QED  BY <1>1, SessionAssumption DEF Files, Setup

LEMMA SmallestFile ==
  ASSUME NEW S \in SUBSET Files, S # {}
  PROVE  \E x \in S : \A y \in S : x <= y
<1>1. CASE Setup \in S
  BY <1>1, SessionAssumption DEF Files, Setup
<1>2. CASE Setup \notin S
  <2>1. S \in SUBSET Nat
    BY <1>2, SessionAssumption DEF Files
  <2> QED  BY <2>1, SmallestOfNat
<1> QED  BY <1>1, <1>2

(* One file before an ascending sequence of larger ones is one.            *)
LEMMA AscendingStep ==
  ASSUME NEW S \in SUBSET Files, NEW x \in S, \A y \in S : x <= y,
         NEW p, IsAscending(p, S \ {x})
  PROVE  \E q : IsAscending(q, S)
<1> DEFINE n == Cardinality(S)
           q == [i \in 1..n |-> IF i = 1 THEN x ELSE p[i - 1]]
<1>1. IsFiniteSet(S)
  BY FilesAreIntegers, FS_Subset
<1>2. Cardinality(S \ {x}) = n - 1 /\ n \in Nat
  BY <1>1, FS_RemoveElement, FS_CardinalityType
<1>3. S \subseteq Int
  BY FilesAreIntegers
<1> HIDE DEF n
<1>4. /\ \A i \in 1..(n - 1) : p[i] \in S /\ p[i] # x
      /\ \A i, j \in 1..(n - 1) : i < j => p[i] < p[j]
  BY <1>2 DEF IsAscending
<1>5. ASSUME NEW i \in 1..n
      PROVE  q[i] \in S
  <2>1. CASE i = 1
    BY <2>1
  <2>2. CASE i # 1
    <3>1. i - 1 \in 1..(n - 1)
      BY <2>2, <1>2
    <3> QED  BY <2>2, <3>1, <1>4
  <2> QED  BY <2>1, <2>2
<1>6. ASSUME NEW i \in 1..n, NEW j \in 1..n, i < j
      PROVE  q[i] < q[j]
  <2>1. j # 1 /\ j - 1 \in 1..(n - 1) /\ q[j] = p[j - 1]
    BY <1>6, <1>2
  <2>2. CASE i = 1
    <3>1. q[i] = x /\ p[j - 1] \in S /\ p[j - 1] # x
      BY <2>2, <2>1, <1>4
    <3>2. x \in Int /\ p[j - 1] \in Int /\ x <= p[j - 1]
      BY <3>1, <1>3
    <3> QED  BY <3>1, <3>2, <2>1
  <2>3. CASE i # 1
    <3>1. i - 1 \in 1..(n - 1) /\ q[i] = p[i - 1] /\ i - 1 < j - 1
      BY <2>3, <1>6, <1>2
    <3> QED  BY <3>1, <2>1, <1>4
  <2> QED  BY <2>2, <2>3
<1>7. q \in [1..n -> S]
  BY <1>5
<1>8. IsAscending(q, S)
  BY <1>6, <1>7 DEF IsAscending, n
<1> QED  BY <1>8

(* By the least size of a counterexample.                                  *)
LEMMA AscendingExists ==
  ASSUME NEW S \in SUBSET Files
  PROVE  \E q : IsAscending(q, S)
<1> DEFINE Bad == {n \in Nat : \E F \in SUBSET Files : Cardinality(F) = n /\ ~ \E q : IsAscending(q, F)}
<1>1. ASSUME NEW F \in SUBSET Files
      PROVE  IsFiniteSet(F) /\ Cardinality(F) \in Nat
  BY FilesAreIntegers, FS_Subset, FS_CardinalityType
<1>2. SUFFICES Bad = {}
  BY <1>1
<1>3. SUFFICES ASSUME Bad # {} PROVE FALSE
  OBVIOUS
<1>4. PICK n \in Bad : \A k \in Bad : n <= k
  BY <1>3, SmallestOfNat
<1>5. PICK F \in SUBSET Files : Cardinality(F) = n /\ ~ \E q : IsAscending(q, F)
  OBVIOUS
<1>6. CASE F = {}
  <2>1. Cardinality(F) = 0
    BY <1>6, FS_EmptySet
  <2>2. IsAscending([i \in 1..0 |-> 0], F)
    BY <2>1 DEF IsAscending
  <2> QED  BY <2>2, <1>5
<1>7. CASE F # {}
  <2>1. PICK x \in F : \A y \in F : x <= y
    BY <1>7, SmallestFile
  <2>2. Cardinality(F \ {x}) = n - 1 /\ n \in Nat
    BY <1>1, <1>5, FS_RemoveElement
  <2>3. n - 1 \in Nat
    BY <2>2, <1>1
  <2>4. n - 1 \notin Bad
    BY <2>2, <1>4
  <2>5. F \ {x} \in SUBSET Files
    OBVIOUS
  <2>6. PICK p : IsAscending(p, F \ {x})
    BY <2>2, <2>3, <2>4, <2>5
  <2> QED  BY <2>1, <2>6, <1>5, AscendingStep
<1> QED  BY <1>6, <1>7

LEMMA AscendingIsIn ==
  ASSUME NEW S \in SUBSET Files, NEW i \in 1..Cardinality(S)
  PROVE  Ascending(S)[i] \in S
<1>1. \E q \in [1..Cardinality(S) -> S] :
        \A k, j \in 1..Cardinality(S) : k < j => q[k] < q[j]
  BY AscendingExists DEF IsAscending
<1>2. Ascending(S) \in [1..Cardinality(S) -> S]
  BY <1>1 DEF Ascending
<1> QED  BY <1>2

-----------------------------------------------------------------------------
(* What is a file's own. *)

RunOwn(s, r) == r # NoRun => r.code[1] = s /\ (~ r.literal => r.names = r.code)

SourceShape(sf) == {"function", "bound", "tx"} \subseteq DOMAIN sf
SourceOwn(s, sf) == (sf.function # "none" => sf.bound[1] = s) /\ RunOwn(s, sf.tx)

(* Compiling keeps the record, and binds a slide to its own text only.     *)
LEMMA CompiledOwn ==
  ASSUME NEW s, NEW sf, SourceShape(sf), SourceOwn(s, sf), NEW t, t.id[1] = s
  PROVE  SourceShape(SlideCompiled(sf, t)) /\ SourceOwn(s, SlideCompiled(sf, t))
<1>1. SourceShape(Unfinished(sf)) /\ SourceOwn(s, Unfinished(sf))
  BY DEF Unfinished, Executed, SourceShape, SourceOwn
<1>2. SourceShape(Compiled(sf, t)) /\ SourceOwn(s, Compiled(sf, t))
  BY DEF Compiled, SourceShape, SourceOwn
<1>3. ASSUME NEW c, SourceShape(c), SourceOwn(s, c)
      PROVE  SourceShape(Bound(c, t)) /\ SourceOwn(s, Bound(c, t))
  BY <1>3 DEF Bound, SourceShape, SourceOwn, RunOwn
<1>4. ASSUME NEW c, SourceShape(c), SourceOwn(s, c), NEW v
      PROVE  SourceShape([c EXCEPT !.value = v]) /\ SourceOwn(s, [c EXCEPT !.value = v])
  BY <1>4 DEF SourceShape, SourceOwn
<1> QED  BY <1>1, <1>2, <1>3, <1>4 DEF SlideCompiled

LEMMA SetupShape ==
  ASSUME NEW sf, SourceShape(sf), NEW t
  PROVE  SourceShape(SetupCompiled(sf, t)) /\ SourceShape(SlideCompiled(sf, t))
<1>1. SourceShape(Unfinished(sf))
  BY DEF Unfinished, Executed, SourceShape
<1>2. SourceShape(Compiled(sf, t))
  BY DEF Compiled, SourceShape
<1>3. ASSUME NEW c, SourceShape(c)
      PROVE  SourceShape(Bound(c, t))
  BY <1>3 DEF Bound, SourceShape
<1>4. ASSUME NEW c, SourceShape(c), NEW v
      PROVE  SourceShape([c EXCEPT !.value = v])
  BY <1>4 DEF SourceShape
<1> QED  BY <1>1, <1>2, <1>3, <1>4 DEF SlideCompiled, SetupCompiled

(* Rendering runs what was bound, or what ran before.                      *)
LEMMA RenderedOwn ==
  ASSUME NEW s, NEW sf, SourceShape(sf), SourceOwn(s, sf), NEW names,
         NEW o \in Rendered(sf, names)
  PROVE  SourceShape(o.src) /\ SourceOwn(s, o.src) /\ RunOwn(s, o.run)
<1>1. SourceShape(Dropped(sf)) /\ SourceOwn(s, Dropped(sf))
  BY DEF Dropped, SourceShape, SourceOwn, RunOwn
<1>2. ASSUME sf.function # "none"
      PROVE  RunOwn(s, Evaluated(sf, names))
  BY <1>2 DEF Evaluated, SourceOwn, RunOwn, Run
<1>3. ASSUME NEW r, RunOwn(s, r)
      PROVE  SourceShape([sf EXCEPT !.tx = r]) /\ SourceOwn(s, [sf EXCEPT !.tx = r])
  BY <1>3 DEF SourceShape, SourceOwn
<1>4. RunOwn(s, NoRun)
  BY DEF RunOwn
<1>5. CASE sf.function = "none"
  BY <1>5, <1>4 DEF Rendered, Outcome
<1>6. CASE sf.function # "none"
  <2>1. CASE o \in Drops(sf, names)
    BY <2>1, <1>1, <1>4 DEF Drops, Outcome
  <2>2. CASE o \in Runnings(sf, names)
    BY <2>2, <1>6, <1>2, <1>3 DEF Runnings, Outcome
  <2> QED  BY <2>1, <2>2, <1>6 DEF Rendered
<1> QED  BY <1>5, <1>6

LEMMA RenderedShape ==
  ASSUME NEW sf, SourceShape(sf), NEW names, NEW o \in Rendered(sf, names)
  PROVE  SourceShape(o.src)
<1>1. SourceShape(Dropped(sf))
  BY DEF Dropped, SourceShape
<1>2. ASSUME NEW r
      PROVE  SourceShape([sf EXCEPT !.tx = r])
  BY DEF SourceShape
<1>3. CASE o \in Drops(sf, names)
  BY <1>3, <1>1 DEF Drops, Outcome
<1>4. CASE o \in Runnings(sf, names)
  BY <1>4, <1>2 DEF Runnings, Outcome
<1> QED  BY <1>3, <1>4 DEF Rendered, Outcome

-----------------------------------------------------------------------------
(* A queue of messages whose sources carry their file's own text. *)

MessageOwn(m) == m.type = "SetSource" => m.text.id[1] = m.file /\ m.file \in Files
QueueOwn(q) == \E M : q \in Seq(M) /\ \A m \in M : MessageOwn(m)

LEMMA SeqOwn ==
  ASSUME NEW M, \A m \in M : MessageOwn(m), NEW q \in Seq(M)
  PROVE  QueueOwn(q)
BY DEF QueueOwn

LEMMA EmptyOwn == QueueOwn(<<>>)
<1>1. <<>> \in Seq({}) /\ \A x \in {} : MessageOwn(x)
  OBVIOUS
<1> QED  BY <1>1, SeqOwn

LEMMA OneOwn ==
  ASSUME NEW m, MessageOwn(m)
  PROVE  QueueOwn(<<m>>)
<1>1. <<m>> \in Seq({m}) /\ \A x \in {m} : MessageOwn(x)
  OBVIOUS
<1> QED  BY <1>1, SeqOwn

LEMMA JoinOwn ==
  ASSUME NEW p, NEW q, QueueOwn(p), QueueOwn(q)
  PROVE  QueueOwn(p \o q)
<1>1. PICK M : p \in Seq(M) /\ \A m \in M : MessageOwn(m)
  BY DEF QueueOwn
<1>2. PICK N : q \in Seq(N) /\ \A m \in N : MessageOwn(m)
  BY DEF QueueOwn
<1>3. p \in Seq(M \cup N) /\ q \in Seq(M \cup N)
  BY <1>1, <1>2
<1>4. p \o q \in Seq(M \cup N)
  BY <1>3
<1> QED  BY <1>1, <1>2, <1>4 DEF QueueOwn

LEMMA TailOwn ==
  ASSUME NEW q, QueueOwn(q), q # <<>>
  PROVE  MessageOwn(Head(q)) /\ QueueOwn(Tail(q))
<1>1. PICK M : q \in Seq(M) /\ \A m \in M : MessageOwn(m)
  BY DEF QueueOwn
<1>2. Head(q) \in M /\ Tail(q) \in Seq(M)
  BY <1>1
<1> QED  BY <1>1, <1>2 DEF QueueOwn

-----------------------------------------------------------------------------
(* The inductive invariant: own texts in the files, on the socket, and in  *)
(* the worker.                                                             *)

FilesOwn == DOMAIN file \subseteq Files /\ \A f \in DOMAIN file : file[f].text.id[1] = f
FileShape == \A f \in DOMAIN file : {"text", "state"} \subseteq DOMAIN file[f]
WorkerShape ==
  /\ {"names", "src", "clipboard", "down", "ran"} \subseteq DOMAIN worker
  /\ Files \subseteq DOMAIN worker.src /\ Slides \subseteq DOMAIN worker.ran
  /\ \A f \in Files : SourceShape(worker.src[f])
WorkerOwn ==
  \A s \in Slides : SourceOwn(s, worker.src[s]) /\ RunOwn(s, worker.ran[s])

OwnInv == FilesOwn /\ FileShape /\ QueueOwn(toWorker) /\ WorkerShape /\ WorkerOwn

LEMMA FreshWorkerOwn ==
  ASSUME worker' = FreshWorker
  PROVE  WorkerShape' /\ WorkerOwn'
<1>1. /\ worker'.src = [f \in Files |-> FreshSource]
      /\ worker'.ran = [s \in Slides |-> NoRun]
      /\ {"names", "src", "clipboard", "down", "ran"} \subseteq DOMAIN worker'
  BY DEF FreshWorker
<1>2. SourceShape(FreshSource) /\ FreshSource.function = "none" /\ FreshSource.tx = NoRun
  BY DEF SourceShape, FreshSource
<1>3. Slides \subseteq Files
  BY DEF Files
<1> QED  BY <1>1, <1>2, <1>3 DEF WorkerShape, WorkerOwn, SourceOwn, RunOwn

LEMMA OwnInit == Init => OwnInv
<1> SUFFICES ASSUME Init PROVE OwnInv
  OBVIOUS
<1>1. DOMAIN scene.first \subseteq Files
  BY SessionAssumption DEF Init
<1>2. DOMAIN file = DOMAIN scene.first
  BY DEF Init
<1>3. ASSUME NEW f \in DOMAIN file
      PROVE  file[f].text.id[1] = f /\ {"text", "state"} \subseteq DOMAIN file[f]
  BY <1>2, <1>3 DEF Init
<1>4. WorkerShape /\ WorkerOwn
  <2>1. /\ worker.src = [f \in Files |-> FreshSource]
        /\ worker.ran = [s \in Slides |-> NoRun]
        /\ {"names", "src", "clipboard", "down", "ran"} \subseteq DOMAIN worker
    BY DEF FreshWorker, Init
  <2>2. SourceShape(FreshSource) /\ FreshSource.function = "none" /\ FreshSource.tx = NoRun
    BY DEF SourceShape, FreshSource
  <2>3. Slides \subseteq Files
    BY DEF Files
  <2> QED  BY <2>1, <2>2, <2>3 DEF WorkerShape, WorkerOwn, SourceOwn, RunOwn
<1>5. QueueOwn(toWorker)
  BY EmptyOwn DEF Init
<1> QED  BY <1>1, <1>2, <1>3, <1>4, <1>5 DEF OwnInv, FilesOwn, FileShape

(* What a frame sends. *)
LEMMA SourcesOwn == FilesOwn => QueueOwn(Sources)
<1> SUFFICES ASSUME FilesOwn PROVE QueueOwn(Sources)
  OBVIOUS
<1> DEFINE M == {SetSource(f) : f \in ToSend}
           n == Cardinality(ToSend)
<1>1. ToSend \in SUBSET Files /\ ToSend \subseteq DOMAIN file
  BY DEF ToSend, FilesOwn
<1>2. n \in Nat
  BY <1>1, FilesAreIntegers, FS_Subset, FS_CardinalityType
<1>3. \A i \in 1..n : Ascending(ToSend)[i] \in ToSend
  BY <1>1, AscendingIsIn
<1>4. Sources \in [1..n -> M]
  BY <1>3 DEF Sources
<1>5. Sources \in Seq(M)
  BY <1>2, <1>4
<1>6. \A m \in M : MessageOwn(m)
  BY <1>1 DEF SetSource, MessageOwn, FilesOwn
<1> QED  BY <1>5, <1>6 DEF QueueOwn

LEMMA FrameOwn ==
  ASSUME OwnInv, NEW V, NEW over, NEW c, Frame(V, over, c)
  PROVE  OwnInv'
<1> DEFINE ev == Gathered(V, over, c)
           in == V \cup Fed(V, over, c)
           focus == Focus((V \cap {over}) \cup Fed(V, over, c))
           begun == IF BeginsFrame(in, ev) THEN <<FrameBegin(in, ev)>> ELSE <<>>
<1>1. toWorker' = ((toWorker \o Sources) \o Pushes(focus)) \o begun
  BY DEF Frame
<1>2. QueueOwn(Pushes(focus))
  <2>1. MessageOwn(ClipboardData(clip))
    BY DEF MessageOwn, ClipboardData
  <2> QED  BY <2>1, EmptyOwn, OneOwn DEF Pushes
<1>3. QueueOwn(begun)
  <2>1. MessageOwn(FrameBegin(in, ev))
    BY DEF MessageOwn, FrameBegin
  <2> QED  BY <2>1, EmptyOwn, OneOwn
<1>4. QueueOwn(toWorker')
  <2> HIDE DEF focus, begun
  <2> QED  BY <1>1, <1>2, <1>3, JoinOwn, SourcesOwn DEF OwnInv
<1>5. file' = [f \in DOMAIN file |-> IF f \in ToSend THEN [file[f] EXCEPT !.state = "sent"] ELSE file[f]]
  BY DEF Frame
<1>6. FilesOwn' /\ FileShape'
  BY <1>5 DEF OwnInv, FilesOwn, FileShape
<1>7. worker' = worker
  BY DEF Frame
<1> QED  BY <1>4, <1>6, <1>7 DEF OwnInv, WorkerShape, WorkerOwn

-----------------------------------------------------------------------------
LEMMA SetSourceOwn ==
  ASSUME OwnInv, HandleSetSource
  PROVE  OwnInv'
<1> DEFINE m == Head(toWorker)
           sf == worker.src[m.file]
           done == IF m.file = Setup THEN SetupCompiled(sf, m.text) ELSE SlideCompiled(sf, m.text)
<1>1. toWorker # <<>> /\ m.type = "SetSource" /\ toWorker' = Tail(toWorker) /\ file' = file
  BY DEF HandleSetSource, Handling
<1>2. m.text.id[1] = m.file /\ m.file \in Files /\ QueueOwn(toWorker')
  BY <1>1, TailOwn DEF MessageOwn, OwnInv
<1>3. worker' = [worker EXCEPT !.src[m.file] = done, !.names = NamesAfter(@, m.text)]
  BY DEF HandleSetSource
<1>4. SourceShape(sf)
  BY <1>2 DEF OwnInv, WorkerShape
<1>5. SourceShape(done)
  BY <1>4, SetupShape
<1>6. ASSUME m.file \in Slides
      PROVE  SourceOwn(m.file, done)
  <2>1. m.file # Setup
    BY <1>6, SessionAssumption DEF Setup
  <2>2. SourceOwn(m.file, sf)
    BY <1>6 DEF OwnInv, WorkerOwn
  <2> QED  BY <2>1, <2>2, <1>2, <1>4, CompiledOwn
<1> HIDE DEF done
<1>7. /\ worker'.src = [worker.src EXCEPT ![m.file] = done]
      /\ worker'.ran = worker.ran
      /\ DOMAIN worker' = DOMAIN worker
  BY <1>3 DEF OwnInv, WorkerShape
<1>8. WorkerShape'
  BY <1>7, <1>5, <1>2 DEF OwnInv, WorkerShape
<1>9. WorkerOwn'
  <2>1. Slides \subseteq DOMAIN worker.src
    BY DEF OwnInv, WorkerShape, Files
  <2> QED  BY <2>1, <1>7, <1>6 DEF OwnInv, WorkerOwn
<1> QED  BY <1>1, <1>2, <1>8, <1>9 DEF OwnInv, FilesOwn, FileShape

LEMMA FrameBeginOwn ==
  ASSUME OwnInv, NEW use, HandleFrameBegin(use)
  PROVE  OwnInv'
<1> DEFINE m == Head(toWorker)
           R == {s \in m.inputs : HasContent(worker.src[s])}
<1>1. toWorker # <<>> /\ toWorker' = Tail(toWorker) /\ file' = file
  BY DEF HandleFrameBegin, Handling
<1>2. PICK src \in [R -> UNION {Rendered(worker.src[s], worker.names) : s \in R}],
           W \in IF Key \in scene.inputs THEN SUBSET R ELSE {{}},
           clears \in IF scene.inputs = {} THEN {FALSE} ELSE BOOLEAN :
        /\ \A s \in R : src[s] \in Rendered(worker.src[s], worker.names)
        /\ worker' = [worker EXCEPT
                   !.src = [f \in Files |-> IF f \in R THEN src[f].src ELSE @[f]],
                   !.ran = [s \in Slides |-> IF s \in R THEN src[s].run ELSE @[s]],
                   !.down = [s \in Slides |-> IF s \in R THEN DownAfter(@[s], m.events[s], clears)
                                              ELSE @[s]],
                   !.clipboard = IF use = "copy" THEN spent.copies + 1 ELSE @]
  BY Zenon DEF HandleFrameBegin
<1> HIDE DEF R
<1>3. /\ worker'.src = [f \in Files |-> IF f \in R THEN src[f].src ELSE worker.src[f]]
      /\ worker'.ran = [s \in Slides |-> IF s \in R THEN src[s].run ELSE worker.ran[s]]
      /\ DOMAIN worker' = DOMAIN worker
  BY <1>2 DEF OwnInv, WorkerShape
<1>4. ASSUME NEW f \in Files
      PROVE  SourceShape(worker'.src[f])
  BY <1>4, <1>3, <1>2, RenderedShape DEF OwnInv, WorkerShape
<1>5. ASSUME NEW s \in Slides
      PROVE  SourceOwn(s, worker'.src[s]) /\ RunOwn(s, worker'.ran[s])
  <2>1. s \in Files /\ SourceShape(worker.src[s]) /\ SourceOwn(s, worker.src[s]) /\ RunOwn(s, worker.ran[s])
    BY DEF OwnInv, WorkerShape, WorkerOwn, Files
  <2>2. CASE s \in R
    <3>1. SourceOwn(s, src[s].src) /\ RunOwn(s, src[s].run)
      BY <2>1, <2>2, <1>2, RenderedOwn
    <3> QED  BY <3>1, <2>1, <2>2, <1>3
  <2>3. CASE s \notin R
    BY <2>1, <2>3, <1>3
  <2> QED  BY <2>2, <2>3
<1>6. WorkerShape' /\ WorkerOwn'
  BY <1>3, <1>4, <1>5 DEF OwnInv, WorkerShape, WorkerOwn
<1>7. QueueOwn(toWorker')
  BY <1>1, TailOwn DEF OwnInv
<1> QED  BY <1>1, <1>6, <1>7 DEF OwnInv, FilesOwn, FileShape

-----------------------------------------------------------------------------
LEMMA OwnNext == OwnInv /\ [Next /\ UNCHANGED scene]_<<vars, scene>> => OwnInv'
<1> SUFFICES ASSUME OwnInv, [Next /\ UNCHANGED scene]_<<vars, scene>> PROVE OwnInv'
  OBVIOUS
<1> USE DEF OwnInv
<1>1. ASSUME worker' = worker, file' = file, QueueOwn(toWorker')
      PROVE  OwnInv'
  BY <1>1 DEF FilesOwn, FileShape, WorkerShape, WorkerOwn
<1>2. ASSUME worker' = worker, toWorker' = toWorker, FilesOwn', FileShape'
      PROVE  OwnInv'
  BY <1>2 DEF WorkerShape, WorkerOwn
<1>3. ASSUME NEW f \in DOMAIN file, NEW k \in scene.kinds, Execute(f, k)
      PROVE  OwnInv'
  <2>1. /\ file' = [file EXCEPT ![f] = [text |-> [id |-> <<f, spent.edits + 1>>, kind |-> k],
                                  state |-> "new"]]
        /\ worker' = worker /\ toWorker' = toWorker
    BY <1>3 DEF Execute
  <2>2. FilesOwn' /\ FileShape'
    BY <2>1 DEF FilesOwn, FileShape
  <2> QED  BY <2>1, <2>2, <1>2
<1>4. CASE Copy
  BY <1>4, <1>1 DEF Copy
<1>5. CASE UserFrame
  BY <1>5, FrameOwn DEF UserFrame
<1>6. CASE IdleFrame
  BY <1>6, FrameOwn DEF IdleFrame
<1>7. CASE RecvCompileResult
  <2> DEFINE m == Head(toMain)
             now == IF m.syntax_error THEN "error" ELSE IF m.compiled THEN "compiled" ELSE "new"
  <2>1. /\ file' = IF file[m.file].state = "sent" /\ file[m.file].text.id = m.id
                 THEN [file EXCEPT ![m.file].state = now] ELSE file
        /\ worker' = worker /\ toWorker' = toWorker
    BY <1>7 DEF RecvCompileResult, Receiving
  <2> HIDE DEF now
  <2>2. FilesOwn' /\ FileShape'
    BY <2>1 DEF FilesOwn, FileShape
  <2> QED  BY <2>1, <2>2, <1>2
<1>8. CASE RecvFrameDone
  BY <1>8, <1>1 DEF RecvFrameDone, Receiving
<1>9. CASE RecvClipboardRequest
  <2>1. MessageOwn(ClipboardData(clip))
    BY DEF MessageOwn, ClipboardData
  <2>2. QueueOwn(Answer)
    BY <2>1, OneOwn DEF Answer
  <2>3. QueueOwn(toWorker \o Answer)
    BY <2>2, JoinOwn
  <2> QED  BY <2>3, <1>9, <1>1 DEF RecvClipboardRequest, Receiving
<1>10. CASE RecvClipboardData
  BY <1>10, <1>1 DEF RecvClipboardData, Receiving
<1>11. CASE Reap
  <2>1. /\ toWorker' = <<>> /\ worker' = FreshWorker
        /\ \E blamed : file' = [f \in DOMAIN file |->
             IF f \in blamed THEN [file[f] EXCEPT !.state = "error"] ELSE file[f]]
    BY <1>11 DEF Reap
  <2>2. FilesOwn' /\ FileShape'
    BY <2>1 DEF FilesOwn, FileShape
  <2> QED  BY <2>1, <2>2, EmptyOwn, FreshWorkerOwn
<1>12. CASE Spawn
  <2>1. /\ file' = [f \in DOMAIN file |-> IF file[f].state = "error" THEN file[f]
                                          ELSE [file[f] EXCEPT !.state = "new"]]
        /\ worker' = worker /\ toWorker' = toWorker
    BY <1>12 DEF Spawn
  <2>2. FilesOwn' /\ FileShape'
    BY <2>1 DEF FilesOwn, FileShape
  <2> QED  BY <2>1, <2>2, <1>2
<1>13. CASE HandleSetSource
  BY <1>13, SetSourceOwn
<1>14. CASE HandleClipboardData
  <2>1. /\ worker' = [worker EXCEPT !.clipboard = Head(toWorker).clip]
        /\ toWorker # <<>> /\ toWorker' = Tail(toWorker) /\ file' = file
    BY <1>14 DEF HandleClipboardData, Handling
  <2>2. worker'.src = worker.src /\ worker'.ran = worker.ran /\ DOMAIN worker' = DOMAIN worker
    BY <2>1 DEF WorkerShape
  <2>3. WorkerShape' /\ WorkerOwn'
    BY <2>2 DEF WorkerShape, WorkerOwn
  <2> QED  BY <2>1, <2>3, TailOwn DEF FilesOwn, FileShape
<1>15. ASSUME NEW use \in Clipboards, HandleFrameBegin(use)
       PROVE  OwnInv'
  BY <1>15, FrameBeginOwn
<1>16. CASE Crash
  BY <1>16, <1>1 DEF Crash
<1>17. CASE UNCHANGED <<vars, scene>>
  BY <1>17, <1>1 DEF vars
<1> QED  BY <1>3, <1>4, <1>5, <1>6, <1>7, <1>8, <1>9, <1>10, <1>11, <1>12, <1>13,
            <1>14, <1>15, <1>16, <1>17 DEF Next, Recv, Work

(* A slide never runs the callable of another slide, and a named callable  *)
(* keeps the names of its own text, whatever the number of slides that use *)
(* the same names and the order of compiles, renders, edits and crashes    *)
(* (ClingEngine.cpp:344-373, 398-419).                                     *)
THEOREM SlidesRunOwnCode == Spec => []RendersOwnCode
<1>1. OwnInv => RendersOwnCode
  BY DEF OwnInv, WorkerOwn, RunOwn, RendersOwnCode
<1> QED  BY <1>1, OwnInit, OwnNext, PTL DEF Spec

-----------------------------------------------------------------------------
(* Types: of the messages, the view, the worker; and a slide with a        *)
(* callable has a text it came from, which gave the names their meaning.   *)
Events == [input : Inputs \cup {"focus"}, down : BOOLEAN]
Requests ==
  [type : {"SetSource"}, file : Files, text : Texts]
  \cup [type : {"FrameBegin"}, inputs : SUBSET Slides, events : [Slides -> Seq(Events)]]
  \cup [type : {"ClipboardData"}, clip : Nat]
Answers ==
  [type : {"CompileResult"}, file : Files, id : Ids, compiled : BOOLEAN, syntax_error : BOOLEAN]
  \cup [type : {"FrameDone"}, rendered : SUBSET Slides, wants : SUBSET Slides]
  \cup [type : {"ClipboardRequest"}]
  \cup [type : {"ClipboardData"}, clip : Nat]
Users == [view : SUBSET Slides, over : Slides \cup {NoSlide}, held : SUBSET Inputs]
FileStates == [text : Texts, state : {"new", "sent", "compiled", "error"}]
Views ==
  [hovered : SUBSET Slides, drag : Slides \cup {NoSlide}, events : [Slides -> Seq(Events)],
   wants : SUBSET Slides, outstanding : BOOLEAN, clipboard_focus : Slides \cup {NoSlide}]
Workers ==
  [names : Ids \cup {NoText}, src : [Files -> SourceStates], clipboard : Nat,
   down : [Slides -> SUBSET Inputs], ran : [Slides -> Runs \cup {NoRun}]]
Spents == [edits : Nat, moves : Nat, copies : Nat, crashes : Nat]
Bindable(sf, names) == sf.function # "none" => sf.bound \in Ids /\ names \in Ids

TypeInv ==
  /\ scene \in Scenes
  /\ spent \in Spents
  /\ user \in Users /\ user.over \in user.view \cup {NoSlide}
  /\ file \in [DOMAIN scene.first -> FileStates]
  /\ view \in Views
  /\ clip \in Nat
  /\ proc \in {"none", "running", "dead"}
  /\ worker \in Workers
  /\ \A f \in Files : Bindable(worker.src[f], worker.names)
  /\ toWorker \in Seq(Requests) /\ toMain \in Seq(Answers)
  /\ lost \in [Slides -> SUBSET Inputs]

LEMMA SceneFacts ==
  ASSUME scene \in Scenes
  PROVE  /\ DOMAIN scene.first \subseteq Files /\ scene.first \in [DOMAIN scene.first -> Kinds]
         /\ scene.kinds \subseteq Kinds /\ scene.views \subseteq SUBSET Slides
         /\ scene.inputs \subseteq Inputs
BY SessionAssumption

(* What a compile and a render leave of a file is of its type.             *)
LEMMA CompiledTyped ==
  ASSUME NEW sf \in SourceStates, NEW t \in Texts, NEW names, Bindable(sf, names),
         names \in Ids \cup {NoText}
  PROVE  \A done \in {SetupCompiled(sf, t), SlideCompiled(sf, t)} :
           /\ done \in SourceStates /\ Bindable(done, NamesAfter(names, t))
           /\ done.compiled \in BOOLEAN /\ done.syntax_error \in BOOLEAN
<1>0. t.id \in Ids /\ t.kind \in Kinds
  BY DEF Texts
<1>1. /\ Unfinished(sf) \in SourceStates /\ Unfinished(sf).function = sf.function
      /\ Unfinished(sf).bound = sf.bound
  BY DEF Unfinished, Executed, SourceStates
<1>2. Compiled(sf, t) \in SourceStates /\ Compiled(sf, t).function = "none"
  BY DEF Compiled, SourceStates
<1>3. RenderFunction(t) \in {"none", "alias", "uncallable", "literal"}
  BY DEF RenderFunction
<1>4. /\ Bound(Compiled(sf, t), t) \in SourceStates
      /\ Bound(Compiled(sf, t), t).bound = t.id
  BY <1>0, <1>2, <1>3 DEF Bound, SourceStates
<1>5. [Compiled(sf, t) EXCEPT !.value = (t.kind = "value")] \in SourceStates
  BY <1>2 DEF SourceStates
<1>6. [Compiled(sf, t) EXCEPT !.value = (t.kind = "value")].function = "none"
  BY <1>2 DEF SourceStates
<1>7. NamesAfter(names, t) \in {names, t.id}
  BY DEF NamesAfter
<1>8. Bindable(Unfinished(sf), NamesAfter(names, t)) /\ Bindable(Compiled(sf, t), NamesAfter(names, t))
  BY <1>0, <1>1, <1>2, <1>7 DEF Bindable
<1>9. RenderFunction(t) # "none" => NamesAfter(names, t) = t.id
  BY <1>0 DEF RenderFunction, NamesAfter, Kinds
<1>10. RenderFunction(t) # "none" => Bindable(Bound(Compiled(sf, t), t), NamesAfter(names, t))
  BY <1>0, <1>4, <1>9 DEF Bindable
<1>11. Bindable([Compiled(sf, t) EXCEPT !.value = (t.kind = "value")], NamesAfter(names, t))
  BY <1>6 DEF Bindable
<1>12. \A done \in {SetupCompiled(sf, t), SlideCompiled(sf, t)} :
         done \in SourceStates /\ Bindable(done, NamesAfter(names, t))
  <2>1. SetupCompiled(sf, t) \in {Unfinished(sf), Compiled(sf, t)}
    BY DEF SetupCompiled
  <2>2. \/ SlideCompiled(sf, t) = Unfinished(sf)
        \/ RenderFunction(t) # "none" /\ SlideCompiled(sf, t) = Bound(Compiled(sf, t), t)
        \/ SlideCompiled(sf, t) = [Compiled(sf, t) EXCEPT !.value = (t.kind = "value")]
    <3> DEFINE vc == [Compiled(sf, t) EXCEPT !.value = (t.kind = "value")]
    <3>1. SlideCompiled(sf, t) = CASE t.kind \in {"incomplete", "throws"} -> Unfinished(sf)
                                  [] RenderFunction(t) # "none" -> Bound(Compiled(sf, t), t)
                                  [] OTHER -> vc
      BY DEF SlideCompiled
    <3> HIDE DEF vc
    <3>2. t.kind \in {"incomplete", "throws"} => RenderFunction(t) = "none"
      BY DEF RenderFunction
    <3>3. \/ SlideCompiled(sf, t) = Unfinished(sf)
          \/ RenderFunction(t) # "none" /\ SlideCompiled(sf, t) = Bound(Compiled(sf, t), t)
          \/ SlideCompiled(sf, t) = vc
      BY <3>1, <3>2
    <3> QED  BY <3>3 DEF vc
  <2> QED  BY <1>1, <1>2, <1>4, <1>5, <1>8, <1>10, <1>11, <2>1, <2>2
<1> QED  BY <1>12 DEF SourceStates

LEMMA RenderedTyped ==
  ASSUME NEW sf \in SourceStates, NEW names, Bindable(sf, names), NEW o \in Rendered(sf, names)
  PROVE  o.src \in SourceStates /\ Bindable(o.src, names) /\ o.run \in Runs \cup {NoRun}
<1>1. Dropped(sf) \in SourceStates /\ Dropped(sf).function = "none"
  BY DEF Dropped, SourceStates
<1>2. sf.function # "none" => Evaluated(sf, names) \in Runs
  BY DEF Evaluated, Bindable, Run, Runs, SourceStates
<1>3. ASSUME NEW r \in Runs
      PROVE  /\ [sf EXCEPT !.tx = r] \in SourceStates
             /\ [sf EXCEPT !.tx = r].function = sf.function /\ [sf EXCEPT !.tx = r].bound = sf.bound
  BY DEF SourceStates
<1>4. CASE sf.function = "none"
  BY <1>4 DEF Rendered, Outcome
<1>5. CASE sf.function # "none" /\ o \in Drops(sf, names)
  BY <1>1, <1>5 DEF Drops, Outcome, Bindable
<1>6. CASE sf.function # "none" /\ o \in Runnings(sf, names)
  <2> DEFINE r == Evaluated(sf, names)
  <2>1. o = Outcome([sf EXCEPT !.tx = r], r) \/ o = Outcome(sf, r)
    BY <1>6 DEF Runnings
  <2>2. r \in Runs
    BY <1>2, <1>6
  <2> HIDE DEF r
  <2>3. CASE o = Outcome([sf EXCEPT !.tx = r], r)
    <3>1. o.src = [sf EXCEPT !.tx = r] /\ o.run = r
      BY <2>3 DEF Outcome
    <3> QED  BY <1>3, <2>2, <3>1 DEF Bindable
  <2>4. CASE o = Outcome(sf, r)
    BY <2>2, <2>4 DEF Outcome
  <2> QED  BY <2>1, <2>3, <2>4
<1> QED  BY <1>4, <1>5, <1>6 DEF Rendered

LEMMA RequestFields ==
  ASSUME NEW m \in Requests
  PROVE  /\ m.type = "SetSource" => m.file \in Files /\ m.text \in Texts
         /\ m.type = "FrameBegin" => m.inputs \in SUBSET Slides /\ m.events \in [Slides -> Seq(Events)]
         /\ m.type = "ClipboardData" => m.clip \in Nat
BY DEF Requests

LEMMA AnswerFields ==
  ASSUME NEW m \in Answers
  PROVE  /\ m.type = "FrameDone" => m.rendered \in SUBSET Slides /\ m.wants \in SUBSET Slides
         /\ m.type = "ClipboardData" => m.clip \in Nat
BY DEF Answers

LEMMA MessagesTyped ==
  /\ \A f \in Files, t \in Texts : [type |-> "SetSource", file |-> f, text |-> t] \in Requests
  /\ \A in \in SUBSET Slides, ev \in [Slides -> Seq(Events)] : FrameBegin(in, ev) \in Requests
  /\ \A c \in Nat : ClipboardData(c) \in Requests /\ ClipboardData(c) \in Answers
  /\ ClipboardRequest \in Answers
  /\ \A R, W \in SUBSET Slides : FrameDone(R, W) \in Answers
<1>1. \A f \in Files, t \in Texts : [type |-> "SetSource", file |-> f, text |-> t] \in Requests
  BY DEF Requests
<1>2. \A in \in SUBSET Slides, ev \in [Slides -> Seq(Events)] : FrameBegin(in, ev) \in Requests
  BY DEF Requests, FrameBegin
<1>3. \A c \in Nat : ClipboardData(c) \in Requests /\ ClipboardData(c) \in Answers
  BY DEF Requests, Answers, ClipboardData
<1>4. ClipboardRequest \in Answers
  BY DEF Answers, ClipboardRequest
<1>5. \A R, W \in SUBSET Slides : FrameDone(R, W) \in Answers
  BY DEF Answers, FrameDone
<1> QED  BY <1>1, <1>2, <1>3, <1>4, <1>5

LEMMA TypedInit == Init => TypeInv
<1> SUFFICES ASSUME Init PROVE TypeInv
  OBVIOUS
<1>1. scene \in Scenes
  BY DEF Init
<1>2. spent \in Spents /\ clip \in Nat /\ proc \in {"none", "running", "dead"}
  BY DEF Init, Spents
<1>3. user \in Users /\ user.over \in user.view \cup {NoSlide}
  BY <1>1, SceneFacts DEF Init, Users, Files
<1>4. file \in [DOMAIN scene.first -> FileStates]
  <2>1. ASSUME NEW f \in DOMAIN scene.first
        PROVE  [text |-> [id |-> <<f, 0>>, kind |-> scene.first[f]], state |-> "new"] \in FileStates
    <3>1. f \in Int /\ scene.first[f] \in Kinds
      BY <1>1, SceneFacts, FilesAreIntegers
    <3>2. [id |-> <<f, 0>>, kind |-> scene.first[f]] \in Texts
      BY <3>1 DEF Texts, Ids
    <3> QED  BY <3>2 DEF FileStates
  <2> QED  BY <2>1 DEF Init
<1>5. view \in Views
  <2>1. NoEvents \in [Slides -> Seq(Events)]
    BY DEF NoEvents
  <2> QED  BY <2>1 DEF Init, FreshView, Views
<1>6. worker = FreshWorker /\ toWorker = <<>> /\ toMain = <<>> /\ lost = [s \in Slides |-> {}]
  BY DEF Init
<1>7. FreshSource \in SourceStates /\ FreshSource.function = "none"
  BY DEF FreshSource, SourceStates
<1>8. FreshWorker \in Workers /\ \A f \in Files : Bindable(FreshWorker.src[f], FreshWorker.names)
  BY <1>7 DEF FreshWorker, Workers, Bindable
<1>9. toWorker \in Seq(Requests) /\ toMain \in Seq(Answers)
  BY <1>6
<1> QED  BY <1>1, <1>2, <1>3, <1>4, <1>5, <1>6, <1>8, <1>9 DEF TypeInv
-----------------------------------------------------------------------------
(* One queue after another.                                                *)
LEMMA Joined ==
  ASSUME NEW M, NEW p \in Seq(M), NEW q \in Seq(M)
  PROVE  /\ p \o q \in Seq(M) /\ Len(p) \in Nat /\ Len(q) \in Nat
         /\ Len(p \o q) = Len(p) + Len(q)
         /\ DOMAIN p = 1..Len(p) /\ DOMAIN q = 1..Len(q)
         /\ DOMAIN (p \o q) = 1..(Len(p) + Len(q))
         /\ \A i \in 1..Len(p) : (p \o q)[i] = p[i]
         /\ \A i \in 1..Len(q) : (p \o q)[Len(p) + i] = q[i]
         /\ \A i \in 1..(Len(p) + Len(q)) : i > Len(p) => i - Len(p) \in 1..Len(q) /\ (p \o q)[i] = q[i - Len(p)]
OBVIOUS

LEMMA JoinedAt ==
  ASSUME NEW M, NEW p \in Seq(M), NEW q \in Seq(M), NEW a, NEW b, a = Len(p), b = Len(q)
  PROVE  /\ p \o q \in Seq(M) /\ Len(p \o q) = a + b
         /\ DOMAIN p = 1..a /\ DOMAIN (p \o q) = 1..(a + b)
         /\ \A i \in 1..a : (p \o q)[i] = p[i]
         /\ \A i \in 1..b : (p \o q)[a + i] = q[i]
         /\ \A i \in 1..(a + b) : i > a => i - a \in 1..b /\ (p \o q)[i] = q[i - a]
BY Joined

(* What a user does in a frame.                                            *)
Acts == Changes \cup {NoChange}
LEMMA ActFacts ==
  ASSUME TypeInv, NEW c \in Acts
  PROVE  /\ c.down \in BOOLEAN /\ c = [input |-> c.input, down |-> c.down]
         /\ c.down => c.input \in Inputs \ user.held
         /\ IsPress(c) \/ IsRelease(c) \/ c.input = Key => c \in Events
         /\ HeldAfter(c) \in SUBSET Inputs
<1>1. scene.inputs \subseteq Inputs
  BY SceneFacts DEF TypeInv
<1>2. user.held \subseteq Inputs
  BY DEF TypeInv, Users
<1>3. \/ \E i \in Inputs \ user.held : c = [input |-> i, down |-> TRUE]
      \/ \E i \in Inputs : c = [input |-> i, down |-> FALSE]
      \/ c = [input |-> "none", down |-> FALSE]
  BY <1>1, <1>2 DEF Acts, Changes, NoChange, Press, Release
<1>4. Key \in Inputs /\ Buttons \subseteq Inputs
  BY DEF Inputs
<1>5. /\ c.down \in BOOLEAN /\ c = [input |-> c.input, down |-> c.down]
      /\ c.down => c.input \in Inputs \ user.held
  <2>1. CASE \E i \in Inputs \ user.held : c = [input |-> i, down |-> TRUE]
    BY <2>1
  <2>2. CASE \E i \in Inputs : c = [input |-> i, down |-> FALSE]
    BY <2>2
  <2>3. CASE c = [input |-> "none", down |-> FALSE]
    BY <2>3
  <2> QED  BY <1>3, <2>1, <2>2, <2>3
<1>6. c.input \in Inputs => c \in Events
  BY <1>5 DEF Events
<1>7. HeldAfter(c) \in SUBSET Inputs
  BY <1>2 DEF HeldAfter
<1> QED  BY <1>4, <1>5, <1>6, <1>7 DEF IsPress, IsRelease

LEMMA GatheredTyped ==
  ASSUME TypeInv, NEW V \in SUBSET Slides, NEW over \in V \cup {NoSlide}, NEW c \in Acts
  PROVE  Gathered(V, over, c) \in [Slides -> Seq(Events)]
<1>1. view.events \in [Slides -> Seq(Events)]
  BY DEF TypeInv, Views
<1>2. FocusLost \in Events
  BY DEF FocusLost, Events
<1>3. ASSUME NEW s \in Slides
      PROVE  DrawEvents(V, over, c, s) \in Seq(Events)
  <2>1. DrawEvents(V, over, c, s) = <<>> \/ DrawEvents(V, over, c, s) = <<FocusLost>>
        \/ ((IsPress(c) \/ c.input = Key) /\ DrawEvents(V, over, c, s) = <<c>>)
    BY DEF DrawEvents, DrawEventsOver
  <2>2. IsPress(c) \/ c.input = Key => c \in Events
    BY ActFacts
  <2>3. <<>> \in Seq(Events) /\ <<FocusLost>> \in Seq(Events)
    BY <1>2
  <2>4. c \in Events => <<c>> \in Seq(Events)
    OBVIOUS
  <2> QED  BY <2>1, <2>2, <2>3, <2>4, Zenon
<1>4. ASSUME NEW s \in Slides
      PROVE  (IF s \in ReleaseTo(over, c) THEN <<c>> ELSE <<>>) \in Seq(Events)
  <2>1. s \in ReleaseTo(over, c) => IsRelease(c)
    BY DEF ReleaseTo
  <2>2. IsRelease(c) => c \in Events
    BY ActFacts
  <2> QED  BY <2>1, <2>2
<1>5. ASSUME NEW s \in Slides
      PROVE  view.events[s] \o DrawEvents(V, over, c, s)
               \o (IF s \in ReleaseTo(over, c) THEN <<c>> ELSE <<>>) \in Seq(Events)
  BY <1>1, <1>3, <1>4
<1> QED  BY <1>5 DEF Gathered

LEMMA FedTyped ==
  ASSUME TypeInv, NEW V \in SUBSET Slides, NEW over \in V \cup {NoSlide}, NEW c
  PROVE  /\ DragAfter(over, c) \in Slides \cup {NoSlide}
         /\ Fed(V, over, c) \in SUBSET Slides
         /\ HoveredAfter(V, over) \in SUBSET Slides
         /\ Focus((V \cap {over}) \cup Fed(V, over, c)) \in Slides \cup {NoSlide}
<1>1. DragAfter(over, c) \in Slides \cup {NoSlide}
  BY DEF DragAfter, TypeInv, Views
<1>2. HoveredAfter(V, over) \in SUBSET Slides
  BY DEF HoveredAfter, TypeInv, Views
<1>3. Fed(V, over, c) \in SUBSET Slides
  BY <1>1 DEF Fed
<1>4. ASSUME NEW F \in SUBSET Slides
      PROVE  Focus(F) \in Slides \cup {NoSlide}
  <2>1. F \in SUBSET Nat
    BY SessionAssumption
  <2>2. F # {} => \E x \in F : \A y \in F : x <= y
    BY <2>1, SmallestOfNat
  <2> QED  BY <2>2 DEF Focus, Smallest
<1>5. (V \cap {over}) \cup Fed(V, over, c) \in SUBSET Slides
  BY <1>3
<1> QED  BY <1>1, <1>2, <1>3, <1>4, <1>5

LEMMA LostTyped ==
  ASSUME TypeInv, NEW V \in SUBSET Slides, NEW over, NEW c, NEW s \in Slides
  PROVE  LostAfter(V, over, c, s) \in SUBSET Inputs
<1>1. lost[s] \in SUBSET Inputs /\ user.held \cap Buttons \subseteq Inputs /\ Key \in Inputs
  BY DEF TypeInv, Users, Inputs
<1>2. \A q : Releases(q) \subseteq Inputs
  BY DEF Releases
<1> QED  BY <1>1, <1>2 DEF LostAfter

(* A frame's requests: the sources, the clipboard, and the frame itself.   *)
Before(focus) == Sources \o Pushes(focus)
LEMMA SentTyped ==
  ASSUME TypeInv, NEW focus
  PROVE  /\ Sources \in Seq(Requests) /\ Pushes(focus) \in Seq(Requests)
         /\ Before(focus) \in Seq(Requests)
         /\ \A i \in DOMAIN Before(focus) : Before(focus)[i].type # "FrameBegin"
<1> DEFINE M == {r \in Requests : r.type # "FrameBegin"}
           n == Cardinality(ToSend)
<1>1. ToSend \in SUBSET Files /\ ToSend \subseteq DOMAIN file
  BY SceneFacts DEF ToSend, TypeInv
<1>2. n \in Nat
  BY <1>1, FilesAreIntegers, FS_Subset, FS_CardinalityType
<1>3. \A i \in 1..n : Ascending(ToSend)[i] \in ToSend
  BY <1>1, AscendingIsIn
<1>4. \A f \in ToSend : SetSource(f) \in M
  <2> SUFFICES ASSUME NEW f \in ToSend PROVE SetSource(f) \in M
    OBVIOUS
  <2>1. file[f].text \in Texts
    BY <1>1 DEF TypeInv, FileStates
  <2>2. SetSource(f).type = "SetSource"
    BY DEF SetSource
  <2> QED  BY <1>1, <2>1, <2>2, MessagesTyped DEF SetSource
<1>5. Sources \in Seq(M)
  <2>1. Sources \in [1..n -> M]
    BY <1>3, <1>4 DEF Sources
  <2> QED  BY <1>2, <2>1
<1>6. Pushes(focus) \in Seq(M)
  <2>1. ClipboardData(clip) \in Requests /\ ClipboardData(clip).type = "ClipboardData"
    BY MessagesTyped DEF TypeInv, ClipboardData
  <2>2. ClipboardData(clip) \in M
    BY <2>1
  <2> HIDE DEF M
  <2> QED  BY <2>2 DEF Pushes
<1> HIDE DEF M
<1>7. Before(focus) \in Seq(M)
  BY <1>5, <1>6 DEF Before
<1>8. \A q \in Seq(M) : q \in Seq(Requests) /\ \A i \in DOMAIN q : q[i].type # "FrameBegin"
  <2>1. \A q \in Seq(M) : q \in Seq(Requests) /\ \A i \in DOMAIN q : q[i] \in M
    BY DEF M
  <2> QED  BY <2>1 DEF M
<1> QED  BY <1>5, <1>6, <1>7, <1>8

LEMMA FrameSends ==
  ASSUME TypeInv, NEW V \in SUBSET Slides, NEW over \in V \cup {NoSlide}, NEW c \in Acts, Frame(V, over, c)
  PROVE  LET ev == Gathered(V, over, c)
             in == V \cup Fed(V, over, c)
         IN  /\ toWorker' \in Seq(Requests) /\ DOMAIN toWorker = 1..Len(toWorker) /\ Len(toWorker) \in Nat
             /\ \A n \in DOMAIN toWorker : n \in DOMAIN toWorker' /\ toWorker'[n] = toWorker[n]
             /\ \A n \in DOMAIN toWorker' : toWorker'[n].type = "FrameBegin" =>
                  \/ n \in DOMAIN toWorker
                  \/ BeginsFrame(in, ev) /\ n = Len(toWorker') /\ toWorker'[n] = FrameBegin(in, ev)
             /\ BeginsFrame(in, ev) =>
                  \E n \in DOMAIN toWorker' : n > Len(toWorker) /\ toWorker'[n] = FrameBegin(in, ev)
<1> DEFINE ev == Gathered(V, over, c)
           in == V \cup Fed(V, over, c)
           focus == Focus((V \cap {over}) \cup Fed(V, over, c))
           begun == IF BeginsFrame(in, ev) THEN <<FrameBegin(in, ev)>> ELSE <<>>
<1>0. in \in SUBSET Slides /\ ev \in [Slides -> Seq(Events)]
  BY FedTyped, GatheredTyped
<1>1. FrameBegin(in, ev) \in Requests /\ FrameBegin(in, ev).type = "FrameBegin"
  BY <1>0, MessagesTyped DEF FrameBegin
<1>2. toWorker' = ((toWorker \o Sources) \o Pushes(focus)) \o begun
  BY DEF Frame
<1> HIDE DEF focus, ev, in
<1>3. begun \in Seq(Requests) /\ Len(begun) \in Nat
  BY <1>1
<1>4. /\ toWorker \in Seq(Requests) /\ Sources \in Seq(Requests) /\ Pushes(focus) \in Seq(Requests)
      /\ Before(focus) \in Seq(Requests)
      /\ \A i \in DOMAIN Before(focus) : Before(focus)[i].type # "FrameBegin"
  BY SentTyped DEF TypeInv
<1>5. toWorker' = toWorker \o (Before(focus) \o begun)
  <2> HIDE DEF begun
  <2>2. ((toWorker \o Sources) \o Pushes(focus)) \o begun
          = toWorker \o ((Sources \o Pushes(focus)) \o begun)
    <3>1. PICK w, q, r, t : /\ w = toWorker /\ q = Sources /\ r = Pushes(focus) /\ t = begun
                            /\ w \in Seq(Requests) /\ q \in Seq(Requests)
                            /\ r \in Seq(Requests) /\ t \in Seq(Requests)
      BY <1>3, <1>4
    <3>2. ((w \o q) \o r) \o t = w \o ((q \o r) \o t)
      BY <3>1
    <3> QED  BY <3>1, <3>2
  <2> QED  BY <1>2, <2>2, Zenon DEF Before
<1>6. PICK a \in Nat : a = Len(toWorker)
  BY <1>4
<1>7. PICK b \in Nat : b = Len(Before(focus))
  BY <1>4
<1>8. PICK e \in Nat : e = Len(begun)
  BY <1>3
<1> DEFINE more == Before(focus) \o begun
<1>9. /\ more \in Seq(Requests) /\ Len(more) = b + e
      /\ \A i \in 1..(b + e) : IF i > b THEN more[i] = begun[i - b] /\ i - b \in 1..e
                                        ELSE more[i].type # "FrameBegin"
      /\ \A i \in 1..e : more[b + i] = begun[i]
  <2> HIDE DEF begun
  <2>1. /\ more \in Seq(Requests) /\ Len(more) = b + e /\ DOMAIN Before(focus) = 1..b
        /\ \A i \in 1..b : more[i] = Before(focus)[i]
        /\ \A i \in 1..e : more[b + i] = begun[i]
        /\ \A i \in 1..(b + e) : i > b => i - b \in 1..e /\ more[i] = begun[i - b]
    BY <1>3, <1>4, <1>7, <1>8, Joined
  <2>2. \A i \in 1..(b + e) : ~ (i > b) => i \in 1..b
    OBVIOUS
  <2> QED  BY <1>4, <2>1, <2>2
<1> HIDE DEF more
<1>10. /\ toWorker' \in Seq(Requests) /\ Len(toWorker') = a + (b + e)
       /\ DOMAIN toWorker = 1..a /\ DOMAIN toWorker' = 1..(a + (b + e))
       /\ \A i \in 1..a : toWorker'[i] = toWorker[i]
       /\ \A i \in 1..(b + e) : toWorker'[a + i] = more[i]
       /\ \A i \in 1..(a + (b + e)) : i > a => i - a \in 1..(b + e) /\ toWorker'[i] = more[i - a]
  <2>1. toWorker' = toWorker \o more
    BY <1>5 DEF more
  <2>2. toWorker \in Seq(Requests) /\ more \in Seq(Requests) /\ Len(toWorker) = a /\ Len(more) = b + e
    BY <1>4, <1>6, <1>9
  <2>3. PICK w : w = toWorker
    OBVIOUS
  <2>4. PICK d : d = b + e
    OBVIOUS
  <2>5. /\ w \o more \in Seq(Requests) /\ Len(w \o more) = a + d
        /\ DOMAIN w = 1..a /\ DOMAIN (w \o more) = 1..(a + d)
        /\ \A i \in 1..a : (w \o more)[i] = w[i]
        /\ \A i \in 1..d : (w \o more)[a + i] = more[i]
        /\ \A i \in 1..(a + d) : i > a => i - a \in 1..d /\ (w \o more)[i] = more[i - a]
    BY <2>2, <2>3, <2>4, JoinedAt
  <2> QED  BY <2>1, <2>3, <2>4, <2>5
<1>11. \A n \in DOMAIN toWorker : n \in DOMAIN toWorker' /\ toWorker'[n] = toWorker[n]
  BY <1>10
<1>12. e = 0 \/ (e = 1 /\ BeginsFrame(in, ev) /\ begun[1] = FrameBegin(in, ev))
  BY <1>8
<1>13. BeginsFrame(in, ev) => e = 1
  BY <1>8
<1> HIDE DEF begun
<1>14. ASSUME NEW n \in DOMAIN toWorker', toWorker'[n].type = "FrameBegin", n \notin DOMAIN toWorker
       PROVE  BeginsFrame(in, ev) /\ n = Len(toWorker') /\ toWorker'[n] = FrameBegin(in, ev)
  <2>1. n > a /\ n - a \in 1..(b + e) /\ toWorker'[n] = more[n - a]
    BY <1>10, <1>14
  <2>2. n - a > b
    BY <1>9, <1>14, <2>1
  <2>3. toWorker'[n] = begun[n - a - b] /\ n - a - b \in 1..e
    BY <1>9, <2>1, <2>2
  <2>4. e = 1 /\ n - a - b = 1
    BY <1>12, <2>3
  <2>5. begun[1] = FrameBegin(in, ev) /\ BeginsFrame(in, ev)
    BY <1>12, <2>4
  <2>6. toWorker'[n] = FrameBegin(in, ev)
    BY <2>3, <2>4, <2>5
  <2>7. Len(toWorker') = a + (b + e) /\ n \in 1..(a + (b + e))
    BY <1>10, <1>14
  <2>8. Len(toWorker') = a + (b + 1) /\ n = a + (b + 1)
    BY <2>4, <2>7
  <2> QED  BY <2>5, <2>6, <2>8
<1>15. BeginsFrame(in, ev) =>
         \E n \in DOMAIN toWorker' : n > Len(toWorker) /\ toWorker'[n] = FrameBegin(in, ev)
  <2> SUFFICES ASSUME BeginsFrame(in, ev)
               PROVE  a + (b + 1) \in DOMAIN toWorker' /\ a + (b + 1) > a
                      /\ toWorker'[a + (b + 1)] = FrameBegin(in, ev)
    BY <1>6
  <2>1. e = 1 /\ begun[1] = FrameBegin(in, ev) /\ b + 1 \in 1..(b + e) /\ 1 \in 1..e
    BY <1>12, <1>13
  <2>2. more[b + 1] = FrameBegin(in, ev)
    BY <1>9, <2>1
  <2> QED  BY <1>10, <2>1, <2>2
<1> QED  BY <1>6, <1>10, <1>11, <1>14, <1>15 DEF ev, in

LEMMA FrameTyped ==
  ASSUME TypeInv, NEW V \in SUBSET Slides, NEW over \in V \cup {NoSlide}, NEW c \in Acts,
         Frame(V, over, c), spent' \in Spents, scene' = scene
  PROVE  TypeInv'
<1> DEFINE ev == Gathered(V, over, c)
           fed == Fed(V, over, c)
           in == V \cup fed
           focus == Focus((V \cap {over}) \cup fed)
           begins == BeginsFrame(in, ev)
           drag == IF Held(c) THEN DragAfter(over, c) ELSE NoSlide
           events == IF begins \/ DropsEvents(in, ev) THEN NoEvents ELSE ev
<1>1. /\ user' = [view |-> V, over |-> over, held |-> HeldAfter(c)]
      /\ file' = [f \in DOMAIN file |-> IF f \in ToSend THEN [file[f] EXCEPT !.state = "sent"] ELSE file[f]]
      /\ view' = [view EXCEPT !.hovered = HoveredAfter(V, over), !.drag = drag, !.events = events,
                              !.outstanding = @ \/ begins, !.clipboard_focus = focus]
      /\ lost' = [s \in Slides |-> LostAfter(V, over, c, s)]
      /\ UNCHANGED <<clip, proc, worker, toMain>>
  BY DEF Frame
<1>2. toWorker' \in Seq(Requests)
  BY FrameSends
<1>3. user' \in Users /\ user'.over \in user'.view \cup {NoSlide}
  BY <1>1, ActFacts DEF Users
<1>4. file' \in [DOMAIN scene.first -> FileStates]
  <2>1. file \in [DOMAIN scene.first -> FileStates]
    BY DEF TypeInv
  <2>2. \A x \in FileStates : [x EXCEPT !.state = "sent"] \in FileStates
    BY DEF FileStates
  <2> QED  BY <1>1, <2>1, <2>2
<1>5. view' \in Views
  <2>1. drag \in Slides \cup {NoSlide} /\ focus \in Slides \cup {NoSlide}
        /\ HoveredAfter(V, over) \in SUBSET Slides
    BY FedTyped
  <2>2. events \in [Slides -> Seq(Events)]
    BY GatheredTyped DEF NoEvents
  <2>3. view \in Views
    BY DEF TypeInv
  <2>4. (view.outstanding \/ begins) \in BOOLEAN
    BY Zenon DEF BeginsFrame
  <2> HIDE DEF drag, events, focus, begins
  <2>5. PICK o : o = (view.outstanding \/ begins)
    OBVIOUS
  <2>6. view' = [view EXCEPT !.hovered = HoveredAfter(V, over), !.drag = drag, !.events = events,
                             !.outstanding = o, !.clipboard_focus = focus]
    BY <1>1, <2>5, Zenon
  <2>7. o \in BOOLEAN
    BY <2>4, <2>5, Zenon
  <2> QED  BY <2>1, <2>2, <2>3, <2>6, <2>7 DEF Views
<1>6. lost' \in [Slides -> SUBSET Inputs]
  BY <1>1, LostTyped
<1> QED  BY <1>1, <1>2, <1>3, <1>4, <1>5, <1>6 DEF TypeInv

(* The user's moves are such frames.                                       *)
LEMMA FramesAre ==
  ASSUME TypeInv, UserFrame \/ IdleFrame
  PROVE  /\ \E V \in SUBSET Slides, c \in Acts : \E over \in V \cup {NoSlide} : Frame(V, over, c)
         /\ spent' \in Spents
<1>1. CASE UserFrame
  <2>1. scene.views \subseteq SUBSET Slides
    BY SceneFacts DEF TypeInv
  <2>2. \E V \in SUBSET Slides, c \in Acts : \E over \in V \cup {NoSlide} : Frame(V, over, c)
    BY <1>1, <2>1 DEF UserFrame, Acts, Hoverable
  <2>3. spent' = [spent EXCEPT !.moves = @ + 1]
    BY <1>1 DEF UserFrame, Spend
  <2>4. spent' \in Spents
    <3>1. spent \in Spents
      BY DEF TypeInv
    <3> QED  BY <2>3, <3>1 DEF Spents
  <2> QED  BY <2>2, <2>4
<1>2. CASE IdleFrame
  <2>1. user.view \in SUBSET Slides /\ user.over \in user.view \cup {NoSlide} /\ spent \in Spents
    BY DEF TypeInv, Users
  <2>2. NoChange \in Acts /\ Frame(user.view, user.over, NoChange) /\ spent' = spent
    BY <1>2 DEF IdleFrame, Acts
  <2>3. PICK V \in SUBSET Slides : V = user.view
    BY <2>1
  <2>4. \E over \in V \cup {NoSlide} : Frame(V, over, NoChange)
    BY <2>1, <2>2, <2>3
  <2>5. spent' \in Spents
    BY <2>1, <2>2
  <2> QED  BY <2>2, <2>4, <2>5
<1> QED  BY <1>1, <1>2

LEMMA ReceivedTyped ==
  ASSUME TypeInv, Recv, scene' = scene
  PROVE  TypeInv'
<1>0. /\ toMain # <<>> /\ Head(toMain) \in Answers /\ toMain' = Tail(toMain) /\ toMain' \in Seq(Answers)
      /\ UNCHANGED <<spent, user, proc, worker, lost>>
  <2>1. toMain \in Seq(Answers)
    BY DEF TypeInv
  <2>2. toMain # <<>> /\ toMain' = Tail(toMain) /\ UNCHANGED <<spent, user, proc, worker, lost>>
    BY DEF Recv, RecvCompileResult, RecvFrameDone, RecvClipboardRequest, RecvClipboardData, Receiving
  <2> QED  BY <2>1, <2>2
<1>1. CASE RecvCompileResult
  <2> DEFINE m == Head(toMain)
             now == IF m.syntax_error THEN "error" ELSE IF m.compiled THEN "compiled" ELSE "new"
  <2>1. /\ file' = IF file[m.file].state = "sent" /\ file[m.file].text.id = m.id
                   THEN [file EXCEPT ![m.file].state = now] ELSE file
        /\ UNCHANGED <<view, clip, toWorker>>
    BY <1>1 DEF RecvCompileResult
  <2>2. now \in {"error", "compiled", "new"}
    OBVIOUS
  <2> HIDE DEF m, now
  <2>3. file \in [DOMAIN scene.first -> FileStates]
    BY DEF TypeInv
  <2>4. \A x \in FileStates : [x EXCEPT !.state = now] \in FileStates
    BY <2>2 DEF FileStates
  <2>5. [file EXCEPT ![m.file].state = now] \in [DOMAIN scene.first -> FileStates]
    BY <2>3, <2>4
  <2>6. file' \in [DOMAIN scene.first -> FileStates]
    BY <2>1, <2>3, <2>5
  <2> QED  BY <1>0, <2>1, <2>6 DEF TypeInv
<1>2. CASE RecvFrameDone
  <2> DEFINE m == Head(toMain)
  <2>1. m.rendered \in SUBSET Slides /\ m.wants \in SUBSET Slides
    BY <1>0, <1>2, AnswerFields DEF RecvFrameDone, Receiving
  <2>2. /\ view' = [view EXCEPT !.outstanding = FALSE, !.wants = (@ \ m.rendered) \cup m.wants]
        /\ UNCHANGED <<file, clip, toWorker>>
    BY <1>2 DEF RecvFrameDone
  <2>3. view \in Views
    BY DEF TypeInv
  <2> HIDE DEF m
  <2>4. view' \in Views
    BY <2>1, <2>2, <2>3 DEF Views
  <2> QED  BY <1>0, <2>2, <2>4 DEF TypeInv
<1>3. CASE RecvClipboardRequest
  <2>1. ClipboardData(clip) \in Requests
    BY MessagesTyped DEF TypeInv
  <2>2. toWorker \in Seq(Requests) /\ <<ClipboardData(clip)>> \in Seq(Requests)
    BY <2>1 DEF TypeInv
  <2>3. toWorker \o <<ClipboardData(clip)>> \in Seq(Requests)
    BY <2>2
  <2>4. toWorker' \in Seq(Requests) /\ UNCHANGED <<file, view, clip>>
    BY <1>3, <2>2, <2>3 DEF RecvClipboardRequest, Answer
  <2> QED  BY <1>0, <2>4 DEF TypeInv
<1>4. CASE RecvClipboardData
  <2>1. clip' \in Nat /\ UNCHANGED <<file, view, toWorker>>
    BY <1>0, <1>4, AnswerFields DEF RecvClipboardData, Receiving
  <2> QED  BY <1>0, <2>1 DEF TypeInv
<1> QED  BY <1>1, <1>2, <1>3, <1>4 DEF Recv

(* The worker takes the first request, and answers.                        *)
LEMMA HandledTyped ==
  ASSUME TypeInv, NEW type, Handling(type)
  PROVE  /\ toWorker \in Seq(Requests) /\ toWorker # <<>> /\ toWorker' = Tail(toWorker)
         /\ toWorker' \in Seq(Requests) /\ Head(toWorker) \in Requests
         /\ Head(toWorker).type = type /\ Head(toWorker) = toWorker[1]
         /\ UNCHANGED <<user, file, view, clip, proc>>
<1>1. toWorker \in Seq(Requests) /\ toWorker # <<>>
  BY DEF TypeInv, Handling
<1> QED  BY <1>1 DEF Handling

LEMMA SetSourceTyped ==
  ASSUME TypeInv, HandleSetSource, scene' = scene
  PROVE  TypeInv'
<1> DEFINE m == Head(toWorker)
           sf == worker.src[m.file]
           done == IF m.file = Setup THEN SetupCompiled(sf, m.text) ELSE SlideCompiled(sf, m.text)
           names == NamesAfter(worker.names, m.text)
<1>1. /\ worker' = [worker EXCEPT !.src[m.file] = done, !.names = NamesAfter(@, m.text)]
      /\ toMain' = Append(toMain, CompileResult(m.file, m.text, done))
      /\ UNCHANGED <<spent, lost>>
  BY DEF HandleSetSource
<1>2. m.file \in Files /\ m.text \in Texts /\ toWorker' \in Seq(Requests)
      /\ UNCHANGED <<user, file, view, clip, proc>>
  BY HandledTyped, RequestFields DEF HandleSetSource
<1>3. worker \in Workers /\ worker.src[m.file] \in SourceStates
      /\ worker.names \in Ids \cup {NoText} /\ Bindable(sf, worker.names)
  BY <1>2 DEF TypeInv, Workers
<1>4. /\ done \in SourceStates /\ Bindable(done, names)
      /\ done.compiled \in BOOLEAN /\ done.syntax_error \in BOOLEAN
  <2>1. done \in {SetupCompiled(sf, m.text), SlideCompiled(sf, m.text)}
    OBVIOUS
  <2> HIDE DEF done, sf, m
  <2> QED  BY <1>2, <1>3, <2>1, CompiledTyped DEF sf
<1>5. names \in Ids \cup {NoText} /\ m.text.id \in Ids
      /\ (names = worker.names \/ names \in Ids)
  BY <1>2, <1>3 DEF NamesAfter, Texts
<1>6. CompileResult(m.file, m.text, done) \in Answers
  <2> HIDE DEF m, done
  <2> QED  BY <1>2, <1>4, <1>5 DEF CompileResult, Answers
<1>7. toMain' \in Seq(Answers)
  BY <1>1, <1>6 DEF TypeInv
<1>8. worker' = [worker EXCEPT !.src[m.file] = done, !.names = names]
  BY <1>1
<1> HIDE DEF m, done, names
<1>9. worker' \in Workers /\ worker'.names = names
      /\ worker'.src = [worker.src EXCEPT ![m.file] = done] /\ worker.src \in [Files -> SourceStates]
  BY <1>2, <1>3, <1>4, <1>5, <1>8 DEF Workers
<1>10. \A f \in Files : Bindable(worker'.src[f], worker'.names)
  <2> SUFFICES ASSUME NEW f \in Files PROVE Bindable(worker'.src[f], worker'.names)
    OBVIOUS
  <2>1. Bindable(worker.src[f], worker.names)
    BY DEF TypeInv
  <2>2. CASE f = m.file
    BY <1>4, <1>9, <2>2
  <2>3. CASE f # m.file
    BY <1>5, <1>9, <2>1, <2>3 DEF Bindable
  <2> QED  BY <2>2, <2>3
<1> QED  BY <1>1, <1>2, <1>7, <1>9, <1>10 DEF TypeInv

LEMMA ClipboardTyped ==
  ASSUME TypeInv, HandleClipboardData, scene' = scene
  PROVE  TypeInv'
<1>1. Head(toWorker).clip \in Nat /\ toWorker' \in Seq(Requests)
      /\ UNCHANGED <<user, file, view, clip, proc>>
  BY HandledTyped, RequestFields DEF HandleClipboardData
<1>2. worker' = [worker EXCEPT !.clipboard = Head(toWorker).clip] /\ UNCHANGED <<spent, toMain, lost>>
  BY DEF HandleClipboardData
<1>3. worker' \in Workers /\ worker'.src = worker.src /\ worker'.names = worker.names
  BY <1>1, <1>2 DEF TypeInv, Workers
<1> QED  BY <1>1, <1>2, <1>3 DEF TypeInv

LEMMA RenderTyped ==
  ASSUME TypeInv, NEW use \in Clipboards, HandleFrameBegin(use), scene' = scene
  PROVE  TypeInv'
<1> DEFINE m == Head(toWorker)
           R == {s \in m.inputs : HasContent(worker.src[s])}
<1>1. m.inputs \in SUBSET Slides /\ toWorker' \in Seq(Requests)
      /\ UNCHANGED <<user, file, view, clip, proc>>
  BY HandledTyped, RequestFields DEF HandleFrameBegin
<1>2. PICK src \in [R -> UNION {Rendered(worker.src[s], worker.names) : s \in R}],
           W \in IF Key \in scene.inputs THEN SUBSET R ELSE {{}},
           clears \in IF scene.inputs = {} THEN {FALSE} ELSE BOOLEAN :
        /\ \A s \in R : src[s] \in Rendered(worker.src[s], worker.names)
        /\ worker' = [worker EXCEPT
             !.src = [f \in Files |-> IF f \in R THEN src[f].src ELSE @[f]],
             !.ran = [s \in Slides |-> IF s \in R THEN src[s].run ELSE @[s]],
             !.down = [s \in Slides |-> IF s \in R THEN DownAfter(@[s], m.events[s], clears)
                                        ELSE @[s]],
             !.clipboard = IF use = "copy" THEN spent.copies + 1 ELSE @]
        /\ toMain' = toMain \o ClipboardSent(use) \o <<FrameDone(R, W)>>
  BY Zenon DEF HandleFrameBegin
<1>3. lost' = [s \in Slides |-> IF s \in R THEN lost[s] ELSE lost[s] \cup Releases(m.events[s])]
  BY DEF HandleFrameBegin
<1>4. R \in SUBSET Slides /\ W \in SUBSET Slides /\ Slides \subseteq Files
  BY <1>1 DEF Files
<1> HIDE DEF R, m
<1>5. worker \in Workers /\ spent \in Spents
  BY DEF TypeInv
<1>6. ASSUME NEW f \in Files
      PROVE  LET sf == IF f \in R THEN src[f].src ELSE worker.src[f]
             IN  sf \in SourceStates /\ Bindable(sf, worker.names)
  <2>1. worker.src[f] \in SourceStates /\ Bindable(worker.src[f], worker.names)
    BY DEF TypeInv, Workers
  <2>2. f \in R => src[f].src \in SourceStates /\ Bindable(src[f].src, worker.names)
    BY <1>2, <2>1, RenderedTyped
  <2> QED  BY <2>1, <2>2
<1>7. ASSUME NEW s \in Slides
      PROVE  (IF s \in R THEN src[s].run ELSE worker.ran[s]) \in Runs \cup {NoRun}
  <2>1. worker.ran[s] \in Runs \cup {NoRun}
    BY <1>5 DEF Workers
  <2>2. worker.src[s] \in SourceStates /\ Bindable(worker.src[s], worker.names)
    BY <1>4 DEF TypeInv, Workers
  <2>3. s \in R => src[s].run \in Runs \cup {NoRun}
    BY <1>2, <2>2, RenderedTyped
  <2> QED  BY <2>1, <2>3
<1>8. ASSUME NEW s \in Slides
      PROVE  (IF s \in R THEN DownAfter(worker.down[s], m.events[s], clears) ELSE worker.down[s]) \in SUBSET Inputs
  BY <1>5 DEF DownAfter, Workers
<1>9. (IF use = "copy" THEN spent.copies + 1 ELSE worker.clipboard) \in Nat
  BY <1>5 DEF Workers, Spents
<1>10. /\ worker' \in Workers
       /\ worker'.src = [f \in Files |-> IF f \in R THEN src[f].src ELSE worker.src[f]]
       /\ worker'.names = worker.names
  BY <1>2, <1>5, <1>6, <1>7, <1>8, <1>9 DEF Workers
<1>11. \A f \in Files : Bindable(worker'.src[f], worker'.names)
  BY <1>6, <1>10
<1>12. toMain' \in Seq(Answers)
  <2>1. ClipboardData(spent.copies + 1) \in Answers /\ ClipboardRequest \in Answers
    BY <1>5, MessagesTyped DEF Spents
  <2>2. ClipboardSent(use) \in Seq(Answers)
    BY <2>1 DEF ClipboardSent, Clipboards
  <2>3. FrameDone(R, W) \in Answers
    BY <1>4, MessagesTyped
  <2>4. toMain \in Seq(Answers)
    BY DEF TypeInv
  <2> QED  BY <1>2, <2>2, <2>3, <2>4
<1>13. lost' \in [Slides -> SUBSET Inputs]
  BY <1>3 DEF Releases, TypeInv
<1>14. spent' \in Spents
  BY <1>5 DEF HandleFrameBegin, Copies, Spend, Spents
<1> QED  BY <1>1, <1>10, <1>11, <1>12, <1>13, <1>14 DEF TypeInv

LEMMA TypedNext == TypeInv /\ [Next /\ UNCHANGED scene]_<<vars, scene>> => TypeInv'
<1> SUFFICES ASSUME TypeInv, [Next /\ UNCHANGED scene]_<<vars, scene>> PROVE TypeInv'
  OBVIOUS
<1>s. scene' = scene
  OBVIOUS
<1>1. ASSUME NEW f \in DOMAIN file, NEW k \in scene.kinds, Execute(f, k)
      PROVE  TypeInv'
  <2> DEFINE new == [text |-> [id |-> <<f, spent.edits + 1>>, kind |-> k], state |-> "new"]
  <2>1. /\ file' = [file EXCEPT ![f] = new]
        /\ spent' = [spent EXCEPT !.edits = @ + 1]
        /\ UNCHANGED <<user, view, clip, proc, worker, toWorker, toMain, lost>>
    BY <1>1 DEF Execute, Spend
  <2>2. f \in Int /\ k \in Kinds /\ spent.edits + 1 \in Nat
    <3>1. f \in DOMAIN scene.first /\ scene \in Scenes /\ spent.edits \in Nat
      BY DEF TypeInv, Spents
    <3>2. DOMAIN scene.first \subseteq Int /\ scene.kinds \subseteq Kinds
      BY <3>1, SceneFacts, FilesAreIntegers
    <3> QED  BY <3>1, <3>2
  <2>3. new \in FileStates
    <3>1. [id |-> <<f, spent.edits + 1>>, kind |-> k] \in Texts
      BY <2>2 DEF Texts, Ids
    <3> QED  BY <3>1 DEF FileStates
  <2> HIDE DEF new
  <2>4. file' \in [DOMAIN scene.first -> FileStates] /\ spent' \in Spents
    BY <2>1, <2>3 DEF TypeInv, Spents
  <2> QED  BY <1>s, <2>1, <2>4 DEF TypeInv
<1>2. CASE Copy
  <2>1. spent' \in Spents /\ clip' \in Nat
    BY <1>2 DEF Copy, Spend, TypeInv, Spents
  <2> QED  BY <1>s, <1>2, <2>1 DEF Copy, TypeInv
<1>3. CASE UserFrame \/ IdleFrame
  BY <1>s, <1>3, FramesAre, FrameTyped
<1>4. CASE Recv
  BY <1>s, <1>4, ReceivedTyped
<1>5. CASE Reap
  <2>1. /\ proc' = "none" /\ toWorker' = <<>> /\ toMain' = <<>> /\ worker' = FreshWorker
        /\ view' = [view EXCEPT !.outstanding = FALSE]
        /\ UNCHANGED <<spent, user, clip, lost>>
        /\ \E blamed : file' = [f \in DOMAIN file |->
             IF f \in blamed THEN [file[f] EXCEPT !.state = "error"] ELSE file[f]]
    BY <1>5 DEF Reap
  <2>2. view' \in Views
    BY <2>1 DEF TypeInv, Views
  <2>3. file' \in [DOMAIN scene.first -> FileStates]
    <3>1. \A x \in FileStates : [x EXCEPT !.state = "error"] \in FileStates
      BY DEF FileStates
    <3> QED  BY <2>1, <3>1 DEF TypeInv
  <2>4. FreshSource \in SourceStates /\ FreshSource.function = "none"
    BY DEF FreshSource, SourceStates
  <2>5. FreshWorker \in Workers /\ \A f \in Files : Bindable(FreshWorker.src[f], FreshWorker.names)
    BY <2>4 DEF FreshWorker, Workers, Bindable
  <2>6. <<>> \in Seq(Requests) /\ <<>> \in Seq(Answers)
    OBVIOUS
  <2> QED  BY <1>s, <2>1, <2>2, <2>3, <2>5, <2>6 DEF TypeInv
<1>6. CASE Spawn
  <2>1. file' \in [DOMAIN scene.first -> FileStates]
    <3>1. \A x \in FileStates : [x EXCEPT !.state = "new"] \in FileStates
      BY DEF FileStates
    <3> QED  BY <1>6, <3>1 DEF Spawn, TypeInv
  <2> QED  BY <1>s, <1>6, <2>1 DEF Spawn, TypeInv
<1>7. CASE Work
  BY <1>s, <1>7, SetSourceTyped, ClipboardTyped, RenderTyped DEF Work
<1>8. CASE Crash
  <2>1. spent' \in Spents
    BY <1>8 DEF Crash, Spend, TypeInv, Spents
  <2> QED  BY <1>s, <1>8, <2>1 DEF Crash, TypeInv
<1>9. CASE UNCHANGED <<vars, scene>>
  BY <1>9 DEF vars, TypeInv
<1> QED  BY <1>1, <1>2, <1>3, <1>4, <1>5, <1>6, <1>7, <1>8, <1>9 DEF Next

(* Every variable keeps its type: what RemoteEngine and WorkerApp send     *)
(* each other is what the other one can receive, whatever is edited,       *)
(* moved, copied or killed in between (SlideView.h:29-38,                  *)
(* RemoteEngine.h:148-155, WorkerApp.h:80-112).                            *)
THEOREM SessionTyped == Spec => []TypeOK
<1>1. TypeInv => TypeOK
  BY DEF TypeInv, TypeOK, Users, FileStates, Views, Workers
<1> QED  BY <1>1, TypedInit, TypedNext, PTL DEF Spec
-----------------------------------------------------------------------------
(* What accounts for an input that is down in a slide, or will be when the *)
(* events on the way have arrived: that the user still holds it there, or  *)
(* that its end was lost; and if nothing does, then the end is on the way, *)
(* behind every press that is.                                             *)
Fine(s, i) ==
  \/ i \in lost[s]
  \/ i \in user.held /\ IF i = Key THEN s \in view.hovered ELSE s = view.drag
EndedIn(q, i) == \E k \in DOMAIN q : Ends(q[k], i)
EndedAfter(q, k, i) == \E j \in DOMAIN q : j > k /\ Ends(q[j], i)
EndedBehind(q, n, s, i) ==
  \E m \in DOMAIN q : m > n /\ q[m].type = "FrameBegin" /\ EndedIn(q[m].events[s], i)
EndComes(s, i) == EndedBehind(toWorker, 0, s, i) \/ EndedIn(view.events[s], i)
SentEnd(s, i) ==
  \A n \in DOMAIN toWorker : toWorker[n].type = "FrameBegin" =>
    \A k \in DOMAIN toWorker[n].events[s] : toWorker[n].events[s][k] = Press(i) =>
      \/ EndedAfter(toWorker[n].events[s], k, i)
      \/ EndedBehind(toWorker, n, s, i) \/ EndedIn(view.events[s], i)
GatheredEnd(s, i) ==
  \A k \in DOMAIN view.events[s] : view.events[s][k] = Press(i) => EndedAfter(view.events[s], k, i)
Told(s, i) == (i \in worker.down[s] => EndComes(s, i)) /\ SentEnd(s, i) /\ GatheredEnd(s, i)
HeldInv == \A s \in Slides, i \in Inputs : Fine(s, i) \/ Told(s, i)

(* The events a frame adds for a slide, behind the L that waited.          *)
Left(V, over, s) == s \in (V \cap view.hovered) \ {over}
Given(V, over, c, s) ==
  ~ Left(V, over, s) /\ s = over /\ (IsPress(c) \/ (c.input = Key /\ s \in view.wants))
IsAdded(V, over, c, s, L) ==
  LET q == Gathered(V, over, c)[s]
  IN  /\ L \in Nat /\ DOMAIN view.events[s] = 1..L
      /\ \A k \in 1..L : k \in DOMAIN q /\ q[k] = view.events[s][k]
      /\ \A k \in DOMAIN q : k \in 1..L \/ k > L
      /\ \A k \in DOMAIN q : k > L =>
           q[k] = FocusLost \/ (q[k] = c /\ (Given(V, over, c, s) \/ s \in ReleaseTo(over, c)))
      /\ Left(V, over, s) => \E k \in DOMAIN q : k > L /\ q[k] = FocusLost
      /\ Given(V, over, c, s) \/ s \in ReleaseTo(over, c) => \E k \in DOMAIN q : k > L /\ q[k] = c

LEMMA Added ==
  ASSUME TypeInv, NEW V \in SUBSET Slides, NEW over \in V \cup {NoSlide}, NEW c \in Acts,
         NEW s \in Slides, NEW L, L = Len(view.events[s])
  PROVE  IsAdded(V, over, c, s, L)
<1> DEFINE given == Given(V, over, c, s)
           left == Left(V, over, s)
           x == DrawEvents(V, over, c, s)
           y == IF s \in ReleaseTo(over, c) THEN <<c>> ELSE <<>>
           q == Gathered(V, over, c)[s]
           M == Events \cup {c, FocusLost}
<1>1. view.events[s] \in Seq(M)
  <2>1. view.events[s] \in Seq(Events)
    BY DEF TypeInv, Views
  <2> QED  BY <2>1
<1>2. x = IF left THEN <<FocusLost>> ELSE IF given THEN <<c>> ELSE <<>>
  BY DEF DrawEvents, DrawEventsOver, Left, Given
<1>3. q = (view.events[s] \o x) \o y
  BY DEF Gathered
<1>4. given => ~ left
  BY DEF Given
<1> HIDE DEF given, left, q
<1>5. /\ x \in Seq(M) /\ y \in Seq(M) /\ Len(x) \in Nat /\ Len(y) \in Nat
      /\ \A k \in 1..Len(x) : k = 1 /\ x[k] \in {FocusLost, c} /\ (x[k] = FocusLost \/ given)
      /\ \A k \in 1..Len(y) : k = 1 /\ y[k] = c /\ s \in ReleaseTo(over, c)
      /\ left => Len(x) = 1 /\ x[1] = FocusLost
      /\ given => Len(x) = 1 /\ x[1] = c
      /\ s \in ReleaseTo(over, c) => Len(y) = 1 /\ y[1] = c
  <2>1. /\ x \in Seq(M) /\ Len(x) \in Nat
        /\ \A k \in 1..Len(x) : k = 1 /\ x[k] \in {FocusLost, c} /\ (x[k] = FocusLost \/ given)
        /\ left => Len(x) = 1 /\ x[1] = FocusLost
        /\ given => Len(x) = 1 /\ x[1] = c
    <3> HIDE DEF x
    <3>1. CASE left
      BY <1>2, <1>4, <3>1
    <3>2. CASE ~ left /\ given
      BY <1>2, <3>2
    <3>3. CASE ~ left /\ ~ given
      BY <1>2, <3>3
    <3> QED  BY <3>1, <3>2, <3>3
  <2>2. /\ y \in Seq(M) /\ Len(y) \in Nat
        /\ \A k \in 1..Len(y) : k = 1 /\ y[k] = c /\ s \in ReleaseTo(over, c)
        /\ s \in ReleaseTo(over, c) => Len(y) = 1 /\ y[1] = c
    <3>1. CASE s \in ReleaseTo(over, c)
      BY <3>1
    <3>2. CASE s \notin ReleaseTo(over, c)
      BY <3>2
    <3> QED  BY <3>1, <3>2
  <2> QED  BY <2>1, <2>2
<1>6. PICK v \in Seq(M) : v = view.events[s] /\ Len(v) = L /\ L \in Nat
  BY <1>1
<1> HIDE DEF x, y, M
<1>7. PICK a \in Nat, b \in Nat : a = Len(x) /\ b = Len(y)
  BY <1>5
<1>8. /\ v \o x \in Seq(M) /\ Len(v \o x) = L + a
      /\ DOMAIN v = 1..L /\ DOMAIN (v \o x) = 1..(L + a)
      /\ \A i \in 1..L : (v \o x)[i] = v[i]
      /\ \A i \in 1..a : (v \o x)[L + i] = x[i]
      /\ \A i \in 1..(L + a) : i > L => i - L \in 1..a /\ (v \o x)[i] = x[i - L]
  BY <1>5, <1>6, <1>7, JoinedAt
<1>9. PICK w \in Seq(M) : w = v \o x
  BY <1>8
<1>10. PICK d \in Nat : d = L + a
  BY <1>6, <1>7
<1>11. /\ w \o y \in Seq(M) /\ Len(w \o y) = d + b
       /\ DOMAIN w = 1..d /\ DOMAIN (w \o y) = 1..(d + b)
       /\ \A i \in 1..d : (w \o y)[i] = w[i]
       /\ \A i \in 1..b : (w \o y)[d + i] = y[i]
       /\ \A i \in 1..(d + b) : i > d => i - d \in 1..b /\ (w \o y)[i] = y[i - d]
  <2>1. PICK z \in Seq(M) : z = y /\ Len(z) = b
    BY <1>5, <1>7
  <2>2. w \in Seq(M) /\ Len(w) = d
    BY <1>8, <1>9, <1>10
  <2>3. /\ w \o z \in Seq(M) /\ Len(w \o z) = d + b
        /\ DOMAIN w = 1..d /\ DOMAIN (w \o z) = 1..(d + b)
        /\ \A i \in 1..d : (w \o z)[i] = w[i]
        /\ \A i \in 1..b : (w \o z)[d + i] = z[i]
        /\ \A i \in 1..(d + b) : i > d => i - d \in 1..b /\ (w \o z)[i] = z[i - d]
    <3>1. PICK u, t, n, k : u = w /\ t = z /\ n = d /\ k = b
      OBVIOUS
    <3>2. u \in Seq(M) /\ t \in Seq(M) /\ n = Len(u) /\ k = Len(t)
      BY <2>1, <2>2, <3>1
    <3>3. /\ u \o t \in Seq(M) /\ Len(u \o t) = n + k
          /\ DOMAIN u = 1..n /\ DOMAIN (u \o t) = 1..(n + k)
          /\ \A i \in 1..n : (u \o t)[i] = u[i]
          /\ \A i \in 1..k : (u \o t)[n + i] = t[i]
          /\ \A i \in 1..(n + k) : i > n => i - n \in 1..k /\ (u \o t)[i] = t[i - n]
      BY <3>2, JoinedAt
    <3> QED  BY <3>1, <3>3
  <2> QED  BY <2>1, <2>3
<1>12. q = w \o y /\ DOMAIN q = 1..(L + a + b)
  BY <1>3, <1>6, <1>9, <1>10, <1>11
<1>13. \A k \in 1..L : k \in DOMAIN q /\ q[k] = v[k]
  BY <1>6, <1>7, <1>8, <1>9, <1>10, <1>11, <1>12
<1>14. ASSUME NEW k \in DOMAIN q, k > L
       PROVE  q[k] = FocusLost \/ (q[k] = c /\ (given \/ s \in ReleaseTo(over, c)))
  <2>1. CASE k > d
    BY <1>5, <1>7, <1>11, <1>12, <2>1
  <2>2. CASE k <= d
    <3>1. k \in 1..(L + a) /\ q[k] = w[k]
      BY <1>6, <1>10, <1>11, <1>12, <2>2
    <3>2. k - L \in 1..a /\ q[k] = x[k - L]
      BY <1>8, <1>9, <1>14, <3>1
    <3> QED  BY <1>5, <1>7, <3>2
  <2>3. k \in Nat /\ d \in Nat
    BY <1>6, <1>7, <1>12
  <2> QED  BY <2>1, <2>2, <2>3
<1>15. ASSUME left
       PROVE  \E k \in DOMAIN q : k > L /\ q[k] = FocusLost
  <2>1. a = 1 /\ x[1] = FocusLost /\ L + 1 \in 1..(L + a) /\ 1 \in 1..a
    BY <1>5, <1>6, <1>7, <1>15
  <2>2. w[L + 1] = FocusLost
    BY <1>8, <1>9, <2>1
  <2>3. L + 1 \in 1..d /\ L + 1 \in DOMAIN q /\ L + 1 > L
    BY <1>6, <1>7, <1>10, <1>12, <2>1
  <2>4. q[L + 1] = FocusLost
    BY <1>11, <1>12, <2>2, <2>3
  <2> QED  BY <2>3, <2>4
<1>16. ASSUME given
       PROVE  \E k \in DOMAIN q : k > L /\ q[k] = c
  <2>1. a = 1 /\ x[1] = c /\ L + 1 \in 1..(L + a) /\ 1 \in 1..a
    BY <1>5, <1>6, <1>7, <1>16
  <2>2. w[L + 1] = c
    BY <1>8, <1>9, <2>1
  <2>3. L + 1 \in 1..d /\ L + 1 \in DOMAIN q /\ L + 1 > L
    BY <1>6, <1>7, <1>10, <1>12, <2>1
  <2>4. q[L + 1] = c
    BY <1>11, <1>12, <2>2, <2>3
  <2> QED  BY <2>3, <2>4
<1>17. ASSUME s \in ReleaseTo(over, c)
       PROVE  \E k \in DOMAIN q : k > L /\ q[k] = c
  <2>1. b = 1 /\ y[1] = c /\ 1 \in 1..b
    BY <1>5, <1>7, <1>17
  <2>2. d + 1 \in DOMAIN q /\ d + 1 > L
    BY <1>6, <1>7, <1>10, <1>12, <2>1
  <2>3. q[d + 1] = c
    BY <1>11, <1>12, <2>1
  <2> QED  BY <2>2, <2>3
<1>18. \A k \in DOMAIN q : k \in 1..L \/ k > L
  BY <1>6, <1>7, <1>12
<1>19. L \in Nat /\ DOMAIN view.events[s] = 1..L /\ \A k \in 1..L : view.events[s][k] = v[k]
  BY <1>6, <1>8
<1> QED  BY <1>13, <1>14, <1>15, <1>16, <1>17, <1>18, <1>19 DEF IsAdded, given, left, q

LEMMA NotLost ==
  ASSUME NEW V, NEW over, NEW c, NEW s, NEW i \in Inputs, i \notin LostAfter(V, over, c, s)
  PROVE  /\ i \in lost[s] => c = Press(i) /\ s = over
         /\ IsPress(c) /\ over # NoSlide /\ s # over => i \notin user.held \cap Buttons
         /\ i = Key /\ c = Release(Key) /\ s \in HoveredAfter(V, over) => s = over /\ s \in view.wants
         /\ DropsEvents(V \cup Fed(V, over, c), Gathered(V, over, c)) =>
              i \notin Releases(Gathered(V, over, c)[s])
<1> DEFINE ev == Gathered(V, over, c)
           pressed == {x \in Inputs : c = Press(x) /\ s = over}
           stolen == IF IsPress(c) /\ over # NoSlide /\ s # over THEN user.held \cap Buttons ELSE {}
           ignored == IF c = Release(Key) /\ s \in HoveredAfter(V, over) /\ ~ (s = over /\ s \in view.wants)
                      THEN {Key} ELSE {}
           dropped == IF DropsEvents(V \cup Fed(V, over, c), ev) THEN Releases(ev[s]) ELSE {}
<1>1. LostAfter(V, over, c, s) = (lost[s] \ pressed) \cup stolen \cup ignored \cup dropped
  BY DEF LostAfter
<1>2. i \notin lost[s] \ pressed /\ i \notin stolen /\ i \notin ignored /\ i \notin dropped
  <2> HIDE DEF pressed, stolen, ignored, dropped
  <2> QED  BY <1>1
<1> QED  BY <1>2

(* A frame that leaves an input unaccounted for has told the slide: no     *)
(* press is new, and an end is, unless none was due before.                *)
LEMMA FrameTells ==
  ASSUME TypeInv, NEW V \in SUBSET Slides, NEW over \in V \cup {NoSlide}, NEW c \in Acts,
         Frame(V, over, c), NEW s \in Slides, NEW i \in Inputs, ~ Fine(s, i)',
         NEW L, L = Len(view.events[s])
  PROVE  LET ev == Gathered(V, over, c)
         IN  /\ \A k \in DOMAIN ev[s] : ev[s][k] = Press(i) => k \in 1..L
             /\ Fine(s, i) => \E k \in DOMAIN ev[s] : k > L /\ Ends(ev[s][k], i)
             /\ DropsEvents(V \cup Fed(V, over, c), ev) => ~ EndedIn(ev[s], i)
<1> DEFINE ev == Gathered(V, over, c)
           q == ev[s]
           given == Given(V, over, c, s)
           left == Left(V, over, s)
<1>a. IsAdded(V, over, c, s, L)
  BY Added
<1>1. /\ \A k \in DOMAIN q : k \in 1..L \/ k > L
      /\ \A k \in DOMAIN q : k > L =>
           q[k] = FocusLost \/ (q[k] = c /\ (given \/ s \in ReleaseTo(over, c)))
      /\ left => \E k \in DOMAIN q : k > L /\ q[k] = FocusLost
      /\ given \/ s \in ReleaseTo(over, c) => \E k \in DOMAIN q : k > L /\ q[k] = c
  BY <1>a DEF IsAdded
<1>2. /\ user'.held = HeldAfter(c)
      /\ view'.hovered = HoveredAfter(V, over)
      /\ view'.drag = IF Held(c) THEN DragAfter(over, c) ELSE NoSlide
      /\ lost'[s] = LostAfter(V, over, c, s)
  <2>1. view \in Views
    BY DEF TypeInv
  <2> QED  BY <2>1 DEF Frame, Views
<1>3. /\ i \notin LostAfter(V, over, c, s)
      /\ ~ (i \in HeldAfter(c) /\ IF i = Key THEN s \in HoveredAfter(V, over) ELSE s = view'.drag)
  BY <1>2 DEF Fine
<1>4. /\ i \in lost[s] => c = Press(i) /\ s = over
      /\ IsPress(c) /\ over # NoSlide /\ s # over => i \notin user.held \cap Buttons
      /\ i = Key /\ c = Release(Key) /\ s \in HoveredAfter(V, over) => s = over /\ s \in view.wants
      /\ DropsEvents(V \cup Fed(V, over, c), ev) => i \notin Releases(q)
  BY <1>3, NotLost
<1>5. s # NoSlide /\ (i = Key \/ i \in Buttons) /\ (i \in Buttons => i # Key)
  BY SessionAssumption DEF NoSlide, Inputs
<1>6. c.down => ~ IsRelease(c)
  BY DEF IsRelease
<1>7. /\ Press(i).down /\ Press(i).input = i /\ Press(i) # FocusLost
      /\ ~ Release(i).down /\ Release(i).input = i
  BY DEF Press, FocusLost, Release
<1> HIDE DEF q, ev
<1>8. ~ (c = Press(i) /\ s = over)
  <2> SUFFICES ASSUME c = Press(i), s = over PROVE FALSE
    OBVIOUS
  <2>1. i \in HeldAfter(c)
    BY DEF HeldAfter
  <2>2. s \in HoveredAfter(V, over)
    BY <1>5 DEF HoveredAfter
  <2>3. i \in Buttons => view'.drag = s
    <3>1. i \in Buttons => IsPress(c) /\ Held(c)
      BY <1>7, <2>1 DEF IsPress, Held
    <3>2. i \in Buttons => DragAfter(over, c) = s
      BY <1>5, <3>1 DEF DragAfter
    <3> QED  BY <1>2, <3>1, <3>2
  <2> QED  BY <1>3, <1>5, <2>1, <2>2, <2>3
<1>9. \A k \in DOMAIN q : q[k] = Press(i) => k \in 1..L
  <2> SUFFICES ASSUME NEW k \in DOMAIN q, q[k] = Press(i), k > L PROVE FALSE
    BY <1>1
  <2>1. c = Press(i) /\ (given \/ s \in ReleaseTo(over, c))
    BY <1>1, <1>7
  <2>2. s \notin ReleaseTo(over, c)
    BY <1>6, <1>7, <2>1 DEF ReleaseTo
  <2> QED  BY <1>8, <2>1, <2>2 DEF Given
<1>10. ASSUME Fine(s, i)
       PROVE  \E k \in DOMAIN q : k > L /\ Ends(q[k], i)
  <2>1. i \notin lost[s]
    BY <1>4, <1>8
  <2>2. i \in user.held /\ (IF i = Key THEN s \in view.hovered ELSE s = view.drag)
    BY <1>10, <2>1 DEF Fine
  <2>3. c # Release(i) => i \in HeldAfter(c)
    BY <2>2 DEF HeldAfter
  <2>4. CASE i = Key
    <3>1. CASE left
      <4>1. Ends(FocusLost, i)
        BY <2>4 DEF Ends
      <4> QED  BY <1>1, <3>1, <4>1
    <3>2. CASE ~ left
      <4>1. s \in HoveredAfter(V, over)
        BY <2>2, <2>4, <3>2, <1>5 DEF HoveredAfter, Left
      <4>2. c = Release(i)
        BY <1>3, <2>3, <2>4, <4>1
      <4>3. s = over /\ s \in view.wants
        BY <1>4, <2>4, <4>1, <4>2
      <4>4. given
        BY <1>7, <2>4, <3>2, <4>2, <4>3 DEF Given
      <4>5. Ends(c, i)
        BY <4>2 DEF Ends
      <4> QED  BY <1>1, <4>4, <4>5
    <3> QED  BY <3>1, <3>2
  <2>5. CASE i # Key
    <3>1. i \in Buttons /\ s = view.drag
      BY <1>5, <2>2, <2>5
    <3>2. CASE c = Release(i)
      <4>1. IsRelease(c)
        BY <1>7, <3>1, <3>2 DEF IsRelease
      <4>2. s \in ReleaseTo(over, c) /\ Ends(c, i)
        BY <3>1, <3>2, <4>1 DEF ReleaseTo, Ends
      <4> QED  BY <1>1, <4>2
    <3>3. CASE c # Release(i)
      <4>1. i \in HeldAfter(c) /\ Held(c)
        BY <2>3, <3>1, <3>3 DEF Held
      <4>2. DragAfter(over, c) = s
        BY <1>4, <2>2, <3>1 DEF DragAfter
      <4> QED  BY <1>2, <1>3, <2>5, <4>1, <4>2
    <3> QED  BY <3>2, <3>3
  <2> QED  BY <2>4, <2>5
<1>11. DropsEvents(V \cup Fed(V, over, c), ev) => ~ EndedIn(q, i)
  BY <1>4 DEF Releases, EndedIn
<1> QED  BY <1>9, <1>10, <1>11 DEF q, ev

LEMMA FrameKeepsHeld ==
  ASSUME TypeInv, HeldInv, NEW V \in SUBSET Slides, NEW over \in V \cup {NoSlide}, NEW c \in Acts,
         Frame(V, over, c)
  PROVE  HeldInv'
<1> SUFFICES ASSUME NEW s \in Slides, NEW i \in Inputs, ~ Fine(s, i)' PROVE Told(s, i)'
  BY DEF HeldInv
<1> DEFINE ev == Gathered(V, over, c)
           in == V \cup Fed(V, over, c)
<1>n. PICK L : L = Len(view.events[s])
  OBVIOUS
<1>1. /\ \A k \in DOMAIN ev[s] : ev[s][k] = Press(i) => k \in 1..L
      /\ Fine(s, i) => \E k \in DOMAIN ev[s] : k > L /\ Ends(ev[s][k], i)
      /\ DropsEvents(in, ev) => ~ EndedIn(ev[s], i)
  BY <1>n, FrameTells
<1>2. /\ L \in Nat /\ DOMAIN view.events[s] = 1..L
      /\ \A k \in 1..L : k \in DOMAIN ev[s] /\ ev[s][k] = view.events[s][k]
  <2>1. IsAdded(V, over, c, s, L)
    BY <1>n, Added
  <2> QED  BY <2>1 DEF IsAdded
<1>3. /\ DOMAIN toWorker = 1..Len(toWorker) /\ Len(toWorker) \in Nat
      /\ \A n \in DOMAIN toWorker : n \in DOMAIN toWorker' /\ toWorker'[n] = toWorker[n]
      /\ \A n \in DOMAIN toWorker' : toWorker'[n].type = "FrameBegin" =>
           \/ n \in DOMAIN toWorker
           \/ BeginsFrame(in, ev) /\ n = Len(toWorker') /\ toWorker'[n] = FrameBegin(in, ev)
      /\ BeginsFrame(in, ev) =>
           \E n \in DOMAIN toWorker' : n > Len(toWorker) /\ toWorker'[n] = FrameBegin(in, ev)
  BY FrameSends
<1>4. /\ view'.events = IF BeginsFrame(in, ev) \/ DropsEvents(in, ev) THEN NoEvents ELSE ev
      /\ worker' = worker
  <2>1. view \in Views
    BY DEF TypeInv
  <2> QED  BY <2>1 DEF Frame, Views
<1>5. FrameBegin(in, ev).type = "FrameBegin" /\ FrameBegin(in, ev).events = ev /\ NoEvents[s] = <<>>
  BY DEF FrameBegin, NoEvents
<1> HIDE DEF ev, in
(* Every press that waited is followed by an end. *)
<1>6. \A k \in DOMAIN ev[s] : ev[s][k] = Press(i) => EndedAfter(ev[s], k, i)
  <2> SUFFICES ASSUME NEW k \in DOMAIN ev[s], ev[s][k] = Press(i) PROVE EndedAfter(ev[s], k, i)
    OBVIOUS
  <2>1. k \in 1..L /\ view.events[s][k] = Press(i)
    BY <1>1, <1>2
  <2>2. CASE Fine(s, i)
    <3>1. PICK j \in DOMAIN ev[s] : j > L /\ Ends(ev[s][j], i)
      BY <1>1, <2>2
    <3>2. DOMAIN ev[s] \subseteq Int
      BY GatheredTyped DEF ev
    <3>3. j > k
      BY <1>2, <2>1, <3>1, <3>2
    <3> QED  BY <3>1, <3>3 DEF EndedAfter
  <2>3. CASE Told(s, i)
    <3>1. EndedAfter(view.events[s], k, i)
      BY <1>2, <2>1, <2>3 DEF Told, GatheredEnd
    <3> QED  BY <1>2, <3>1 DEF EndedAfter
  <2> QED  BY <2>2, <2>3 DEF HeldInv
(* What waited is still there, or on the way. *)
<1>7. EndedIn(ev[s], i) =>
        \/ EndedIn(view'.events[s], i)
        \/ \E n \in DOMAIN toWorker' : /\ n > Len(toWorker) /\ toWorker'[n].type = "FrameBegin"
                                       /\ EndedIn(toWorker'[n].events[s], i)
  BY <1>1, <1>3, <1>4, <1>5
<1>8. Fine(s, i) \/ EndedIn(view.events[s], i) => EndedIn(ev[s], i)
  BY <1>1, <1>2 DEF EndedIn
<1>9. \A n \in 0..Len(toWorker) :
        EndedBehind(toWorker, n, s, i) \/ EndedIn(ev[s], i) =>
          EndedBehind(toWorker, n, s, i)' \/ EndedIn(view.events[s], i)'
  <2> SUFFICES ASSUME NEW n \in 0..Len(toWorker), EndedBehind(toWorker, n, s, i) \/ EndedIn(ev[s], i)
               PROVE  EndedBehind(toWorker', n, s, i) \/ EndedIn(view'.events[s], i)
    BY DEF EndedBehind, EndedIn, Ends
  <2>1. CASE EndedBehind(toWorker, n, s, i)
    BY <1>3, <2>1 DEF EndedBehind
  <2>2. CASE EndedIn(ev[s], i)
    BY <1>3, <1>7, <2>2 DEF EndedBehind
  <2> QED  BY <2>1, <2>2
<1>10. (i \in worker.down[s] => EndComes(s, i))'
  <2> SUFFICES ASSUME i \in worker.down[s] PROVE EndedBehind(toWorker, 0, s, i)' \/ EndedIn(view.events[s], i)'
    BY <1>4 DEF EndComes
  <2>1. EndedBehind(toWorker, 0, s, i) \/ EndedIn(ev[s], i)
    BY <1>8 DEF HeldInv, Told, EndComes
  <2> QED  BY <1>3, <1>9, <2>1
<1>11. SentEnd(s, i)'
  <2> SUFFICES ASSUME NEW n \in DOMAIN toWorker', toWorker'[n].type = "FrameBegin",
                      NEW k \in DOMAIN toWorker'[n].events[s], toWorker'[n].events[s][k] = Press(i)
               PROVE  \/ EndedAfter(toWorker'[n].events[s], k, i)
                      \/ EndedBehind(toWorker', n, s, i) \/ EndedIn(view'.events[s], i)
    BY DEF SentEnd, EndedAfter, EndedBehind, EndedIn, Ends, Press
  <2>1. CASE n \in DOMAIN toWorker
    <3>1. toWorker'[n] = toWorker[n] /\ n \in 0..Len(toWorker)
      BY <1>3, <2>1
    <3>2. \/ EndedAfter(toWorker[n].events[s], k, i)
          \/ EndedBehind(toWorker, n, s, i) \/ EndedIn(ev[s], i)
      BY <1>8, <2>1, <3>1 DEF HeldInv, Told, SentEnd
    <3>3. EndedBehind(toWorker, n, s, i) \/ EndedIn(ev[s], i) =>
            EndedBehind(toWorker', n, s, i) \/ EndedIn(view'.events[s], i)
      BY <1>9, <3>1 DEF EndedBehind, EndedIn, Ends
    <3> QED  BY <3>1, <3>2, <3>3
  <2>2. CASE n \notin DOMAIN toWorker
    BY <1>3, <1>5, <1>6, <2>2
  <2> QED  BY <2>1, <2>2
<1>12. GatheredEnd(s, i)'
  <2> SUFFICES ASSUME NEW k \in DOMAIN view'.events[s], view'.events[s][k] = Press(i)
               PROVE  EndedAfter(view'.events[s], k, i)
    BY DEF GatheredEnd, EndedAfter, Ends, Press
  <2> QED  BY <1>4, <1>5, <1>6
<1> QED  BY <1>10, <1>11, <1>12 DEF Told
-----------------------------------------------------------------------------
(* What is down after some events was down before them and they end        *)
(* nothing, or was pressed in them and not ended since.                    *)
LEMMA DownFacts ==
  ASSUME NEW q \in Seq(Events), NEW i \in Inputs, NEW down, NEW clears,
         i \in DownAfter(down, q, clears)
  PROVE  \/ i \in down /\ ~ EndedIn(q, i)
         \/ \E k \in DOMAIN q : q[k] = Press(i) /\ ~ EndedAfter(q, k, i)
<1> DEFINE told == {n \in DOMAIN q : About(q[n], i, clears)}
           last == CHOOSE n \in told : \A k \in told : k <= n
<1>1. IF told = {} THEN i \in down ELSE q[last].down
  BY DEF DownAfter
<1>2. \A n \in DOMAIN q : Ends(q[n], i) => n \in told
  BY DEF Ends, About, Release
<1>3. CASE told = {}
  BY <1>1, <1>2, <1>3 DEF EndedIn
<1>4. CASE told # {}
  <2>1. DOMAIN q = 1..Len(q) /\ Len(q) \in Nat /\ \A n \in DOMAIN q : q[n] \in Events
    OBVIOUS
  <2>2. \E x \in told : \A y \in told : y <= x
    BY <1>4, <2>1, LargestOfRange
  <2>3. last \in told /\ \A k \in told : k <= last
    BY <2>2
  <2> HIDE DEF last
  <2>4. q[last].down /\ About(q[last], i, clears) /\ q[last] \in Events
    BY <1>1, <1>4, <2>1, <2>3
  <2>5. q[last] = Press(i)
    <3> DEFINE e == q[last]
    <3> HIDE DEF e
    <3>1. e \in Events /\ e.down = TRUE /\ About(e, i, clears)
      BY <2>4 DEF e, Events
    <3>2. e.input = i
      BY <3>1 DEF About, FocusLost
    <3>3. e = [input |-> i, down |-> TRUE]
      BY <3>1, <3>2 DEF Events
    <3> QED  BY <3>3 DEF Press, e
  <2>6. ~ EndedAfter(q, last, i)
    BY <1>2, <2>1, <2>3 DEF EndedAfter
  <2> QED  BY <2>3, <2>5, <2>6
<1> QED  BY <1>3, <1>4

(* The request the worker takes, and those behind it.                      *)
LEMMA Shifted ==
  ASSUME TypeInv, NEW type, Handling(type), NEW s, NEW i
  PROVE  /\ \A n \in DOMAIN toWorker' : n + 1 \in DOMAIN toWorker /\ toWorker'[n] = toWorker[n + 1]
         /\ 1 \in DOMAIN toWorker /\ toWorker[1] = Head(toWorker) /\ Head(toWorker).type = type
         /\ EndedBehind(toWorker, 0, s, i) =>
              \/ type = "FrameBegin" /\ EndedIn(Head(toWorker).events[s], i)
              \/ EndedBehind(toWorker', 0, s, i)
         /\ EndedBehind(toWorker, 1, s, i) => EndedBehind(toWorker', 0, s, i)
         /\ \A n \in DOMAIN toWorker' :
              EndedBehind(toWorker, n + 1, s, i) => EndedBehind(toWorker', n, s, i)
<1>1. /\ toWorker \in Seq(Requests) /\ toWorker # <<>> /\ toWorker' = Tail(toWorker)
      /\ Head(toWorker).type = type /\ Head(toWorker) = toWorker[1]
  BY HandledTyped
<1>2. PICK L \in Nat : L = Len(toWorker) /\ L > 0
  BY <1>1
<1>3. /\ DOMAIN toWorker = 1..L /\ DOMAIN toWorker' = 1..(L - 1)
      /\ \A n \in 1..(L - 1) : toWorker'[n] = toWorker[n + 1]
  BY <1>1, <1>2
<1>4. ASSUME NEW n \in 0..(L - 1), EndedBehind(toWorker, n + 1, s, i)
      PROVE  EndedBehind(toWorker', n, s, i)
  <2>1. PICK m \in DOMAIN toWorker : m > n + 1 /\ toWorker[m].type = "FrameBegin" /\ EndedIn(toWorker[m].events[s], i)
    BY <1>4 DEF EndedBehind
  <2>2. m - 1 \in DOMAIN toWorker' /\ m - 1 > n /\ toWorker'[m - 1] = toWorker[m]
    BY <1>2, <1>3, <2>1
  <2> QED  BY <2>1, <2>2 DEF EndedBehind
<1>5. ASSUME EndedBehind(toWorker, 0, s, i)
      PROVE  \/ type = "FrameBegin" /\ EndedIn(Head(toWorker).events[s], i)
             \/ EndedBehind(toWorker', 0, s, i)
  <2>1. PICK m \in DOMAIN toWorker : toWorker[m].type = "FrameBegin" /\ EndedIn(toWorker[m].events[s], i)
    BY <1>5 DEF EndedBehind
  <2>2. CASE m = 1
    BY <1>1, <2>1, <2>2
  <2>3. CASE m # 1
    <3>1. m > 0 + 1 /\ 0 \in 0..(L - 1)
      BY <1>2, <1>3, <2>3
    <3>2. EndedBehind(toWorker, 0 + 1, s, i)
      BY <2>1, <3>1 DEF EndedBehind
    <3> QED  BY <1>4, <3>1, <3>2
  <2> QED  BY <2>2, <2>3
<1>6. EndedBehind(toWorker, 1, s, i) => EndedBehind(toWorker', 0, s, i)
  <2>1. 0 \in 0..(L - 1) /\ 0 + 1 = 1
    BY <1>2
  <2> QED  BY <1>4, <2>1
<1>7. \A n \in DOMAIN toWorker' :
        EndedBehind(toWorker, n + 1, s, i) => EndedBehind(toWorker', n, s, i)
  <2>1. \A n \in DOMAIN toWorker' : n \in 0..(L - 1)
    BY <1>2, <1>3
  <2> QED  BY <1>4, <2>1
<1> QED  BY <1>1, <1>2, <1>3, <1>5, <1>6, <1>7

LEMMA SentEndShifts ==
  ASSUME TypeInv, NEW type, Handling(type), NEW s \in Slides, NEW i \in Inputs, SentEnd(s, i)
  PROVE  SentEnd(s, i)'
<1> SUFFICES ASSUME NEW n \in DOMAIN toWorker', toWorker'[n].type = "FrameBegin",
                    NEW k \in DOMAIN toWorker'[n].events[s], toWorker'[n].events[s][k] = Press(i)
             PROVE  \/ EndedAfter(toWorker'[n].events[s], k, i)
                    \/ EndedBehind(toWorker', n, s, i) \/ EndedIn(view'.events[s], i)
  BY DEF SentEnd, EndedAfter, EndedBehind, EndedIn, Ends, Press
<1>1. n + 1 \in DOMAIN toWorker /\ toWorker'[n] = toWorker[n + 1] /\ view' = view
  BY Shifted DEF Handling
<1>2. \/ EndedAfter(toWorker[n + 1].events[s], k, i)
      \/ EndedBehind(toWorker, n + 1, s, i) \/ EndedIn(view.events[s], i)
  BY <1>1 DEF SentEnd
<1>3. EndedBehind(toWorker, n + 1, s, i) => EndedBehind(toWorker', n, s, i)
  BY Shifted
<1> QED  BY <1>1, <1>2, <1>3

(* Other requests tell the slides nothing.                                 *)
LEMMA OtherTakenHeld ==
  ASSUME TypeInv, HeldInv, NEW type, Handling(type), type # "FrameBegin", lost' = lost,
         worker'.down = worker.down
  PROVE  HeldInv'
<1> SUFFICES ASSUME NEW s \in Slides, NEW i \in Inputs, ~ Fine(s, i)' PROVE Told(s, i)'
  BY DEF HeldInv
<1>1. UNCHANGED <<user, view>>
  BY DEF Handling
<1>2. Told(s, i)
  BY <1>1 DEF Fine, HeldInv
<1>3. SentEnd(s, i)'
  BY <1>2, SentEndShifts DEF Told
<1>4. GatheredEnd(s, i)'
  BY <1>1, <1>2 DEF Told, GatheredEnd, EndedAfter
<1>5. EndedBehind(toWorker, 0, s, i) => EndedBehind(toWorker', 0, s, i)
  BY Shifted
<1>6. (i \in worker.down[s] => EndComes(s, i))'
  <2> SUFFICES ASSUME i \in worker.down[s]
               PROVE  EndedBehind(toWorker', 0, s, i) \/ EndedIn(view'.events[s], i)
    BY DEF EndComes, EndedBehind, EndedIn, Ends
  <2> QED  BY <1>1, <1>2, <1>5 DEF Told, EndComes
<1> QED  BY <1>3, <1>4, <1>6 DEF Told

LEMMA RenderHeld ==
  ASSUME TypeInv, HeldInv, NEW use, HandleFrameBegin(use)
  PROVE  HeldInv'
<1> SUFFICES ASSUME NEW s \in Slides, NEW i \in Inputs, ~ Fine(s, i)' PROVE Told(s, i)'
  BY DEF HeldInv
<1> DEFINE m == Head(toWorker)
           R == {x \in m.inputs : HasContent(worker.src[x])}
<1>1. Handling("FrameBegin") /\ UNCHANGED <<user, view>>
  BY DEF HandleFrameBegin, Handling
<1>2. lost' = [x \in Slides |-> IF x \in R THEN lost[x] ELSE lost[x] \cup Releases(m.events[x])]
  BY DEF HandleFrameBegin
<1>3. PICK clears : \A x \in Slides :
        worker'.down[x] = IF x \in R THEN DownAfter(worker.down[x], m.events[x], clears) ELSE worker.down[x]
  <2>1. PICK src \in [R -> UNION {Rendered(worker.src[x], worker.names) : x \in R}],
             W \in IF Key \in scene.inputs THEN SUBSET R ELSE {{}},
             clears \in IF scene.inputs = {} THEN {FALSE} ELSE BOOLEAN :
          worker' = [worker EXCEPT
             !.src = [f \in Files |-> IF f \in R THEN src[f].src ELSE @[f]],
             !.ran = [x \in Slides |-> IF x \in R THEN src[x].run ELSE @[x]],
             !.down = [x \in Slides |-> IF x \in R THEN DownAfter(@[x], m.events[x], clears)
                                        ELSE @[x]],
             !.clipboard = IF use = "copy" THEN spent.copies + 1 ELSE @]
    BY Zenon DEF HandleFrameBegin
  <2>2. worker \in Workers
    BY DEF TypeInv
  <2> HIDE DEF R, m
  <2>3. worker'.down = [x \in Slides |-> IF x \in R THEN DownAfter(worker.down[x], m.events[x], clears)
                                         ELSE worker.down[x]]
    BY <2>1, <2>2 DEF Workers
  <2> QED  BY <2>3
<1>4. m.events[s] \in Seq(Events)
  BY <1>1, HandledTyped, RequestFields
<1>5. Told(s, i)
  <2>1. lost[s] \subseteq lost'[s]
    BY <1>2
  <2> QED  BY <1>1, <2>1 DEF Fine, HeldInv
<1> HIDE DEF R
<1>6. SentEnd(s, i)'
  BY <1>1, <1>5, SentEndShifts DEF Told
<1>7. GatheredEnd(s, i)'
  BY <1>1, <1>5 DEF Told, GatheredEnd, EndedAfter
<1>8. /\ EndedBehind(toWorker, 0, s, i) => EndedIn(m.events[s], i) \/ EndedBehind(toWorker', 0, s, i)
      /\ EndedBehind(toWorker, 1, s, i) => EndedBehind(toWorker', 0, s, i)
      /\ 1 \in DOMAIN toWorker /\ toWorker[1] = m /\ m.type = "FrameBegin"
  BY <1>1, Shifted
<1>9. (i \in worker.down[s] => EndComes(s, i))'
  <2> SUFFICES ASSUME i \in worker'.down[s]
               PROVE  EndedBehind(toWorker', 0, s, i) \/ EndedIn(view.events[s], i)
    BY <1>1 DEF EndComes, EndedBehind, EndedIn, Ends
  <2>1. CASE s \notin R
    <3>1. i \notin Releases(m.events[s]) /\ i \in worker.down[s]
      BY <1>2, <1>3, <2>1 DEF Fine
    <3>2. ~ EndedIn(m.events[s], i)
      BY <3>1 DEF Releases, EndedIn
    <3> QED  BY <1>5, <1>8, <3>1, <3>2 DEF Told, EndComes
  <2>2. CASE s \in R
    <3>1. i \in DownAfter(worker.down[s], m.events[s], clears)
      BY <1>3, <2>2
    <3>2. CASE i \in worker.down[s] /\ ~ EndedIn(m.events[s], i)
      BY <1>5, <1>8, <3>2 DEF Told, EndComes
    <3>3. CASE \E k \in DOMAIN m.events[s] : m.events[s][k] = Press(i) /\ ~ EndedAfter(m.events[s], k, i)
      BY <1>5, <1>8, <3>3 DEF Told, SentEnd
    <3> QED  BY <1>4, <3>1, <3>2, <3>3, DownFacts
  <2> QED  BY <2>1, <2>2
<1> QED  BY <1>6, <1>7, <1>9 DEF Told

(* Nothing about the inputs changes, and no frame is sent.                 *)
LEMMA StaysHeld ==
  ASSUME HeldInv, UNCHANGED <<user, lost>>,
         view'.hovered = view.hovered, view'.drag = view.drag, view'.events = view.events,
         worker'.down = worker.down,
         \A n \in DOMAIN toWorker : n \in DOMAIN toWorker' /\ toWorker'[n] = toWorker[n],
         \A n \in DOMAIN toWorker' : toWorker'[n].type = "FrameBegin" => n \in DOMAIN toWorker
  PROVE  HeldInv'
<1> SUFFICES ASSUME NEW s \in Slides, NEW i \in Inputs, ~ Fine(s, i)' PROVE Told(s, i)'
  BY DEF HeldInv
<1>1. Told(s, i)
  BY DEF Fine, HeldInv
<1>2. \A n : EndedBehind(toWorker, n, s, i) => EndedBehind(toWorker', n, s, i)
  BY DEF EndedBehind
<1>3. GatheredEnd(s, i)'
  BY <1>1 DEF Told, GatheredEnd, EndedAfter
<1>4. (i \in worker.down[s] => EndComes(s, i))'
  <2> SUFFICES ASSUME i \in worker.down[s]
               PROVE  EndedBehind(toWorker', 0, s, i) \/ EndedIn(view.events[s], i)
    BY DEF EndComes, EndedBehind, EndedIn, Ends
  <2> QED  BY <1>1, <1>2 DEF Told, EndComes
<1>5. SentEnd(s, i)'
  <2> SUFFICES ASSUME NEW n \in DOMAIN toWorker', toWorker'[n].type = "FrameBegin",
                      NEW k \in DOMAIN toWorker'[n].events[s], toWorker'[n].events[s][k] = Press(i)
               PROVE  \/ EndedAfter(toWorker'[n].events[s], k, i)
                      \/ EndedBehind(toWorker', n, s, i) \/ EndedIn(view'.events[s], i)
    BY DEF SentEnd, EndedAfter, EndedBehind, EndedIn, Ends, Press
  <2>1. n \in DOMAIN toWorker /\ toWorker'[n] = toWorker[n]
    OBVIOUS
  <2> QED  BY <1>1, <1>2, <2>1 DEF Told, SentEnd
<1> QED  BY <1>3, <1>4, <1>5 DEF Told

LEMMA HeldInit == Init => HeldInv
<1> SUFFICES ASSUME Init, NEW s \in Slides, NEW i \in Inputs PROVE Told(s, i)
  BY DEF HeldInv
<1>1. worker.down[s] = {} /\ toWorker = <<>> /\ view.events[s] = <<>>
  BY DEF Init, FreshWorker, FreshView, NoEvents
<1> QED  BY <1>1 DEF Told, SentEnd, GatheredEnd

LEMMA HeldNext == TypeInv /\ HeldInv /\ [Next /\ UNCHANGED scene]_<<vars, scene>> => HeldInv'
<1> SUFFICES ASSUME TypeInv, HeldInv, [Next /\ UNCHANGED scene]_<<vars, scene>> PROVE HeldInv'
  OBVIOUS
<1>1. CASE UNCHANGED <<user, view, worker, toWorker, lost>>
  BY <1>1, StaysHeld
<1>2. CASE (\E f \in DOMAIN file, k \in scene.kinds : Execute(f, k)) \/ Copy \/ Spawn \/ Crash
  BY <1>1, <1>2 DEF Execute, Copy, Spawn, Crash
<1>3. CASE UserFrame \/ IdleFrame
  BY <1>3, FramesAre, FrameKeepsHeld
<1>4. CASE RecvCompileResult \/ RecvClipboardData
  BY <1>1, <1>4 DEF RecvCompileResult, RecvClipboardData, Receiving
<1>5. CASE RecvFrameDone
  <2>1. /\ UNCHANGED <<user, worker, toWorker, lost>>
        /\ \E W : view' = [view EXCEPT !.outstanding = FALSE, !.wants = W]
    BY <1>5 DEF RecvFrameDone, Receiving
  <2>2. view \in Views
    BY DEF TypeInv
  <2>3. view'.hovered = view.hovered /\ view'.drag = view.drag /\ view'.events = view.events
    BY <2>1, <2>2 DEF Views
  <2> QED  BY <2>1, <2>3, StaysHeld
<1>6. CASE RecvClipboardRequest
  <2>1. /\ UNCHANGED <<user, view, worker, lost>>
        /\ toWorker' = toWorker \/ toWorker' = toWorker \o <<ClipboardData(clip)>>
    BY <1>6 DEF RecvClipboardRequest, Receiving, Answer
  <2>2. CASE toWorker' = toWorker
    BY <1>1, <2>1, <2>2
  <2>3. CASE toWorker' = toWorker \o <<ClipboardData(clip)>>
    <3>1. PICK d \in Requests : d = ClipboardData(clip) /\ d.type = "ClipboardData"
      BY MessagesTyped DEF TypeInv, ClipboardData
    <3>2. toWorker \in Seq(Requests) /\ toWorker' = Append(toWorker, d)
      BY <2>3, <3>1 DEF TypeInv
    <3>3. /\ \A n \in DOMAIN toWorker : n \in DOMAIN toWorker' /\ toWorker'[n] = toWorker[n]
          /\ \A n \in DOMAIN toWorker' : n \in DOMAIN toWorker \/ toWorker'[n] = d
      BY <3>2
    <3> QED  BY <2>1, <3>1, <3>3, StaysHeld
  <2> QED  BY <2>1, <2>2, <2>3
<1>7. CASE Reap
  <2>1. /\ UNCHANGED <<user, lost>> /\ toWorker' = <<>> /\ worker' = FreshWorker
        /\ view' = [view EXCEPT !.outstanding = FALSE]
    BY <1>7 DEF Reap
  <2>2. view'.hovered = view.hovered /\ view'.drag = view.drag /\ view'.events = view.events
    BY <2>1 DEF TypeInv, Views
  <2>3. \A s \in Slides : worker'.down[s] = {}
    BY <2>1 DEF FreshWorker
  <2> SUFFICES ASSUME NEW s \in Slides, NEW i \in Inputs, ~ Fine(s, i)' PROVE Told(s, i)'
    BY DEF HeldInv
  <2>4. Told(s, i)
    BY <2>1, <2>2 DEF Fine, HeldInv
  <2>5. GatheredEnd(s, i)'
    BY <2>2, <2>4 DEF Told, GatheredEnd, EndedAfter
  <2>6. SentEnd(s, i)'
    BY <2>1 DEF SentEnd
  <2> QED  BY <2>3, <2>5, <2>6 DEF Told
<1>8. CASE HandleSetSource
  <2>1. Handling("SetSource") /\ lost' = lost /\ \E S, N : worker' = [worker EXCEPT !.src = S, !.names = N]
    <3>1. worker \in Workers
      BY DEF TypeInv
    <3>2. \E f, d, N : worker' = [worker EXCEPT !.src[f] = d, !.names = N]
      BY <1>8 DEF HandleSetSource
    <3>3. Handling("SetSource") /\ lost' = lost
      BY <1>8 DEF HandleSetSource
    <3> QED  BY <3>1, <3>2, <3>3 DEF Workers
  <2>2. worker'.down = worker.down
    BY <2>1 DEF TypeInv, Workers
  <2> QED  BY <2>1, <2>2, OtherTakenHeld
<1>9. CASE HandleClipboardData
  <2>1. Handling("ClipboardData") /\ lost' = lost /\ \E v : worker' = [worker EXCEPT !.clipboard = v]
    BY <1>9 DEF HandleClipboardData
  <2>2. worker'.down = worker.down
    BY <2>1 DEF TypeInv, Workers
  <2> QED  BY <2>1, <2>2, OtherTakenHeld
<1>10. ASSUME NEW use \in Clipboards, HandleFrameBegin(use)
       PROVE  HeldInv'
  BY <1>10, RenderHeld
<1>11. CASE UNCHANGED <<vars, scene>>
  BY <1>1, <1>11 DEF vars
<1> QED  BY <1>2, <1>3, <1>4, <1>5, <1>6, <1>7, <1>8, <1>9, <1>10, <1>11 DEF Next, Recv, Work

LEMMA HeldAlways == Spec => [](TypeInv /\ HeldInv)
<1>1. Init => TypeInv /\ HeldInv
  BY TypedInit, HeldInit
<1>2. TypeInv /\ HeldInv /\ [Next /\ UNCHANGED scene]_<<vars, scene>> => (TypeInv /\ HeldInv)'
  BY TypedNext, HeldNext
<1> QED  BY <1>1, <1>2, PTL DEF Spec

LEMMA EndIsOnItsWay ==
  ASSUME HeldInv, NEW s \in Slides, NEW i \in Inputs, i \in worker.down[s]
  PROVE  Fine(s, i) \/ OnItsWay(s, i)
<1>1. EndedIn(view.events[s], i) => i \in Releases(view.events[s])
  BY DEF EndedIn, Releases
<1>2. EndedBehind(toWorker, 0, s, i) =>
        \E n \in DOMAIN toWorker : toWorker[n].type = "FrameBegin" /\ i \in Releases(toWorker[n].events[s])
  BY DEF EndedBehind, EndedIn, Releases
<1> QED  BY <1>1, <1>2 DEF HeldInv, Told, EndComes, OnItsWay

(* A button that is down in a slide's own ImGui is one the user holds, or  *)
(* its release is in the view's events or in a frame on its way, unless it *)
(* was lost in one of the ways the code has to lose it (SlideView.cpp:67,  *)
(* 98-107, RemoteEngine.cpp:456-482).                                      *)
THEOREM NoButtonSticks == Spec => []NoStuckButton
<1>1. HeldInv => NoStuckButton
  <2> SUFFICES ASSUME HeldInv, NEW s \in Slides, NEW b \in Buttons, b \in worker.down[s]
               PROVE  b \in user.held \/ OnItsWay(s, b) \/ b \in lost[s]
    BY DEF NoStuckButton
  <2>1. b \in Inputs
    BY DEF Inputs
  <2> QED  BY <2>1, EndIsOnItsWay DEF Fine
<1> QED  BY <1>1, HeldAlways, PTL

(* A key that is down in a slide is held over a slide the view knows as    *)
(* hovered, or its release or the loss of the focus is on its way, unless  *)
(* that was lost: a slide that the cursor has left hears of it             *)
(* (SlideView.cpp:69-95).                                                  *)
THEOREM KeysFollowFocus == Spec => []KeyFollowsFocus
<1>1. HeldInv => KeyFollowsFocus
  <2> SUFFICES ASSUME HeldInv, NEW s \in Slides, Key \in worker.down[s]
               PROVE  (Key \in user.held /\ s \in view.hovered) \/ OnItsWay(s, Key) \/ Key \in lost[s]
    BY DEF KeyFollowsFocus
  <2>1. Key \in Inputs
    BY DEF Inputs
  <2> QED  BY <2>1, EndIsOnItsWay DEF Fine
<1> QED  BY <1>1, HeldAlways, PTL
=============================================================================
