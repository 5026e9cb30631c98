---------------------------- MODULE SlideSession -----------------------------
(***************************************************************************)
(* What a slide shows and what it is told: the interpreter (Interpreter)   *)
(* behind the socket, the input SlideView gathers for it, and the          *)
(* clipboard the two processes share.                                      *)
(*                                                                         *)
(* Frame is one UI frame after pump(): submitIfNeeded for every file,      *)
(* SlideView::draw for every slide in view, SlideView::endFrame.  toWorker *)
(* is the socket and the worker's queue behind it (both in order; at most  *)
(* one frame is outstanding, so the queue never replaces one).  That a     *)
(* buffer is free is FrameStream's matter, when a worker is killed and     *)
(* started SupervisorLogic's.                                              *)
(***************************************************************************)
EXTENDS Interpreter, Sequences, FiniteSets

CONSTANTS
  Slides,       \* slide indices
  Buttons,      \* mouse buttons
  EventLimit,   \* events a FrameBegin has room for
  Scenes        \* what may happen in a behaviour, see `scene`

Files == Slides \cup {Setup}
NoSlide == -2
Key == "key"
Inputs == Buttons \cup {Key}

ASSUME SessionAssumption ==
  /\ Slides \subseteq Nat /\ IsFiniteSet(Slides)
  /\ Key \notin Buttons
  /\ EventLimit \in Nat
  /\ Scenes \subseteq
       [first : UNION {[F -> Kinds] : F \in SUBSET Files}, kinds : SUBSET Kinds,
        views : SUBSET SUBSET Slides, inputs : SUBSET Inputs, edits : Nat, moves : Nat, copies : Nat, crashes : Nat]

VARIABLES
  scene,     \* never changes: the files with their first texts, the kinds the
             \* user types, the sets of slides that may be in view, the inputs
             \* used, and how often each thing may happen
  spent,     \* how often it has happened
  user,      \* the slides in view, the one under the cursor, what is held down
  file,      \* per file: its text, and how far its compile is
  view,      \* SlideView, and RemoteEngine's input state
  clip,      \* the system clipboard: the number of the copy it holds
  proc,      \* the worker process: "none", "running", "dead"
  worker,    \* the worker's memory
  toWorker, toMain,
  lost       \* history: per slide, the inputs whose release could not get there

vars == <<spent, user, file, view, clip, proc, worker, toWorker, toMain, lost>>

SetSource(f) == [type |-> "SetSource", file |-> f, text |-> file[f].text]
FrameBegin(in, ev) == [type |-> "FrameBegin", inputs |-> in, events |-> ev]
ClipboardData(c) == [type |-> "ClipboardData", clip |-> c]
ClipboardRequest == [type |-> "ClipboardRequest"]
CompileResult(f, t, sf) ==
  [type |-> "CompileResult", file |-> f, id |-> t.id,
   compiled |-> sf.compiled, syntax_error |-> sf.syntax_error]
FrameDone(R, W) == [type |-> "FrameDone", rendered |-> R, wants |-> W]

Press(i) == [input |-> i, down |-> TRUE]
Release(i) == [input |-> i, down |-> FALSE]
FocusLost == [input |-> "focus", down |-> FALSE]
NoChange == [input |-> "none", down |-> FALSE]

NoEvents == [s \in Slides |-> <<>>]
FreshView ==
  [hovered |-> {}, drag |-> NoSlide, events |-> NoEvents, wants |-> {},
   outstanding |-> FALSE, clipboard_focus |-> NoSlide]
FreshWorker ==
  [names |-> NoText, src |-> [f \in Files |-> FreshSource], clipboard |-> 0,
   down |-> [s \in Slides |-> {}], ran |-> [s \in Slides |-> NoRun]]

Smallest(S) == CHOOSE s \in S : \A r \in S : s <= r
Ascending(S) ==
  CHOOSE q \in [1..Cardinality(S) -> S] : \A i, j \in 1..Cardinality(S) : i < j => q[i] < q[j]

(* The user has just opened the folder: every file is to be compiled.      *)
Init ==
  /\ scene \in Scenes
  /\ spent = [edits |-> 0, moves |-> 0, copies |-> 0, crashes |-> 0]
  /\ user = [view |-> DOMAIN scene.first \ {Setup}, over |-> NoSlide, held |-> {}]
  /\ file = [f \in DOMAIN scene.first |-> [text |-> [id |-> <<f, 0>>, kind |-> scene.first[f]],
                                         state |-> "new"]]
  /\ view = FreshView /\ clip = 0
  /\ proc = "none" /\ worker = FreshWorker
  /\ toWorker = <<>> /\ toMain = <<>>
  /\ lost = [s \in Slides |-> {}]

May(what) == spent[what] < scene[what]
Spend(what) == spent' = [spent EXCEPT ![what] = @ + 1]

-----------------------------------------------------------------------------
(* The UI process. *)

(* Ctrl+Enter on a changed text.                                           *)
Execute(f, k) ==
  /\ May("edits") /\ Spend("edits")
  /\ file' = [file EXCEPT ![f] = [text |-> [id |-> <<f, spent.edits + 1>>, kind |-> k],
                                  state |-> "new"]]
  /\ UNCHANGED <<user, view, clip, proc, worker, toWorker, toMain, lost>>

(* A copy in the editor or in another program.                             *)
Copy ==
  /\ May("copies") /\ Spend("copies")
  /\ clip' = spent.copies + 1
  /\ UNCHANGED <<user, file, view, proc, worker, toWorker, toMain, lost>>

(* What the user does before a UI frame: scroll, move, press, release.     *)
(* While the left button is down ImGui (external) lets only the window it  *)
(* was pressed in be hovered.                                              *)
Hoverable(V) == (IF "left" \in user.held THEN V \cap {view.drag} ELSE V) \cup {NoSlide}
Changes ==
  {Press(i) : i \in scene.inputs \ user.held} \cup {Release(i) : i \in user.held}
HeldAfter(c) == {i \in user.held : c # Release(i)} \cup {i \in Inputs : c = Press(i)}
IsPress(c) == c.down /\ c.input \in Buttons
IsRelease(c) == ~ c.down /\ c.input \in Buttons

(* SlideView::draw.  The slide under the cursor gets button presses, and   *)
(* keys if its last frame wanted them; the one the cursor has left is told *)
(* so; a slide out of view is not drawn and keeps its hovered flag.        *)
(* (Mutants: the cursor leaves without a word; it is always over a slide.) *)
DrawEventsOver(V, over, c, s) ==
  IF s = over /\ (IsPress(c) \/ (c.input = Key /\ s \in view.wants)) THEN <<c>> ELSE <<>>
DrawEvents(V, over, c, s) ==
  IF s \in (V \cap view.hovered) \ {over} THEN <<FocusLost>> ELSE DrawEventsOver(V, over, c, s)
HoveredAnything(V, over) == (view.hovered \ V) \cup {over}
HoveredAfter(V, over) == (view.hovered \ V) \cup (V \cap {over})

(* SlideView::endFrame.  The slide pressed last owns the buttons: it gets  *)
(* their releases, and input while the cursor is off it.  (Mutant: the     *)
(* releases go to the slide under the cursor.)                             *)
DragAfter(over, c) == IF IsPress(c) /\ over # NoSlide THEN over ELSE view.drag
ReleaseToHovered(over, c) == IF IsRelease(c) THEN {over} ELSE {}
ReleaseTo(over, c) == IF IsRelease(c) THEN {view.drag} ELSE {}
Held(c) == HeldAfter(c) \cap Buttons # {}
Fed(V, over, c) ==
  IF Held(c) THEN {DragAfter(over, c)} \ (HoveredAfter(V, over) \cup {NoSlide}) ELSE {}

Gathered(V, over, c) ==
  [s \in Slides |-> view.events[s] \o DrawEvents(V, over, c, s)
                    \o (IF s \in ReleaseTo(over, c) THEN <<c>> ELSE <<>>)]

(* RemoteEngine::endFrame.  Events wait while no frame can be sent, and    *)
(* are dropped when nothing is in view or they are too many.               *)
TooMany(ev) == EventLimit < Cardinality(UNION {{s} \X DOMAIN ev[s] : s \in Slides})
BeginsFrame(in, ev) ==
  proc = "running" /\ ~ view.outstanding /\ in # {} /\ ~ TooMany(ev)
DropsEvents(in, ev) ==
  proc # "none" /\ ~ view.outstanding /\ (in = {} \/ TooMany(ev))

(* The inputs that a sequence of events releases.                          *)
Ends(e, i) == e = Release(i) \/ (e = FocusLost /\ i = Key)
Releases(q) == {i \in Inputs : \E n \in DOMAIN q : Ends(q[n], i)}

(* What is lost, whatever happens next: the release of a button when       *)
(* another one is pressed on another slide; the release of a key when its  *)
(* slide wants no keys any more or was scrolled away; what is dropped.     *)
LostAfter(V, over, c, s) ==
  LET ev == Gathered(V, over, c)
      pressed == {i \in Inputs : c = Press(i) /\ s = over}
      stolen == IF IsPress(c) /\ over # NoSlide /\ s # over THEN user.held \cap Buttons ELSE {}
      ignored == IF c = Release(Key) /\ s \in HoveredAfter(V, over) /\ ~ (s = over /\ s \in view.wants)
                 THEN {Key} ELSE {}
      dropped == IF DropsEvents(V \cup Fed(V, over, c), ev) THEN Releases(ev[s]) ELSE {}
  IN  (lost[s] \ pressed) \cup stolen \cup ignored \cup dropped

ToSend == IF proc = "running" THEN {f \in DOMAIN file : file[f].state = "new"} ELSE {}
Sources == [i \in 1..Cardinality(ToSend) |-> SetSource(Ascending(ToSend)[i])]

Focus(focused) == IF focused = {} THEN NoSlide ELSE Smallest(focused)
Pushes(focus) ==
  IF proc = "running" /\ focus \notin {NoSlide, view.clipboard_focus}
  THEN <<ClipboardData(clip)>> ELSE <<>>

Frame(V, over, c) ==
  LET ev == Gathered(V, over, c)
      fed == Fed(V, over, c)
      in == V \cup fed
      focus == Focus((V \cap {over}) \cup fed)
      begins == BeginsFrame(in, ev)
  IN  /\ user' = [view |-> V, over |-> over, held |-> HeldAfter(c)]
      /\ file' = [f \in DOMAIN file |-> IF f \in ToSend THEN [file[f] EXCEPT !.state = "sent"] ELSE file[f]]
      /\ view' = [view EXCEPT
           !.hovered = HoveredAfter(V, over),
           !.drag = IF Held(c) THEN DragAfter(over, c) ELSE NoSlide,
           !.events = IF begins \/ DropsEvents(in, ev) THEN NoEvents ELSE ev,
           !.outstanding = @ \/ begins,
           !.clipboard_focus = focus]
      /\ toWorker' = toWorker \o Sources \o Pushes(focus)
                     \o (IF begins THEN <<FrameBegin(in, ev)>> ELSE <<>>)
      /\ lost' = [s \in Slides |-> LostAfter(V, over, c, s)]
      /\ UNCHANGED <<clip, proc, worker, toMain>>

IdleFrame == Frame(user.view, user.over, NoChange) /\ UNCHANGED spent

UserFrame ==
  /\ May("moves") /\ Spend("moves")
  /\ \E V \in scene.views, c \in Changes \cup {NoChange} : \E over \in Hoverable(V) :
       /\ <<V, over, c>> # <<user.view, user.over, NoChange>>
       /\ Frame(V, over, c)

-----------------------------------------------------------------------------
(* pump(): what the UI process receives, and its worker's death.           *)

Receiving(type) ==
  /\ proc # "none" /\ toMain # <<>> /\ Head(toMain).type = type
  /\ toMain' = Tail(toMain)
  /\ UNCHANGED <<spent, user, proc, worker, lost>>

(* A result of a text the user has replaced is stale.                      *)
RecvCompileResult ==
  /\ Receiving("CompileResult")
  /\ LET m == Head(toMain)
         now == IF m.syntax_error THEN "error" ELSE IF m.compiled THEN "compiled" ELSE "new"
     IN  file' = IF file[m.file].state = "sent" /\ file[m.file].text.id = m.id
                 THEN [file EXCEPT ![m.file].state = now] ELSE file
  /\ UNCHANGED <<view, clip, toWorker>>

(* The wishes of a slide that was not rendered stay what they were.        *)
RecvFrameDone ==
  /\ Receiving("FrameDone")
  /\ LET m == Head(toMain)
     IN  view' = [view EXCEPT !.outstanding = FALSE, !.wants = (@ \ m.rendered) \cup m.wants]
  /\ UNCHANGED <<file, clip, toWorker>>

(* The worker pasted: it gets the clipboard as it is now.  (Mutant: the    *)
(* clipboard is pushed on focus only.)                                     *)
NoAnswer == <<>>
Answer == <<ClipboardData(clip)>>
RecvClipboardRequest ==
  /\ Receiving("ClipboardRequest")
  /\ toWorker' = IF proc = "running" THEN toWorker \o Answer ELSE toWorker
  /\ UNCHANGED <<file, view, clip>>

RecvClipboardData ==
  /\ Receiving("ClipboardData")
  /\ clip' = Head(toMain).clip
  /\ UNCHANGED <<file, view, toWorker>>

Recv ==
  \/ RecvCompileResult \/ RecvFrameDone
  \/ RecvClipboardRequest \/ RecvClipboardData

(* What was down in the dead worker's slides is forgotten with them; a     *)
(* file that was compiling may be blamed, and then stays out.              *)
Reap ==
  /\ proc = "dead" /\ proc' = "none"
  /\ toWorker' = <<>> /\ toMain' = <<>>
  /\ view' = [view EXCEPT !.outstanding = FALSE]
  /\ \E blamed \in SUBSET {f \in DOMAIN file : file[f].state = "sent"} :
       /\ Cardinality(blamed) <= 1
       /\ file' = [f \in DOMAIN file |-> IF f \in blamed THEN [file[f] EXCEPT !.state = "error"] ELSE file[f]]
  /\ worker' = FreshWorker
  /\ UNCHANGED <<spent, user, clip, lost>>

Spawn ==
  /\ proc = "none" /\ proc' = "running"
  /\ file' = [f \in DOMAIN file |-> IF file[f].state = "error" THEN file[f] ELSE [file[f] EXCEPT !.state = "new"]]
  /\ UNCHANGED <<spent, user, view, clip, worker, toWorker, toMain, lost>>

-----------------------------------------------------------------------------
(* The worker's work thread. *)

Handling(type) ==
  /\ proc = "running" /\ toWorker # <<>> /\ Head(toWorker).type = type
  /\ toWorker' = Tail(toWorker)
  /\ UNCHANGED <<user, file, view, clip, proc>>

HandleSetSource ==
  /\ Handling("SetSource")
  /\ LET m == Head(toWorker)
         sf == worker.src[m.file]
         done == IF m.file = Setup THEN SetupCompiled(sf, m.text) ELSE SlideCompiled(sf, m.text)
     IN  /\ worker' = [worker EXCEPT !.src[m.file] = done, !.names = NamesAfter(@, m.text)]
         /\ toMain' = Append(toMain, CompileResult(m.file, m.text, done))
  /\ UNCHANGED <<spent, lost>>

HandleClipboardData ==
  /\ Handling("ClipboardData")
  /\ worker' = [worker EXCEPT !.clipboard = Head(toWorker).clip]
  /\ UNCHANGED <<spent, toMain, lost>>

(* What a slide's own ImGui makes of the events (external): losing the     *)
(* focus clears the keys, and in some versions the buttons.                *)
About(e, i, clears) == e.input = i \/ (e = FocusLost /\ (i = Key \/ clears))
DownAfter(down, q, clears) ==
  {i \in Inputs :
     LET told == {n \in DOMAIN q : About(q[n], i, clears)}
     IN  IF told = {} THEN i \in down ELSE q[CHOOSE n \in told : \A k \in told : k <= n].down}

(* handleFrameBegin: slides without content are not rendered, and their    *)
(* events go nowhere.  One rendered slide may paste (the cache is served,  *)
(* fresh text asked for) or copy.                                          *)
Clipboards == {"untouched", "paste", "copy"}
Copies(use) == IF use = "copy" THEN May("copies") /\ Spend("copies") ELSE UNCHANGED spent
ClipboardSent(use) ==
  CASE use = "paste" -> <<ClipboardRequest>>
    [] use = "copy" -> <<ClipboardData(spent.copies + 1)>>
    [] OTHER -> <<>>

HandleFrameBegin(use) ==
  /\ Handling("FrameBegin")
  /\ LET m == Head(toWorker)
         R == {s \in m.inputs : HasContent(worker.src[s])}
     IN  /\ use = "untouched" \/ R # {}
         /\ \E src \in [R -> UNION {Rendered(worker.src[s], worker.names) : s \in R}],
               W \in IF Key \in scene.inputs THEN SUBSET R ELSE {{}},
               clears \in IF scene.inputs = {} THEN {FALSE} ELSE BOOLEAN :
              /\ \A s \in R : src[s] \in Rendered(worker.src[s], worker.names)
              /\ worker' = [worker EXCEPT
                   !.src = [f \in Files |-> IF f \in R THEN src[f].src ELSE @[f]],
                   !.ran = [s \in Slides |-> IF s \in R THEN src[s].run ELSE @[s]],
                   !.down = [s \in Slides |-> IF s \in R THEN DownAfter(@[s], m.events[s], clears)
                                              ELSE @[s]],
                   !.clipboard = IF use = "copy" THEN spent.copies + 1 ELSE @]
              /\ toMain' = toMain \o ClipboardSent(use) \o <<FrameDone(R, W)>>
         /\ lost' = [s \in Slides |-> IF s \in R THEN lost[s] ELSE lost[s] \cup Releases(m.events[s])]
  /\ Copies(use)

Work == HandleSetSource \/ HandleClipboardData \/ \E use \in Clipboards : HandleFrameBegin(use)

Crash ==
  /\ proc = "running" /\ May("crashes") /\ Spend("crashes")
  /\ proc' = "dead"
  /\ UNCHANGED <<user, file, view, clip, worker, toWorker, toMain, lost>>

-----------------------------------------------------------------------------
Next ==
  \/ \E f \in DOMAIN file, k \in scene.kinds : Execute(f, k)
  \/ Copy \/ UserFrame \/ IdleFrame
  \/ Recv \/ Reap \/ Spawn
  \/ Work \/ Crash

Spec == Init /\ [][Next /\ UNCHANGED scene]_<<vars, scene>>

(* The UI loop keeps drawing, reading its socket and minding its worker,   *)
(* the worker keeps working.                                               *)
FairSpec ==
  /\ Spec
  /\ WF_vars(IdleFrame) /\ WF_vars(Recv) /\ WF_vars(Reap) /\ WF_vars(Spawn)
  /\ WF_vars(Work)

-----------------------------------------------------------------------------
(* Properties *)

(* Type invariant of the state both processes keep for the slides          *)
(* (SlideView.h:29-38, RemoteEngine.h:148-155, WorkerApp.h:80-112).        *)
TypeOK ==
  /\ user \in [view : SUBSET Slides, over : Slides \cup {NoSlide}, held : SUBSET Inputs]
  /\ file \in [DOMAIN scene.first -> [text : Texts, state : {"new", "sent", "compiled", "error"}]]
  /\ view.hovered \subseteq Slides /\ view.wants \subseteq Slides
  /\ view.drag \in Slides \cup {NoSlide} /\ view.clipboard_focus \in Slides \cup {NoSlide}
  /\ view.outstanding \in BOOLEAN
  /\ proc \in {"none", "running", "dead"}
  /\ worker.names \in Ids \cup {NoText}
  /\ worker.src \in [Files -> SourceStates]
  /\ worker.ran \in [Slides -> Runs \cup {NoRun}]
  /\ worker.down \in [Slides -> SUBSET Inputs]
  /\ lost \in [Slides -> SUBSET Inputs]

(* A slide never runs the callable of another slide, and a callable with a *)
(* name keeps the names of its own text, however many slides use the same  *)
(* name, in whatever order they are compiled and first rendered            *)
(* (ClingEngine.cpp:344-373, 398-419: the alias bound at compile time).    *)
RendersOwnCode ==
  \A s \in Slides :
    worker.ran[s] # NoRun =>
      /\ worker.ran[s].code[1] = s
      /\ ~ worker.ran[s].literal => worker.ran[s].names = worker.ran[s].code

(* What ClingEngine.cpp:380-382 says of a lambda literal: other slides     *)
(* cannot shadow anything in it, so it may be parsed again when it is      *)
(* rendered.                                                               *)
LiteralKeepsItsNames ==
  \A s \in Slides : worker.ran[s] # NoRun => worker.ran[s].names[1] = s

(* A mouse button is down in a slide only as long as the user holds it,    *)
(* the release is on its way, or the release was lost to one of the causes *)
(* LostAfter names (SlideView.cpp:67, 98-107, RemoteEngine.cpp:456-482).   *)
OnItsWay(s, i) ==
  \/ i \in Releases(view.events[s])
  \/ \E n \in DOMAIN toWorker :
       toWorker[n].type = "FrameBegin" /\ i \in Releases(toWorker[n].events[s])
NoStuckButton ==
  \A s \in Slides, b \in Buttons :
    b \in worker.down[s] /\ proc = "running" =>
      b \in user.held \/ OnItsWay(s, b) \/ b \in lost[s]

(* A key is down in a slide only as long as the user holds it over that    *)
(* slide, what ends it is on its way, or it was lost to one of the causes  *)
(* LostAfter names (SlideView.cpp:69-95).                                  *)
KeyFollowsFocus ==
  \A s \in Slides :
    Key \in worker.down[s] /\ proc = "running" =>
      (Key \in user.held /\ s \in view.hovered) \/ OnItsWay(s, Key) \/ Key \in lost[s]

(* If slides keep pasting, what they paste is in the end what the system   *)
(* clipboard holds, whatever copies crossed on the socket and however many *)
(* workers died (Protocol.h:141-148, WorkerApp.cpp:61-68: a stale cache    *)
(* heals for the next paste).                                              *)
PasteCatchesUp ==
  []<><<HandleFrameBegin("paste")>>_vars => <>[](worker.clipboard = clip)

(* A slide that stays in view comes to run its newest text, once that is   *)
(* one it can run (WorkerApp.cpp:156-215, 275, ClingEngine.cpp:398-419).   *)
LatestTextRuns ==
  \A s \in Slides :
    <>[](s \in user.view /\ s \in DOMAIN file /\ file[s].text.kind = "named" /\ file[s].state # "error") =>
      <>[](worker.ran[s] # NoRun /\ worker.ran[s].code = file[s].text.id)
=============================================================================
