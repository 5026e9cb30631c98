---------------------------- MODULE Interpreter -----------------------------
(***************************************************************************)
(* ClingEngine: what compiling a source file and rendering a slide do to   *)
(* the one interpreter all files share, as operators on the state of a     *)
(* SourceFile and on the names the interpreter knows.                      *)
(*                                                                         *)
(* A text is [id, kind], its id the file and the revision.  All texts      *)
(* define the same names (every slide of documents/ calls its callable     *)
(* `update`); with redefinition allowed, a name means what the last text   *)
(* that ran made of it, so the interpreter's names are the id of that      *)
(* text.  A run is the text whose callable runs, the text whose names it   *)
(* uses, and whether it is a lambda literal.                               *)
(***************************************************************************)
EXTENDS Integers

Setup == -1

(* What the interpreter makes of a text: not complete input, a compile     *)
(* error, an exception while its statements run, a value it can only       *)
(* print, a name bound to a callable, a name bound to something that takes *)
(* arguments, a lambda literal.                                            *)
Kinds == {"incomplete", "bad", "throws", "value", "named", "uncallable", "literal"}
Ids == Int \X Nat
Texts == [id : Ids, kind : Kinds]

NoText == <<>>
NoRun == <<>>
Runs == [code : Ids, names : Ids, literal : BOOLEAN]

(* function: how the slide's render function calls its code; bound: the    *)
(* text whose callable it calls; tx: the cached render transaction.        *)
SourceStates ==
  [compiled : BOOLEAN, syntax_error : BOOLEAN, value : BOOLEAN,
   bound : Ids \cup {NoText}, function : {"none", "alias", "uncallable", "literal"},
   tx : Runs \cup {NoRun}]
FreshSource ==
  [compiled |-> FALSE, syntax_error |-> FALSE, value |-> FALSE, bound |-> NoText,
   function |-> "none", tx |-> NoRun]

(* execute() resets the flags and leaves what was compiled before.         *)
Executed(sf) == [sf EXCEPT !.compiled = FALSE, !.syntax_error = FALSE]

(* Incomplete input never reaches the interpreter, a failed transaction is *)
(* unloaded; everything else has redefined the names when it is over.      *)
NamesAfter(names, t) == IF t.kind \in {"incomplete", "bad"} THEN names ELSE t.id

Unfinished(sf) == Executed(sf)
Compiled(sf, t) ==
  [sf EXCEPT !.compiled = TRUE, !.syntax_error = (t.kind = "bad"),
             !.function = "none", !.bound = NoText, !.value = FALSE]

(* compileSetup: declared at global scope, never rendered.                 *)
SetupCompiled(sf, t) ==
  IF t.kind \in {"incomplete", "throws"} THEN Unfinished(sf) ELSE Compiled(sf, t)

(* compileSlide: a callable is bound at once to an alias of the slide when *)
(* it has a name, else its text is kept to be parsed again by the first    *)
(* render; what is not callable is printed.                                *)
RenderFunction(t) ==
  CASE t.kind = "named" -> "alias"
    [] t.kind = "uncallable" -> "uncallable"
    [] t.kind = "literal" -> "literal"
    [] OTHER -> "none"

(* A new callable is evaluated anew.  (Mutant: the transaction that runs   *)
(* the one before stays cached.)                                           *)
BoundKeepsTx(sf, t) == [sf EXCEPT !.function = RenderFunction(t), !.bound = t.id]
Bound(sf, t) == [sf EXCEPT !.function = RenderFunction(t), !.bound = t.id, !.tx = NoRun]

SlideCompiled(sf, t) ==
  CASE t.kind \in {"incomplete", "throws"} -> Unfinished(sf)
    [] RenderFunction(t) # "none" -> Bound(Compiled(sf, t), t)
    [] OTHER -> [Compiled(sf, t) EXCEPT !.value = (t.kind = "value")]

HasContent(sf) == sf.function # "none" \/ sf.value

(* What a render runs: the cached transaction; else the alias, which means *)
(* what it was bound to; else the literal, with the names of now.          *)
(* (Mutant: every name is looked up at the first render.)                  *)
Run(code, names, literal) == [code |-> code, names |-> names, literal |-> literal]
EvaluatedLazily(sf, names) ==
  IF sf.tx # NoRun THEN sf.tx ELSE Run(names, names, sf.function = "literal")
Evaluated(sf, names) ==
  CASE sf.tx # NoRun -> sf.tx
    [] sf.tx = NoRun /\ sf.function = "literal" -> Run(sf.bound, names, TRUE)
    [] OTHER -> Run(sf.bound, sf.bound, FALSE)

(* The first evaluation fails when the alias takes arguments, and may fail *)
(* when the names of a literal have changed; the function is then dropped. *)
EvaluationFails(sf) == sf.tx = NoRun /\ sf.function = "uncallable"
EvaluationMayFail(sf, names) ==
  sf.tx = NoRun /\ sf.function = "literal" /\ names # sf.bound
Dropped(sf) == [sf EXCEPT !.function = "none", !.bound = NoText, !.tx = NoRun]

(* What rendering content may leave of the file, and what has run.  An     *)
(* exception of the slide's code in its first run may leave the            *)
(* transaction uncached; a literal is then parsed once more (an alias      *)
(* means the same every time).                                             *)
Outcome(sf, run) == [src |-> sf, run |-> run]
Drops(sf, names) ==
  IF EvaluationFails(sf) \/ EvaluationMayFail(sf, names) THEN {Outcome(Dropped(sf), NoRun)} ELSE {}
Runnings(sf, names) ==
  LET run == Evaluated(sf, names)
  IN  IF EvaluationFails(sf) THEN {}
      ELSE {Outcome([sf EXCEPT !.tx = run], run)}
           \cup {Outcome(sf, run) : x \in {sf.function} \cap {"literal"}}
Rendered(sf, names) ==
  IF sf.function = "none" THEN {Outcome(sf, NoRun)} ELSE Drops(sf, names) \cup Runnings(sf, names)
=============================================================================
