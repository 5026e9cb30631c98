--------------------------- MODULE MCSlideSession ---------------------------
(* Scenes: each lets few kinds of things happen, so that they add up.      *)
EXTENDS SlideSession

Deck(F, kind) == [f \in F |-> IF f = Setup THEN "value" ELSE kind]
Quiet ==
  [first |-> Deck(Slides, "named"), kinds |-> {}, views |-> {Slides}, inputs |-> {},
   edits |-> 0, moves |-> 0, copies |-> 0, crashes |-> 0]

(* One slide and the setup, rewritten with texts of every kind.            *)
Rewriting == [Quiet EXCEPT !.first = Deck({0, Setup}, "named"), !.kinds = Kinds, !.edits = 2]
(* Two slides of one name or without, compiled again by a second worker.   *)
Shadowing ==
  {[Quiet EXCEPT !.first = Deck(Slides, k), !.kinds = {"named", "literal"},
                 !.edits = 1, !.crashes = 1] : k \in {"named", "literal"}}
(* Two buttons on two slides; a deck that scrolls; a slide that loses its  *)
(* content, and the worker it is drawn by.                                 *)
TwoButtons == [Quiet EXCEPT !.inputs = {"left", "right"}, !.moves = 3]
Scrolling ==
  [Quiet EXCEPT !.views = SUBSET {0}, !.first = Deck({0}, "named"), !.inputs = {"left"}, !.moves = 4]
Losing ==
  [Quiet EXCEPT !.first = Deck({0}, "named"), !.views = {{0}}, !.inputs = {"left"}, !.moves = 3,
                !.kinds = {"bad"}, !.edits = 1, !.crashes = 1]
(* Typing into a slide that may want keys or not.                          *)
Typing ==
  [Quiet EXCEPT !.first = Deck({0}, "named"), !.views = SUBSET {0}, !.inputs = {Key}, !.moves = 5]
(* Copy and paste on both sides.                                           *)
Copying ==
  [Quiet EXCEPT !.first = Deck({0}, "named"), !.views = {{0}},
                !.moves = 3, !.copies = 3, !.crashes = 1]

AllScenes == Shadowing \cup {Rewriting, TwoButtons, Scrolling, Losing, Typing, Copying}
MouseButtons == {"left", "right"}
=============================================================================
