--------------------------- MODULE MCFrameStream ---------------------------
(* Settings of the machine and the presentation.                           *)
EXTENDS FrameStream

(* One slide in and out of view, two worker generations, every fault but a *)
(* slide that has nothing to show any more.                                *)
AnyFault ==
  [visible |-> {{}, {1}}, transport |-> "dmabuf",
   faults |-> {"export", "import", "shm", "silent"}, gens |-> 2]
(* The same slide in one generation; it may come to have nothing to show,  *)
(* and imports fail.                                                       *)
Blank == [AnyFault EXCEPT !.faults = {"import", "blank"}, !.gens = 1]
(* One slide in view all the time, the faults that lose no buffer.         *)
OneSlide ==
  [visible |-> {{1}}, transport |-> "dmabuf", faults |-> {"export", "shm", "blank"}, gens |-> 1]
(* Two slides in view, the export fails in the middle of a frame.          *)
TwoSlides ==
  [visible |-> {{1, 2}}, transport |-> "dmabuf", faults |-> {"export"}, gens |-> 1]

AllSettings == {AnyFault, Blank, OneSlide, TwoSlides}
ExportFails == {[AnyFault EXCEPT !.faults = {"export"}, !.gens = 1]}
NoFault == {[AnyFault EXCEPT !.faults = {}]}
=============================================================================
