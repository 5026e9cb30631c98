------------------------- MODULE MCCompilePipeline --------------------------
(* The setup file and one slide, or one slide alone with every kind of text. *)
EXTENDS CompilePipeline

SetupAndSlide == {-1, 0}
Pair == [s \in SetupAndSlide |-> {"good", "fatal"}]
Single == [s \in {0} |-> Texts]

PairAndSingle == {Pair, Single}
OnlySingle == {Single}
=============================================================================
