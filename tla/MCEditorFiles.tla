--------------------------- MODULE MCEditorFiles ----------------------------
EXTENDS EditorFiles, TLC

CONSTANTS t1, t2
SomeTexts == {t1, t2}
Symmetry == Permutations(SomeTexts)
=============================================================================
