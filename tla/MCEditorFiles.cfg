SPECIFICATION Spec
CONSTANTS
  Files = {setup, slide0}
  t1 = t1
  t2 = t2
  Texts <- SomeTexts
  Missing = Missing
SYMMETRY Symmetry
INVARIANTS
  TypeOK
  InSync
PROPERTY
  NoSilentDiscard
