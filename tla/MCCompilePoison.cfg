SPECIFICATION Spec
CONSTANTS
  Files <- SetupAndSlide
  Decks <- OnlySingle
  Texts = {"good", "fatal"}
  NoFile = NoFile
  StormLimit = 2
  MaxActs = 0
INVARIANT
  CulpritStaysOut
