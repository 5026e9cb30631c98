SPECIFICATION Spec
CONSTANTS
  Files <- SetupAndSlide
  Decks <- OnlySingle
  Texts = {"good", "incomplete"}
  NoFile = NoFile
  StormLimit = 2
  MaxActs = 0
INVARIANT
  FailedStaysPut
