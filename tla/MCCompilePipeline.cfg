SPECIFICATION FairSpec
CONSTANTS
  Files <- SetupAndSlide
  Texts = {"good", "bad", "incomplete", "fatal"}
  Decks <- PairAndSingle
  NoFile = NoFile
  StormLimit = 1
  MaxActs = 2
INVARIANTS
  TypeOK
  PendingIsExact
  WaitIsBacked
  BlamesTheRightFile
  PoisonStaysOut
PROPERTIES
  NoStaleVerdict
  AllSettle
