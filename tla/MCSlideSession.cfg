SPECIFICATION FairSpec
CONSTANTS
  Slides = {0, 1}
  Buttons <- MouseButtons
  EventLimit = 2
  Scenes <- AllScenes
INVARIANTS
  TypeOK
  RendersOwnCode
  NoStuckButton
  KeyFollowsFocus
PROPERTIES
  PasteCatchesUp
  LatestTextRuns
