SPECIFICATION FairSpec
CONSTANTS
  Slides = {0, 1}
  Buttons <- MouseButtons
  EventLimit = 2
  Scenes <- Shadowing
INVARIANTS
  LiteralKeepsItsNames
