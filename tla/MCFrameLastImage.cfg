SPECIFICATION Spec
CONSTANTS
  KBuffers = 3
  Slides = {1, 2}
  Settings <- NoFault
INVARIANT
  LastFrameSurvives
