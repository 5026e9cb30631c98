SPECIFICATION FairSpec
CONSTANTS
  KBuffers = 3
  PipeSize = 1
  MaxWrites = 2
  Sources = 2
  Slides <- OneSlide
  Frames = 4
INVARIANTS
  TypeOK
  RingNeverStarves
  ExitCodeHonest
  CaptureWhole
  WorkerGone
PROPERTY
  Terminates
CHECK_DEADLOCK FALSE
