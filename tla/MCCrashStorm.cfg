SPECIFICATION StormSpec
CONSTANTS
  Slides = {s0}
  NoSlide = none
  Second = 2
  PingInterval = 1
  PongTimeout = 1
  FrameTimeout = 1
  CompileTimeout = 2
  BackoffMax = 2
  StormCount = 2
  StormWindow = 3
  MaxTime = 4
  MaxPending = 1
INVARIANTS
  TypeOK
  DeadIsQuiet
  NeverStuck
  RespawnWithinCap
PROPERTIES
  ImplementsLifecycle
  StormIsCutOff
  BackoffApplies
