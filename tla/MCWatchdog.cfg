SPECIFICATION Spec
CONSTANTS
  PingInterval = 1
  PongTimeout = 2
  FrameTimeout = 2
  CompileTimeout = 4
  KillGrace = 1
  Backoff = 1
  StormLimit = 1
  StormSpan = 1
  Scenes <- Safe
  Horizon = 5
  MaxSources = 2
INVARIANTS
  HangIsKilled
PROPERTIES
  HealthyIsSpared
