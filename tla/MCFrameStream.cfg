SPECIFICATION FairSpec
CONSTANTS
  KBuffers = 3
  Slides = {1, 2}
  Settings <- AllSettings
INVARIANTS
  TypeOK
  NoTearingDmabuf
  EnoughBuffers
  OneFrameInFlight
  TransportAgrees
  DisplayedLive
PROPERTIES
  ImplementsLease
  FrameAnswered
  KeepsRendering
