SPECIFICATION Spec
CONSTANTS
  KBuffers = 3
  Slides = {1, 2}
  Settings <- ExportFails
INVARIANT
  NoTearing
