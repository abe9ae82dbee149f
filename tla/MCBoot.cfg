CONSTANTS
  Vectors <- MCVectors
  Entry <- MCEntry
  Buses = 2
  Slots = 2
  Functions = 2
  Bars = 6
  Kinds <- MCKinds
  NoDevice = NoDevice
  Addresses = {0, 1, 2}
  Modes <- MCModes
  Xs <- MCXs
  Ys <- MCYs
SPECIFICATION Spec
INVARIANTS
  SegmentsCover
  GatesReachStubs
  ReportsEachOnce
  PortBaseFromBar
  Loaded
  PixelInFrameBuffer
