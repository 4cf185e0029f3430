CONSTANTS
  kBlockM = 2
  Rounding = 4
  HQ = 2
  HK = 1
  DRounded = 2
  HeadDim = 3
  Calls <- PaddedCalls
SPECIFICATION Spec
INVARIANTS AccumInBounds
