CONSTANTS
  kBlockM = 2
  Rounding = 4
  HQ = 4
  HK = 2
  DRounded = 2
  HeadDim = 3
  Calls <- LaunchCalls
SPECIFICATION Spec
INVARIANTS TypeOK AccumInBounds QueryGradientsExact KeyGradientsExact
