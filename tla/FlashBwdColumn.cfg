CONSTANTS
  kBlockM = 2
  kBlockN = 2
  NWarps = 2
  Qs = {1, 4, 5}
  Ks = {1, 4}
  Windows = {1}
  Variants <- AllVariants
  Tiles = {0, 1}
  Calls <- CheckedCalls
SPECIFICATION FairSpec
INVARIANTS TypeOK OperandsReady NoReadPastEnd
PROPERTIES ImplementsGradients GradientsComplete
