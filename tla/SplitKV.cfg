CONSTANTS
  kBlockM = 2
  kBlockN = 2
  LoweringSMs = 8
  MaxSplits = 4
  Heads = 2
  DRounded = 2
  HeadDim = 2
  CombineM = 4
  NThreads = 8
  Granule = 4
  QLengths = {1, 2, 3}
  KLengths = {3, 5, 6, 7, 8}
  Windows = {0, 3}
  DeviceSMs = {4, 6, 10}
  Calls <- Batched
SPECIFICATION Spec
INVARIANTS TypeOK ScratchInv WithinScratch NoIdleSplit
PROPERTY ImplementsAttention
