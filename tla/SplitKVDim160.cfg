CONSTANTS
  kBlockM = 2
  kBlockN = 2
  LoweringSMs = 8
  MaxSplits = 4
  Heads = 2
  DRounded = 5
  HeadDim = 6
  CombineM = 4
  NThreads = 8
  Granule = 4
  QLengths = {1}
  KLengths = {4}
  Windows = {}
  DeviceSMs = {8}
  Calls <- Batched
SPECIFICATION Spec
INVARIANT LinesCorrect
