CONSTANTS
  kBlockM = 2
  kBlockN = 2
  NWarps = 2
  MaxQ = 4
  MaxK = 2
  Windows = {0, 2}
  Tiles = {0, 1}
  Calls <- Batched
SPECIFICATION Spec
INVARIANT RowsMatchReference
