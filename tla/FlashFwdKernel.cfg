CONSTANTS
  kBlockM = 4
  kBlockN = 4
  NWarps = 2
  MaxQ = 5
  MaxK = 9
  Windows = {3}
  Tiles = {0, 1}
  Calls <- CheckedCalls
SPECIFICATION FairSpec
INVARIANTS TypeOK TilesReady TileInv NoReadPastKeys
PROPERTIES ImplementsAttention RowsWritten
