CONSTANTS
  N = 3
  Causal = TRUE
  LinkCapacity = 2
SPECIFICATION FwdFairSpec
INVARIANTS FwdTypeOK OneBlock NoNaN ExactlyOnce FwdIInv
PROPERTIES FwdRefinesBlockAttention AllAttended
