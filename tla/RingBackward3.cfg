CONSTANTS
  N = 3
  Causal = TRUE
  LinkCapacity = 2
SPECIFICATION BwdFairSpec
INVARIANTS BwdTypeOK OneBlockPerGradient ReturnedExact
PROPERTIES BwdRefinesBlockAttention AllReturned
