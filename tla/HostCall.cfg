CONSTANTS
  Calls <- CheckedCalls
  ND = 2
SPECIFICATION Spec
INVARIANTS
  TypeOK
  TrainingSucceeds
  LaunchesFit
  GradientFollowsForward
  ResultsAsPromised
  ShardsAreGlobal
CHECK_DEADLOCK FALSE
