SPECIFICATION Spec
CONSTANTS
  N = 3
  Keys = {k1, k2}
  RequiredCounts = {0, 1, 2, 3}
  Ops = {"Query"}
  RawErrs = {"http_error"}
  Names = {}
  NilMap = NilMap
  Nilable = FALSE
INVARIANTS
  QuorumStaysReachable
  InductiveInvariant
PROPERTIES
  ImplementsQuorumCall
  InterruptedCallReturns
  AnsweredCallReturns
  GoroutinesExit
