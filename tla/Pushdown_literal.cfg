CONSTANTS
  Lookback = 2
  Horizon = 6
  YearOne = 242717175
  Groups <- MCGroups
  Cases <- LiteralCases
SPECIFICATION Spec
INVARIANT LiteralPushdownSafe
CHECK_DEADLOCK FALSE
