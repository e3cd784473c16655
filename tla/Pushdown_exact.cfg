CONSTANTS
  Lookback = 2
  Horizon = 6
  YearOne = 242717175
  Groups <- MCGroups
  Cases <- MCCases
SPECIFICATION Spec
INVARIANTS PushdownExact HistogramsKept
CHECK_DEADLOCK FALSE
