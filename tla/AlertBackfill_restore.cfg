\* A group restores its alerts after a restart while the rules are reloaded or
\* stopped: expressions with one gap, downstreams with and without the state, failing queries.
SPECIFICATION Spec
CONSTANTS
  Groups <- RuleGroups
  Signals <- ExprSignals
  Boot = 6
  MaxTime = 10
  TicksPerSecond = 2
  ForGracePeriod = 1
  MaxUpdates = 1
INVARIANTS
  PendingTimeObserved
  HeldAlertsFire
PROPERTY
  UpdateReturns
CHECK_DEADLOCK FALSE
