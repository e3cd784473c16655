\* Every pair of small streams, and every three over five time units.
SPECIFICATION Spec
CONSTANT
  Calls <- AllCalls
INVARIANTS
  MergeIsGapFill
  EveryReplicaCovered
  DynamicNeverDoubles
