SPECIFICATION Spec
CONSTANTS
  N = 3
  Keys = {k1}
  RequiredCounts = {3}
  Ops = {"Metadata"}
  RawErrs = {"http_error"}
  Names = {a}
  NilMap = NilMap
  Nilable = TRUE
INVARIANTS
  MergeNeverPanics
