\* The bucket shape of a server group, with every class of error.
SPECIFICATION Spec
CONSTANTS
  N = 3
  Keys = {k1}
  RequiredCounts = {1}
  Ops = {"LabelValues", "Metadata", "Query"}
  RawErrs = {"envelope_canceled", "not_an_envelope", "net_timeout", "envelope_bad_data"}
  Names = {a, b}
  NilMap = NilMap
  Nilable = FALSE
INVARIANTS
  MergeIndependentOfArrival
  StatusIndependentOfArrival
  InterruptionNotBlamed
