\* Loads that fail, are retried and replace each other while ApplyConfig runs
\* again and requests are in flight.
SPECIFICATION Spec
CONSTANTS
  None = None
  t1 = t1
  t2 = t2
  noAddress = noAddress
  Targets = {t1, t2, noAddress}
  Dropped = {}
  Unusable = {noAddress}
  Maps = {{t1, t2}, {noAddress}}
  Configs <- FilterConfigs
  MaxApplies = 2
  Gens = {g1, g2}
  Requests = 1
SYMMETRY Symmetry
INVARIANTS
  PublishedStateLive
  NoOrphanLoops
  UnsyncedFilterRetried
  RequestSeesClient
PROPERTIES
  SnapshotKept
