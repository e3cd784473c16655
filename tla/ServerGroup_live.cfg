\* Convergence after maps that do not load and a config change, and shutdown.
SPECIFICATION Spec
CONSTANTS
  None = None
  t1 = t1
  t2 = t2
  noAddress = noAddress
  Targets = {t1, t2, noAddress}
  Dropped = {t2}
  Unusable = {noAddress}
  Maps = {{t1, t2}, {t1, noAddress}}
  Configs <- LiveConfigs
  MaxApplies = 2
  Gens = {g1, g2}
  Requests = 0
PROPERTIES
  FollowsDiscovery
  CacheFollowsState
  GroupGoroutinesStop
