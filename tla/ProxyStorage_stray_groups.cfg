\* A reload refused by the remote storage.
SPECIFICATION Spec
CONSTANTS
  MaxReloads = 3
  MaxGroups = 2
  Faults = {"remote_apply"}
INVARIANT
  FailedReloadLeavesNothing
