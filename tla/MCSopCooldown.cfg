SPECIFICATION Spec
CONSTANTS
  deploy = deploy  notify = notify
  Sops = {deploy, notify}
  Triggered <- MCTriggered
  Catalogs <- CoolingCatalogs
  MaxConcurrentTotal = 2
  MaxFinishedRuns = 1
  TimeoutPoller = FALSE
  MaxRuns = 3
PROPERTY StartsWithinLimits
CHECK_DEADLOCK FALSE
