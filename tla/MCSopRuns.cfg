SPECIFICATION Spec
CONSTANTS
  deploy = deploy  notify = notify
  Sops = {deploy, notify}
  Triggered <- MCTriggered
  Catalogs <- ChangingCatalogs
  MaxConcurrentTotal = 1
  MaxFinishedRuns = 1
  TimeoutPoller = TRUE
  MaxRuns = 2
INVARIANTS TypeOK ResultsFollowSteps StoredOutcomesAreTrue
CHECK_DEADLOCK FALSE
