SPECIFICATION Spec
CONSTANTS
  Jobs = {"report", "backup"}
  Schedules <- MCSchedules
  Callers = {2}
  Editors = {"editor"}
  MaxTasks = 1
  MaxConcurrent = 1
  MaxHistory = 1
  MaxTime = 2
  MaxRequests = 3
  MaxFaults = 1
INVARIANTS NextRunFollowsSchedule OffMeansAtMostOneMore
PROPERTIES StartedOncePerOccurrence OccurrencesAreNotDropped DueJobsStart
CHECK_DEADLOCK FALSE
