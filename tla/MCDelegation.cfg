SPECIFICATION DTLiveSpec
CONSTANTS
  Calls = {c1, c2}
  theCall = c1
  Readers = {r1}
  own = r1
  HistoryLimit = 3
  Capacity = 3
  MaxEvents = 2
INVARIANTS StrandedByFaultOnly NoStrayCancel ResultIsTheTasks NoWorkIsOrphaned
PROPERTIES StopIsForwarded ImplementsDelegation
CHECK_DEADLOCK FALSE
