SPECIFICATION LiveSpec
CONSTANTS
  Local = {l1, l2}
  Remote = {r1}
  MaxConcurrent = 2
  TokenRequired = FALSE
INVARIANTS RunningWithinLimit SlotHeldForAReason CompletedMeansDone
PROPERTIES ResultsAreFinal SpawnedSessionsEnd
CHECK_DEADLOCK FALSE
