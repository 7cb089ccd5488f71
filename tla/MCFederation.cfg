SPECIFICATION LiveSpec
CONSTANTS
  Readers = {r1, r2}
  HistoryLimit = 3
  Capacity = 3
  MaxEvents = 3
INVARIANTS StreamsFollowTheTask EndedStreamsSawTheEnd
PROPERTY StreamsEnd
CHECK_DEADLOCK FALSE
