SPECIFICATION MCSpec
CONSTANTS
  a1 = a1  a2 = a2  c1 = c1  c2 = c2  p1 = p1  d1 = d1  d2 = d2  d3 = d3
  None = None  Blank = Blank
  Agents = {a1}
  Ids = {i1, i2}
  Correlations = {c1, c2}
  PlainKeys = {p1}
  DelegateKeys = {d1, d2, d3}
  KeyCorrelation <- MCKeyCorrelation
  Envelopes <- ContextEnvelopes
  InboxLimit = 0
  DeadLetterLimit = 2
  ContextLimit = 2
  SeenLimit = 0
  MaxPublishes = 5
SYMMETRY Symmetry
INVARIANT QueriesMatchFullScan
PROPERTY ImplementsStore
CHECK_DEADLOCK FALSE
