SPECIFICATION MCSpec
CONSTANTS
  a1 = a1  a2 = a2  c1 = c1  c2 = c2  p1 = p1  d1 = d1  d2 = d2  d3 = d3
  None = None  Blank = Blank
  Agents = {a1, a2}
  Ids = {i1, i2, i3}
  Correlations = {c1}
  PlainKeys = {}
  DelegateKeys = {}
  KeyCorrelation <- MCKeyCorrelation
  Envelopes <- DeliveryEnvelopes
  InboxLimit = 2
  DeadLetterLimit = 2
  ContextLimit = 0
  SeenLimit = 2
  MaxPublishes = 5
SYMMETRY Symmetry
INVARIANT DeliveriesAccounted
PROPERTIES NoReacceptanceInWindow ImplementsMailboxes
CHECK_DEADLOCK FALSE
