SPECIFICATION Spec
CONSTANTS
  r1 = r1  r2 = r2
  session = session  own = own
  first = first  second = second
  shell = shell  padded = padded  space = space  Blank = Blank
  NoRun = NoRun  NoFile = NoFile  Torn = Torn  NoTitle = NoTitle  NoPath = NoPath
  Runs = {r1, r2}
  Paths = {session, own}
  OwnPaths = {own}
  Earlier <- MCEarlier
  PlanCalls <- MCPlanCalls
  ToolCalls <- MCToolCalls
  Titles = {first, second}
  Tools = {shell}
  Patterns = {shell, padded, space}
  Trim <- MCTrim
  MaxEvents = 6
  RetryBudget = 2
  MaxCalls = 2
  MaxOpen = 2
  MaxCrashes = 1
SYMMETRY Symmetry
INVARIANTS NothingIsDoneUnproved FileKeepsTheRecord PlanMirrorsList
CHECK_DEADLOCK FALSE
