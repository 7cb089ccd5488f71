SPECIFICATION Spec
CONSTANTS
  Chats = {"direct", "web"}
  Interrupting = {"direct"}
  MaxMessages = 3
  Tools = {"shell"}
  Policies <- MCPolicies
INVARIANTS RevocationsHold OneCallPerAnswer InterruptingChatsNeverAllow
PROPERTIES TurnsEnd
CHECK_DEADLOCK FALSE
