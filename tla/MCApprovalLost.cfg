SPECIFICATION Spec
CONSTANTS
  Chats = {"direct", "web"}
  Interrupting = {"direct"}
  MaxMessages = 2
  Tools = {"shell"}
  Policies <- MCPolicies

PROPERTY AllowedCallsRun
CHECK_DEADLOCK FALSE
