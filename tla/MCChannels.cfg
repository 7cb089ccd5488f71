SPECIFICATION Spec
CONSTANTS
  direct = direct  web = web  alice = alice  bob = bob
  Chats = {direct, web}
  Interrupting = {direct}
  Permits = {2, 3}
  MaxMessages = 3
  Conversations = {alice, bob}
  ConversationOf <- MCConversationOf
  MaxHistory = 3
  KeepTurns = 2
INVARIANTS OwnQuestionIsLast OpenQuestionsExplained
PROPERTIES ImplementsTurns QuestionsLeaveInOrder MessagesEnd
CHECK_DEADLOCK FALSE
