SPECIFICATION LiveSpec
CONSTANTS
  NULL = NULL
  Client = {c1}
  NoClient = NoClient
  Word <- MCWord
INVARIANTS TypeOK RunsTyped AnswerIsOwn ToldUnlessJoined
PROPERTIES CommandReturns
CHECK_DEADLOCK FALSE
