SPECIFICATION Spec
CONSTANTS
  Clients = {c1, c2}
  JSONConfigs <- MCJSONConfigs
  DefaultServers <- MCDefaultServers
  None = None
  MaxQuestions = 3
  MaxRest = 2
INVARIANTS CountersBalance FirstAnswerWins 
PROPERTY Answered
CHECK_DEADLOCK FALSE
