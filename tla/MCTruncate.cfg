SPECIFICATION TruncateSpec
CONSTANTS
  MinMsgSize = 3
  MaxMsgSize = 6
  OptSizes <- MCOptSizes
  NoOpt = NoOpt
  MaxAnswers = 5
  MaxLength = 7
  
PROPERTY Terminates
CHECK_DEADLOCK FALSE
