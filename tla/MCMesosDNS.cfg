CONSTANTS
  IPs = {"m1", "m2"}
  IDs = {"m1", "m2"}
  Ports <- MCPorts
  NoAddr = NoAddr
  Nil = Nil
  Down = Down
  ZkModes = {TRUE}
  Configured <- MCConfigured
  Registrants <- MCRegistrants
  InitialNodes <- MCInitialNodes
  MaxNode = 2
  MinNodes = 0
  MaxFaults = 1
  Masters <- MCMasters
  Replies <- MCLeaderReplies
  MaxChanges = 1
  MaxList = 0
  Resolvers <- MCBoth
  StartOutcomes = {"ok", "errch", "nil"}
  ZkTimeout = 1
  ServersFail = TRUE
SPECIFICATION Spec
INVARIANTS  TimerCoversLeaderless
PROPERTIES NeverUnserved
CHECK_DEADLOCK FALSE
