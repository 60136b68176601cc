CONSTANTS
  IPs = {"m1", "m2"}
  IDs = {"m1", "m2"}
  Ports <- MCPorts
  NoAddr = NoAddr
  Nil = Nil
  Down = Down
  ZkModes = {TRUE}
  Configured <- MCConfigured
  Registrants <- MCRegistrants
  InitialNodes <- MCInitialNodes
  MaxNode = 1
  MinNodes = 1
  MaxFaults = 0
  Masters <- MCMasters
  Replies <- MCLeaderReplies
  MaxChanges = 2
  MaxList = 0
  Resolvers <- MCBuiltin
  StartOutcomes = {"ok"}
  ZkTimeout = 0
  ServersFail = FALSE
SPECIFICATION Spec
PROPERTIES FindsLeadingMaster
CHECK_DEADLOCK FALSE
