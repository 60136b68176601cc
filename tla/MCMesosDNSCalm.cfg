CONSTANTS
  IPs = {"m1", "m2"}
  IDs = {"m1", "m2"}
  Ports <- MCPorts
  NoAddr = NoAddr
  Nil = Nil
  Down = Down
  ZkModes = {TRUE, FALSE}
  Configured <- MCTwoConfigured
  Registrants <- MCRegistrants
  InitialNodes <- MCInitialNodes
  MaxNode = 2
  MinNodes = 2
  MaxFaults = 0
  Masters <- MCMasters
  Replies <- MCMasters
  MaxChanges = 2
  MaxList = 0
  Resolvers <- MCBoth
  StartOutcomes = {"ok"}
  ZkTimeout = 0
  ServersFail = FALSE
SPECIFICATION Spec
PROPERTIES FindsLeadingMaster
