CONSTANTS
  IPs = {"m1", "m2", "m3"}
  IDs = {"m1", "m2", "m3"}
  Ports <- MCPorts
  NoAddr = NoAddr
  Nil = Nil
  ZkModes = {TRUE, FALSE}
  Configured <- MCConfigured
  Registrants <- MCRegistrants
  InitialNodes <- MCInitialNodes
  MaxNode = 4
  MinNodes = 0
  MaxFaults = 2
SPECIFICATION Spec
INVARIANTS TypeOK ListsWellFormed NewestDelivered DescribesZooKeeper
PROPERTIES EventuallyReceived
CHECK_DEADLOCK FALSE
