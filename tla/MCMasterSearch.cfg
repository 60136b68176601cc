CONSTANTS
  IPs = {"m1", "m2", "m3"}
  Ports <- MCPorts
  NoAddr = NoAddr
  Down = Down
  Masters <- MCMasters
  Replies <- MCReplies
  MaxChanges = 2
  MaxList = 3
SPECIFICATION Spec
INVARIANTS TypeOK LoadedFromNamedLeader RequestsBounded 
PROPERTIES SearchEnds
