SPECIFICATION Spec
CONSTANTS
  web = web
  host = host
  WEB = WEB
  other = other
  a1 = a1
  a2 = a2
  bad = bad
  Clients = {c1, c2}
  Names <- MCNames
  QNames = {WEB, other}
  Clean <- MCClean
  InZone = {WEB}
  Addrs = {a1, a2, bad}
  BadAddrs = {bad}
  NoAddr = NoAddr
  Zones <- MCZones
  None = None
  MaxRefreshes = 2
  MaxClock = 2
  MaxQueries = 2
INVARIANTS SerialNotBehind CountersBalance
PROPERTY RepliesFromOneZone
CHECK_DEADLOCK FALSE
