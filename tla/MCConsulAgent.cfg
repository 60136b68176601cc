SPECIFICATION Spec
CONSTANTS
  slave = slave
  task = task
  check = check
  empty = empty
  x = x
  Services = {slave, task}
  Slave = slave
  Checks = {check, empty}
  Foreign = {other}
  ServiceOf <- MCServiceOf
  Poison = {empty}
  Contents = {x, y}
  None = None
  RecordSets <- MCSets
  CacheRefresh = 2
  CacheModes = {TRUE, FALSE}
  MaxPending = 2
  MaxChanges = 2
  MaxFaults = 2
  MaxForgets = 1
INVARIANTS TypeOK CacheSound ForeignUntouched 
  
CHECK_DEADLOCK FALSE
