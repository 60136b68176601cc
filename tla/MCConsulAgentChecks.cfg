SPECIFICATION Spec
CONSTANTS
  slave = slave
  task = task
  check = check
  empty = empty
  x = x
  Services = {slave, task}
  Slave = slave
  Checks = {check, empty}
  Foreign = {other}
  ServiceOf <- MCServiceOf
  Poison = {}
  Contents = {x, y}
  None = None
  RecordSets <- MCSets
  CacheRefresh = 2
  CacheModes = {FALSE}
  MaxPending = 2
  MaxChanges = 2
  MaxFaults = 1
  MaxForgets = 0
PROPERTY ChecksAssigned
CHECK_DEADLOCK FALSE
