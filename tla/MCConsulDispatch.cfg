SPECIFICATION DispatchSpec
CONSTANTS
  a1 = a1
  a2 = a2
  a3 = a3
  web = web
  gone = gone
  bad = bad
  States <- MCStates
  Agents = {a1, a2}
  NoAddr = NoAddr
  Endpoints = {web, bad}
  Broken = {bad}
  Nil = Nil
  SkipInactiveFrameworks = TRUE
  CacheRefreshes = {1, 3}
  MaxReloads = 3
  
PROPERTY ReloadsDispatched
CHECK_DEADLOCK FALSE
