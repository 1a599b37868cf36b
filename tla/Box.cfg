SPECIFICATION SpecBox
CONSTANTS
  Jobs = {s1, r1, r2}
  Services = {s1}
  Callers = {c1}
  Guard = guard
  Pids = {1, 2}
  Overlap = "none"
  MaxSwaps = 1
  MaxKills = 2
  Null = Null
  MIN_INTERVAL = 20
  Steps = {20}
  Ops = {"swap", "stop"}

  
  
  
PROPERTIES
  ServiceReturns
CHECK_DEADLOCK FALSE
