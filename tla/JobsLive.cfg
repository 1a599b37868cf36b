SPECIFICATION FairSpec
CONSTANTS
  Jobs = {j1}
  Services = {}
  Handlers = {h1}
  Tick = tick0
  Ops = {"create", "supplied", "stop", "refresh", "tick", "swap", "retire", "lapse"}
  Ends = {"done", "failed", "timeout"}
  MaxFaults = 1
  MaxCrashes = 1
  Null = Null
PROPERTIES
  EveryRunCloses
  OwnLeaseReturns
CHECK_DEADLOCK FALSE
