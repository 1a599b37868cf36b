SPECIFICATION Spec
CONSTANTS
  Jobs = {j1, j2}
  Services = {j1}
  Handlers = {h1}
  Tick = tick0
  Ops = {"create", "supplied", "stop", "refresh", "tick", "lapse", "swap"}
  Ends = {"failed"}
  MaxFaults = 0
  MaxCrashes = 0
  Null = Null
INVARIANTS
  RowsAgree
PROPERTIES
  CallersLeaseOutlivesJob
CHECK_DEADLOCK FALSE
