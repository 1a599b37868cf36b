SPECIFICATION ClientsSpec
CONSTANTS
  Box = {1, 2}
  Canary = 1
  Runner = 2
  Versions = {0, 2}
  MaxAge = 1
  Ttl = 6
  Retry = 2
  Grace = 2
  LifeCap = 9
  Horizon = 11
  MaxLeaseLosses = 4
  Pollers = {p1, p2}
  Null = Null
  LogMax = 1
  FetchMax = 1
  MirrorMax = 2
  MaxBytes = 4
  MaxJobLosses = 1
  MaxPolls = 1
INVARIANTS
  RefusalTellsAll
  LeaseGivenBack
  NotBlind
  
PROPERTIES
  KeptAlive
SYMMETRY PollerSymmetry
CONSTRAINT StillClaimed
