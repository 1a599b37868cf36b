SPECIFICATION SpecTick
CONSTANTS
  Renotify = 3
  AsleepAfter = 2
  MaxFaults = 1
  Null = Null
  N = 3
  Canary = 2
  Fixed = {0, 3}
  MaxTarget = 2
  MaxMishaps = 1
INVARIANTS
  AlertsTrue
  OnePassOneBreak
PROPERTIES
  RolledOut
  ConfigArrives
