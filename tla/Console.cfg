SPECIFICATION SpecConsole
CONSTANTS
  Request = {r1, r2, r3}
  JobId = {k1, k2}
  Timer = Timer
  Free = Free
  MaxGates = 6
  N = 2
  Jobs = 2
  MaxFlight = 2
  MaxChanges = 1
  Heights = {1, 2, 3}
  Texts = {{1, 2}, {1}, {}}
INVARIANTS
  MutexDrains
  ScreenIsTrue
PROPERTIES
  ActsOnChoice
