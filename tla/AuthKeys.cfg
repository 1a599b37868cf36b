SPECIFICATION FairSpec
CONSTANTS
  Keys = {1, 2, 3, 4, 5, 6, 7}
  Life = 2
  Window = 1
  MaxClock = 2
  MaxAsks = 1
  MaxLetGo = 1
  MaxFaults = 1
  MaxCrashes = 1
  MaxEvents = 3
INVARIANTS
  LeaksAccounted
PROPERTIES
  KeyComesBack
CHECK_DEADLOCK FALSE
