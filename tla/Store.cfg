SPECIFICATION SpecStoreRun
CONSTANTS
  Boxes = {b1}
  LeaseIds = {l1, l2}
  Apis = {a1, a2}
  Kinds = {"ephemeral"}
  Ttls = {1}
  MaxLife = 1
  ExpiredGrace = 1
  LostGrace = 2
  Retention = 1
  Labels = {"healthy", "unhealthy"}
  MaxClock = 2
  MaxFaults = 1
  Null = Null
  Pruned = Pruned
  Box = {x1, x2}
  Keep = 1
  MaxDay = 1
  MaxMoves = 3
INVARIANTS
  QuietMeansSafe
PROPERTIES
  ReservationSpec
  TickFreesOnlyAfterGrace
  HonouredByNextTick
  LossNeedsTwoTicks
  NothingLost
SYMMETRY StoreSymmetry
CONSTRAINT Bounds
