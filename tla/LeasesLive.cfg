SPECIFICATION FairSpec
CONSTANTS
  Boxes = {b1}
  LeaseIds = {l1}
  Apis = {a1}
  Kinds = {"ephemeral"}
  Ttls = {1, 2}
  MaxLife = 2
  ExpiredGrace = 1
  LostGrace = 2
  Retention = 1
  Labels = {"healthy", "asleep"}
  MaxClock = 3
  MaxFaults = 1
  Null = Null
  Pruned = Pruned
PROPERTIES
  ExpiredEventuallyFree
