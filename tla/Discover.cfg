SPECIFICATION FairSpec
CONSTANTS
  Names = {1, 2, 3}
  BackoffCap = 3
  PruneTicks = 4
  MaxRecords = 3
  MaxFaults = 1
PROPERTIES
  CandidateJoins
  RowsSettle
  MemberRepaired
CHECK_DEADLOCK FALSE
