SPECIFICATION SpecMembership
CONSTANTS Old = old
          New = new
          Keys = {k1, k2}
          MaxFaults = 1
          Disturbed = FALSE
 
PROPERTIES OnlyOperatorsRevive  EnrollingSettles MemberDialsAgain
CHECK_DEADLOCK FALSE
