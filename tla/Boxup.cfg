SPECIFICATION SpecBoxup
CONSTANTS
  Pid = {1, 2, 3}
  MaxFaults = 2
  Freeze = 2
  Cooldown = 2
  Reauth = 2
  Offline = 1
  Longest = 2
  MaxMishaps = 2
PROPERTIES
  BoxReturns
  SpawnsBraked
  
