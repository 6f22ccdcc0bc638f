CONSTANTS
  Jobs = {job}
  Steps = {}
  JobOf <- MCJobOf
  FirstPage = {job}
  Envs = {prod}
  MaxOpens = 2
  None = None
SPECIFICATION FairSpec
PROPERTY EveryGateSettled
CHECK_DEADLOCK FALSE
