CONSTANTS
  Jobs = {job, last}
  Steps = {}
  JobOf <- MCJobOf
  FirstPage = {job}
  Envs = {prod, staging}
  MaxOpens = 2
  None = None
SPECIFICATION FairSpec
INVARIANTS HandledOnce DecidesAsTold NothingDecidedSilently EndsAreReported
PROPERTIES EndsWithRun NewGatesSettled
CHECK_DEADLOCK FALSE
