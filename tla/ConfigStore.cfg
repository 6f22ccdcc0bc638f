CONSTANTS
  acme = acme
  beta = beta
  t1 = t1
  t2 = t2
  Names = {acme, beta}
  OrgOf <- MCOrgOf
  BadNames = {}
  Procs = {p}
  Tokens = {t1, t2}
  None = None
  Faults = {"kill", "save"}
SPECIFICATION Spec
INVARIANTS LastSetWins
CHECK_DEADLOCK FALSE
