SPECIFICATION Spec
CONSTANTS
  Repos = {r1, r2}
  Commands = {pr, team}
  Filtered = {pr}
  Actionable = {pr}
  OrgWide = {team}
  Options = 2
  None = None
  Slots = {s1, s2}
  MaxSelected = 1
  MaxKeys = 6
  MaxActions = 1
SYMMETRY Symmetry
INVARIANTS AnswersItsQuestion CacheForgets ShowsSelection ActsAsConfirmed
CHECK_DEADLOCK FALSE
