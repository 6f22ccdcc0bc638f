CONSTANTS
  Logins = {1, 2, 3}
  Matching = {0, 1, 2, 3}
  TeamPageSize = 2
  NoOfMembers = 1
SPECIFICATION TeamSpec
INVARIANT MembersAreComplete
CHECK_DEADLOCK FALSE
