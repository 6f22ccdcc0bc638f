CONSTANTS
  build = build
  compile = compile
  Jobs = {build}
  Steps = {compile}
  JobOf <- MCJobOf
  FirstPage = {build}
  Runs = {"ci", "release", "stray"}
  Pushes = {"ci", "release"}
  Tagged = {"release"}
  Attempts = 2
  Chains = 2
SPECIFICATION CommandSpec
INVARIANTS ReportedInOrder ExitIsHonest MatchesAreFollowed FollowsTheRerun
PROPERTIES CommandEnds
CHECK_DEADLOCK FALSE
