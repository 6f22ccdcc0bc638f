CONSTANTS
  Callers = {c1, c2, c3}
  MaxFailures = 3
  MaxRequests = 2
  Timeout = 2
SPECIFICATION FairSpec
INVARIANTS CountersMatchState
PROPERTIES TripsOnFailuresInARow ClosesOnProbesInARow Recovers
