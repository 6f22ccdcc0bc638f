CONSTANTS
  Callers = {c1, c2}
  MaxFailures = 1
  MaxRequests = 1
  Timeout = 0
  Kinds = {"plain", "body"}
  MaxAttempts = 2
  Quota = 1
SPECIFICATION FairClientSpec
INVARIANTS BodyAtMostOnce WaitsForGoodReason
PROPERTIES SuccessIsCarriedOut CallsReturn
CHECK_DEADLOCK FALSE
