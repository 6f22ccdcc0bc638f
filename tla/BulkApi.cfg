CONSTANTS
  Jobs = {j1, j2, j3}
  Workers = {w1, w2}
  Capacity = 3
  None = None
  MaxFailures = 2
  MaxRequests = 1
  Timeout = 1
SPECIFICATION FairBulkSpec
INVARIANTS NoSendOnClosedChannel FewFailuresContained
PROPERTIES ImplementsBulkOperation BulkTerminates
