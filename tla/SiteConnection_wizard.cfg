SPECIFICATION FairSpec
CONSTANTS
  Started = TRUE
  Requests = {r1, r2}
  Kinds = {"discover", "credentials", "verify", "activate", "cancel", "resume", "delete"}
  MaxRequests = 2
  Ops = {o1, o2}
  MaxSecrets = 1
  Concurrency = 2
  BullAttempts = 2
  MaxStalls = 1
  Failures = {"database", "worker", "request"}
  MaxFailures = 1
  None = None
INVARIANTS TypeOK ActiveWasVerified SucceededWasDone
PROPERTIES Settles OperationsSettle
