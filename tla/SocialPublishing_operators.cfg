\* Fair scheduling, an operator, nothing dies.
SPECIFICATION FairSpec
CONSTANTS
  p1 = p1  p2 = p2  s1 = s1  s2 = s2  r1 = r1  r2 = r2  w1 = w1  w2 = w2
  None = None
  Pubs <- OnePub
  Schedulers <- TwoSchedulers
  Requests <- OneRequest
  Workers <- OneWorker
  AttemptIds <- Ids4
  Operations <- EditOperations
  BatchSize = 1
  MaxRetries = 1
  BullAttempts = 1
  MaxStalls = 1
  MaxCrashes = 0
  MaxFaults = 0
INVARIANT NotStranded
PROPERTY EventuallyAtRest
CHECK_DEADLOCK FALSE
