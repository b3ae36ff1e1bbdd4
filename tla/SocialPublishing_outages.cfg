\* Every operation, a crash and a throwing call, with BullMQ retries.
SPECIFICATION Spec
CONSTANTS
  p1 = p1  p2 = p2  s1 = s1  s2 = s2  r1 = r1  r2 = r2  w1 = w1  w2 = w2
  None = None
  Pubs <- OnePub
  Schedulers <- OneScheduler
  Requests <- OneRequest
  Workers <- OneWorker
  AttemptIds <- Ids2
  Operations <- AllOperations
  BatchSize = 1
  MaxRetries = 0
  BullAttempts = 2
  MaxStalls = 1
  MaxCrashes = 1
  MaxFaults = 1
SYMMETRY Symmetry
INVARIANT PublishedWasPosted
PROPERTY Delivers
CHECK_DEADLOCK FALSE
