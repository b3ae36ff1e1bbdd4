\* An operator edits or unpublishes the row at any moment, with two workers.
SPECIFICATION FairSpec
CONSTANTS
  p1 = p1  p2 = p2  s1 = s1  s2 = s2  r1 = r1  r2 = r2  w1 = w1  w2 = w2
  None = None
  Pubs <- OnePub
  Schedulers <- OneScheduler
  Requests <- OneRequest
  Workers <- TwoWorkers
  TaskIds <- Ids8
  Operations <- RowOperations
  TwoCalls = FALSE
  BatchSize = 1
  MaxRetries = 2
  BullAttempts = 1
  MaxStalls = 1
  MaxCrashes = 0
  MaxFaults = 0
  MaxRefusals = 8
INVARIANTS OnePage JobNotStranded NotStranded ProjectAgrees UnpublishedIsDown PublishedRowIsUp
PROPERTIES Delivers EventuallyAtRest
CHECK_DEADLOCK FALSE
