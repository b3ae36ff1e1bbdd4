\* Two of everything; one process may die and one call may throw.
SPECIFICATION Spec
CONSTANTS
  p1 = p1  p2 = p2  s1 = s1  s2 = s2  r1 = r1  r2 = r2  w1 = w1  w2 = w2
  None = None
  Pubs <- TwoPubs
  Schedulers <- TwoSchedulers
  Requests <- NoRequests
  Workers <- TwoWorkers
  AttemptIds <- Ids4
  Operations <- NoOperations
  BatchSize = 2
  MaxRetries = 1
  BullAttempts = 1
  MaxStalls = 1
  MaxCrashes = 1
  MaxFaults = 1
SYMMETRY Symmetry
INVARIANTS TypeOK SingleHolder OneCarrier ExtraPostsNeedFailures RetryBudget AttemptsNumbered
PROPERTY PostsOnlyWhilePublishing
CHECK_DEADLOCK FALSE
