SPECIFICATION Spec
CONSTANTS
  Procs = {o1, o2}
  Ticks = {}
  Recoveries = {}
  Operations = {"generate", "edit", "approve", "retry_image", "asset"}
  Channels = {website}
  MaxVersions = 1
  Images = {i1, i2}
  ImageJobs = {j1, j2}
  Listeners = {l1}
  Grades = {"clean"}
  BullAttempts = 2
  MaxStalls = 1
  Failures = {"database", "worker"}
  MaxFailures = 1
  MaxRepairs = 1
  SlowRepairs = FALSE
  None = None
INVARIANTS ApprovedPassedOnce 
SYMMETRY OperatorSymmetry
CHECK_DEADLOCK FALSE

