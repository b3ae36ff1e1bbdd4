SPECIFICATION Spec
CONSTANTS
  Procs = {t1, r1}
  Ticks = {t1}
  Recoveries = {r1}
  Operations = {}
  Channels = {website}
  MaxVersions = 1
  Images = {i1}
  ImageJobs = {j1, j2, j3}
  Listeners = {l1}
  Grades = {"failing", "clean"}
  BullAttempts = 2
  MaxStalls = 1
  Failures = {"controller", "repair"}
  MaxFailures = 1
  MaxRepairs = 2
  SlowRepairs = FALSE
  None = None
INVARIANTS OneRepairer RepairBudget

