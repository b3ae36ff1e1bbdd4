SPECIFICATION FairSpec
CONSTANTS
  Procs = {t1}
  Ticks = {t1}
  Recoveries = {}
  Operations = {}
  Channels = {website, x}
  MaxVersions = 1
  Images = {i1}
  ImageJobs = {j1, j2, j3}
  Listeners = {l1}
  Grades = {"warned", "clean"}
  BullAttempts = 2
  MaxStalls = 1
  Failures = {"provider", "controller"}
  MaxFailures = 1
  MaxRepairs = 1
  SlowRepairs = FALSE
  None = None
INVARIANT OnePublicationPerChannel
PROPERTIES ApprovedBodyKept EventuallyDecided
