\* A reaped job goes on and pushes what it has.
SPECIFICATION Spec
CONSTANTS
  j1 = j1
  j2 = j2
  t1 = t1
  t2 = t2
  Jobs = {j1}
  Targets = {t1}
  TargetsOf <- AllTargets
  Direct = {}
  Chunks = 2
  KeepCount = 0
  LongJobs = TRUE
  MaxCrashes = 0
PROPERTY EvictedStageIsOnTarget
CHECK_DEADLOCK FALSE
