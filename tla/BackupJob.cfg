\* Two jobs of one container, one direct and one through the master to two targets.
SPECIFICATION LiveSpec
CONSTANTS
  j1 = j1
  j2 = j2
  t1 = t1
  t2 = t2
  Jobs = {j1, j2}
  Targets = {t1, t2}
  TargetsOf <- OneAndBoth
  Direct = {j1}
  Chunks = 2
  KeepCount = 1
  LongJobs = FALSE
  MaxCrashes = 1
INVARIANTS JobInv
PROPERTIES   RunningRowsEnd
CHECK_DEADLOCK FALSE
