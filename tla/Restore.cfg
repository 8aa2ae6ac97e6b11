\* The master: a fan-out to two nodes, a single restore, an eviction, a disconnect.
\* The node: two container restores, two acts of others, one failure.
SPECIFICATION BothSpec
CONSTANTS
  w1 = w1
  w2 = w2
  s1 = s1
  r1 = r1
  r2 = r2
  x = x
  y = y
  Backups = {x}
  Runs = {r1, r2}
  Workers = {w1, w2, s1}
  Singles = {s1}
  RunOf <- FanOutRuns
  TasksOf <- FanOutTasks
  NoBackup = NoBackup
  NoWorker = NoWorker
  Concurrency = 2
  MaxEvicts = 1
  MaxCuts = 1
  Restores = {"first", "second"}
  Snapshots <- Pairs
  HostPorts = {1, 2, 3}
  MaxRivals = 2
  MaxMishaps = 1
INVARIANTS RestoreInv OnePullPerRun  OneRivalAbsorbed
CHECK_DEADLOCK FALSE
