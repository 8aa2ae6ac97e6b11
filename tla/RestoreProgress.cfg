\* A single restore whose agent streams progress.
SPECIFICATION BothSpec
CONSTANTS
  w1 = w1
  w2 = w2
  s1 = s1
  r1 = r1
  r2 = r2
  x = x
  y = y
  Backups = {x}
  Runs = {r2}
  Workers = {s1}
  Singles = {s1}
  RunOf <- SingleRun
  TasksOf <- SingleTask
  NoBackup = NoBackup
  NoWorker = NoWorker
  Concurrency = 1
  MaxEvicts = 0
  MaxCuts = 0
  Restores = {"first"}
  Snapshots <- OneArchive
  HostPorts = {1}
  MaxRivals = 0
  MaxMishaps = 0
PROPERTIES ProgressIsNotResult
CHECK_DEADLOCK FALSE
