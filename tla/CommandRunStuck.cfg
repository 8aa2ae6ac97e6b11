\* A command one of whose nodes is offline.
SPECIFICATION LiveSpec
CONSTANTS
  c1 = c1
  c2 = c2
  n1 = n1
  n2 = n2
  Commands = {c1}
  Nodes = {n1, n2}
  NodesOf <- OnBoth
  MaxLines = 0
  ChanCap = 1
  MaxCrashes = 0
PROPERTIES ReportedCommandsFinish
CHECK_DEADLOCK FALSE
