\* A mesh of two nodes under the round and one request; two hosts for two nodes; a
\* command on two nodes with output, disconnects and a restart.
SPECIFICATION NodesLiveSpec
CONSTANTS
  n1 = n1
  n2 = n2
  x4 = x4
  x6 = x6
  c1 = c1
  c2 = c2
  MeshNodes = {n1, n2}
  Puts = {"p1"}
  V4 = {x4}
  V6 = {x6}
  Bodies <- TwoBodies
  MaxFaults = 1
  Hosts = {"h1", "h2"}
  NodeIds = {"a", "b"}
  MaxAdmin = 3
  MaxLinkFaults = 1
  Commands = {c1}
  Nodes = {n1, n2}
  NodesOf <- OnBoth
  MaxLines = 2
  ChanCap = 1
  MaxCrashes = 1
INVARIANTS  CommandInv FinishedAfterAll
PROPERTIES MeshConverges EntitledConnects  EveryNodeReports
CHECK_DEADLOCK FALSE
