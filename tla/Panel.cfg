\* Two batches over two nodes; a schedule over two nodes; one alert rule; two
\* watched containers; two browsers and two broadcasters.
SPECIFICATION PanelLiveSpec
CONSTANTS
  b1 = b1
  b2 = b2
  b3 = b3
  u1 = u1
  u2 = u2
  u3 = u3
  n1 = n1
  n2 = n2
  Batches = {b1, b2}
  Units = {u1, u2, u3}
  UnitsOf <- TwoBatches
  Nodes = {n1, n2}
  NodeOf <- TwoNodes
  Restic = {u2}
  Direct = {u1}
  NoUnit = NoUnit
  NoBatch = NoBatch
  MaxDrops = 1
  UpdNodes = {n1, n2}
  Bases = {"web"}
  MaxEdits = 2
  MaxFaults = 1
  Window = 2
  MaxChanges = 4
  MaxTrouble = 1
  Watched = {"c1", "c2"}
  Shown = {"a", "b"}
  MaxIncidents = 2
  Browsers = {"b1", "b2"}
  Senders = {"s1", "s2"}
  SendCap = 2
INVARIANTS BatchInv RetriedUntilLate AnnouncedOnce OutageOnce BrowserInv
PROPERTIES BatchStepsSound EveryBatchReported  EditsArm  WriterlessLeave
CHECK_DEADLOCK FALSE
