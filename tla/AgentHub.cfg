\* One node, two connections, two one-shot callers with distinct IDs.
SPECIFICATION Spec
CONSTANTS
  n1 = n1
  c1 = c1
  c2 = c2
  c3 = c3
  k1 = k1
  k2 = k2
  r1 = r1
  r2 = r2
  Nodes = {n1}
  Conns = {c1, c2}
  Calls = {k1, k2}
  Reqs = {r1, r2}
  NodeOf <- OneNode
  TargetOf <- ToOneNode
  ReqOf <- DistinctIds
  Streaming = {k2}
  NoConn = NoConn
  NoCall = NoCall
  OutCap = 1
  ChanCap = 1
  MaxCrashes = 1
SYMMETRY Symmetry
INVARIANTS TypeOK RegistrationConsistent SubscriptionsConsistent FailedSendNotExecuted ReplyMeansExecuted
PROPERTIES ImplementsRpc
CHECK_DEADLOCK FALSE
