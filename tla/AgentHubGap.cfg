\* A Send between cancelClientSubs and the delete binds its waiter to a dead connection.
SPECIFICATION Spec
CONSTANTS
  n1 = n1
  c1 = c1
  c2 = c2
  c3 = c3
  k1 = k1
  k2 = k2
  r1 = r1
  r2 = r2
  Nodes = {n1}
  Conns = {c1, c2}
  Calls = {k1}
  Reqs = {r1}
  NodeOf <- OneNode
  TargetOf <- ToOneNode
  ReqOf <- SharedId
  Streaming = {}
  NoConn = NoConn
  NoCall = NoCall
  OutCap = 1
  ChanCap = 1
  MaxCrashes = 0
INVARIANT DeadConnectionCancels
CHECK_DEADLOCK FALSE
