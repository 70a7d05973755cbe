SPECIFICATION Spec
CONSTANTS
  t1 = t1  t2 = t2  t3 = t3  root = root  y1 = y1  y2 = y2
  NoTask = NoTask
  Tasks = {t1, t2, t3}
  ParentOf <- FlatParent
  DepthOf <- FlatDepth
  Waiters = {}
  MaxConcurrentPerParent = 4
  MaxQueueSize = 3
  MaxDepth = 1
  HandleLimit = 5
  Types = {y1}
  TypeOf <- OneType
  MinWorkers = 1
  MaxWorkers = 1
  ScaleUp = 8
  ScaleDown = 3
  FailureThreshold = 2
INVARIANTS RefusedHandleFails
