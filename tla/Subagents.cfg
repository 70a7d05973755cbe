SPECIFICATION FairSpec
CONSTANTS
  t1 = t1  t2 = t2  t3 = t3  root = root  y1 = y1  y2 = y2
  NoTask = NoTask
  Tasks = {t1, t2, t3}
  ParentOf <- NestedParent
  DepthOf <- NestedDepth
  Waiters = {w1, w2}
  MaxConcurrentPerParent = 2
  MaxQueueSize = 2
  MaxDepth = 3
  HandleLimit = 2
  Types = {y1, y2}
  TypeOf <- TwoTypes
  MinWorkers = 2
  MaxWorkers = 3
  ScaleUp = 4
  ScaleDown = 3
  FailureThreshold = 1
INVARIANTS SlotAccounting NoLostWakeup
PROPERTIES ServedAtMostOnce CancelCascades HandleSettles
