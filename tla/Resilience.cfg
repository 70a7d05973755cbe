SPECIFICATION MCSpec
CONSTANTS
  c1 = c1  c2 = c2  c3 = c3  k1 = k1  k2 = k2
  Calls = {c1, c2, c3}
  FailureThreshold = 3
  ResetTimeout = 2
  MonitorWindow = 4
  Callers = {c1, c2}  Keys = {k1, k2}  MaxRuns = 2  CacheSize = 1  Ttl = 1
  Threshold = 2  ResetAfter = 1  Window = 1
  Preserves = {0, 1, 2}  Sizes = {1, 2, 5}  Reference = 1  SummarySizes = {1, 2}
  OffloadAbove = 4  SummarizeAbove = 5  TruncateAbove = 7  MaxSaid = 5  MaxSystem = 3
  Askers = {c1, c2, c3}  Documents <- AllDocuments
INVARIANTS QuietBeforeProbe ConversationIsWhole RetrievalIsWhole
PROPERTIES Recovers GuardsHold CallsAreAnswered
CHECK_DEADLOCK FALSE
