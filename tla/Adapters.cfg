SPECIFICATION MCSpec
CONSTANTS
  w1 = w1  w2 = w2  w3 = w3  w4 = w4  a = a  b = b  h = h  c1 = c1  c2 = c2
  r1 = r1  r2 = r2  d1 = d1  d2 = d2
  None = None  Undefined = Undefined
  Writers = {w1, w2, w3}
  Operations = {"set", "delete", "cas", "merge"}
  MaxRetries = 1
  FileNames = {a, b, h, "persistent"}  DotDotNames = {}  HiddenNames = {h}  FileContents = {c1, c2}
  FileCalls <- MCFileCalls
  StoreCalls = {c1, c2, w3}  StoreFiles = {a}  Entries = {w1, w2}
  CleaningCalls = {c1, c2}  StoredSessions = {a, b}
  MaxSessions = 1  MaxCheckpoints = 3  RunSteps = {0, 1}  Keeps = {1}
  Requests = {a, b}  MaxTokens = 1
  EventTypes = {a, b}  EventTimes = {1, 2}  EventData = {1}  Children = {c1}
  MaxBubbles = 1  BufferSize = 1  MaxEntries = 1  MaxChunks = 3
  Webhooks <- MCWebhooks  MaxTold = 4  MaxWebhooks = 2
  ObservedRuns = {r1, r2}  ObservedCalls = {d1, d2}  ObservedSessions = {a}  ObservedTools = {b}  ObservedUsers <- MCUsers
  MaxSpans = 3  Budget = 1  UsedTokens = {1}
INVARIANTS OneWinnerPerVersion FilesAgree StoresKeep ClientsAreTold HandlersCleanUp RecordsAreTrue
SYMMETRY MCSymmetry
CHECK_DEADLOCK FALSE
