SPECIFICATION MCSpec
CONSTANTS
  Ids = {"a", "b", "c"}
  Senders = {"s"}
  Streams = {"v"}
  Uses <- MCUses
  Earlier = {"c"}
  Capacity = 2
  Horizon = 3
  Connects = {k1, k2}
  Executes = {"e"}
  MaxSessions = 2
  Callers = {k1, k2}
  MaxAdapters = 3
  MaxLines = 2
  MaxTasks = 1
  MaxEvents = 3
INVARIANTS EndIsReported PeersAgree McpServes
PROPERTIES CallsEnd
CHECK_DEADLOCK FALSE
