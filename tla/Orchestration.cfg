SPECIFICATION MCSpec
CONSTANTS
  Parts = {"graph", "workflow", "changes"}
  Ids = {s1, s2, s3, s4}
  NoTask = NoTask
  Tasks = {"a", "b", "c", "d"}
  Deps <- Join
  Tokens <- Usage
  MaxTokenBudget = 4
  MayAbandon = TRUE
  Priority <- OnePriority
  Workers = {k1, k2}
  InitialSize = 2
  MinSize = 1
  MaxSize = 2
  GrowThreshold = 10
  TaskTimeouts = TRUE
  DrainTimeouts = TRUE
  Steps = {"u", "v", "w", "g", "b1", "b2", "all", "first", "race", "loop", "choice", "maybe"}
  Definitions <- Workflows
  Kind <- Kinds
  Children <- Nested
  Strategy <- Merge
  Conditional = {"v"}
  Undoable = {"u", "v", "w", "g", "b1", "b2"}
  MaxAttempts = 3
  MaxIterations = 2
INVARIANTS DependenciesFirst NeverStalls NothingIsForgotten StaysSound
PROPERTIES RunReturns KeepsTheSaga WorkflowEnds
CHECK_DEADLOCK FALSE
