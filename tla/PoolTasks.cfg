SPECIFICATION MCPoolSpec
CONSTANTS
  Parts = {"pool"}
  Ids = {}
  NoTask = NoTask
  Tasks = {"j1", "j2", "j3", "j4"}
  Deps <- Apart
  Tokens <- Usage
  MaxTokenBudget = 4
  MayAbandon = TRUE
  Priority <- FirstOfAll
  Workers = {k1, k2, k3}
  InitialSize = 1
  MinSize = 1
  MaxSize = 2
  GrowThreshold = 1
  TaskTimeouts = TRUE
  DrainTimeouts = TRUE
  Steps = {"first", "u", "b1", "b2"}
  Definitions <- Single
  Kind <- Kinds
  Children <- Nested
  Strategy <- Merge
  Conditional = {}
  Undoable = {}
  MaxAttempts = 1
  MaxIterations = 1
INVARIANTS DrainedMeansSettled
PROPERTIES EveryTaskSettles
CHECK_DEADLOCK FALSE
