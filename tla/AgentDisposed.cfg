SPECIFICATION Spec
CONSTANTS
  Runs = {r1}
  Streams = {}
  Closers = {d1}
  NumPlugins = 2
  MaxSteps = 1
  MaxTokens = 1
  RefillRate = 1
  MaxResets = 0
CHECK_DEADLOCK FALSE
INVARIANTS NoListenerIsLeft
