SPECIFICATION FairSpec
CONSTANTS
  Runs = {r1, r2}
  Streams = {r2}
  Closers = {d1, d2}
  NumPlugins = 2
  MaxSteps = 2
  MaxTokens = 1
  RefillRate = 1
  MaxResets = 1
CHECK_DEADLOCK FALSE
INVARIANTS DisposedForGood WaitersAreServed
PROPERTIES RunsEnd
