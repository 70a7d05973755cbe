SPECIFICATION MCSpec
CONSTANTS
  Size = 2
  Strategies = {"one-for-one", "one-for-all", "rest-for-one"}
  MayBeTemporary = {2}
  MaxRestarts = 1
  Walks = {p1, p2}
  MaxPings = 1
  Reported = TRUE
  Nodes = {n1, n2, n3}
  Texts = {"none", "some"}
  Empty = "none"
  MaxRounds = 3
  Calls = {1, 2, 3}
  Paths = {"p", "q"}
  Words = {"x", "y"}
  Requests <- Told
  Namings <- Directories
  Shells = {"one", "two"}
  Providers = {"v1", "v2"}
  Models = {"m1", "m2"}
  Default <- FirstModel
  Env = {"v1"}
  Servers = {"s1", "s2"}
  MaxHistory = 3
  MaxSaid = 4
INVARIANTS RunningIsWatched ForkAnswers  SessionIsTrue
PROPERTIES StoppedGetsItsTurn
CHECK_DEADLOCK FALSE
