SPECIFICATION Spec
CONSTANTS
  Writers = {w1, w2}
  Operations = {"merge"}
  MaxRetries = 3
INVARIANTS NoMergeLost
CHECK_DEADLOCK FALSE
