SPECIFICATION Spec
CONSTANTS
  Slots = 3
  MaxAttempts = 3
  TaskTypes = {a, b, c, d}
  SpecTypes = {a, b}
  a = a
  b = b
  c = c
  d = d
INVARIANTS
  LimitNeverReached
  RetryIsFresh
  ProgressIsTruthful
PROPERTIES
  ImplementsRun
CHECK_DEADLOCK FALSE
