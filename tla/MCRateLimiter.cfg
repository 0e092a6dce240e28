SPECIFICATION LimiterSpec
CONSTANTS
  Keys = {k1, k2, k3}
  PerMinute = 2
  MaxKeys = 2
  Second = 2
  Minute = 5
  Horizon = 7
SYMMETRY Symmetry
INVARIANTS
  WithinRate
  RetryFindsToken
PROPERTIES
  ImplementsTokenBuckets
CHECK_DEADLOCK FALSE
