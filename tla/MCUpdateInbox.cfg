SPECIFICATION FairInboxSpec
CONSTANTS
  Updates <- ThreeUpdates
  Workers = {w1, w2}
  BatchSize = 1
  MaxAttempts = 2
  MaxFaults = 1
INVARIANTS
  NewestEventWins
  AttemptsExplainOutcome
PROPERTIES
  NoneLost
