SPECIFICATION FairOutboxSpec
CONSTANTS
  Users = {u1}
  Events = {e1}
  Notifiers = {n1}
  Workers = {w1, w2}
  BatchSize = 2
  MaxAttempts = 2
  MaxFaults = 2
INVARIANTS
  HeldByOne
  TriesExplainOutcome
PROPERTIES
  EventuallySettled
