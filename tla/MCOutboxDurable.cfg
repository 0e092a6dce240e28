SPECIFICATION FairOutboxSpec
CONSTANTS
  Users = {u1}
  Events = {e1}
  Notifiers = {n1}
  Workers = {w1}
  BatchSize = 1
  MaxAttempts = 2
  MaxFaults = 1
PROPERTIES
  DurableDelivery
