SPECIFICATION FairReceiptSpec
CONSTANTS
  Receipts = {r1}
  Handlers = {h1, h2}
  MaxAttempts = 2
  MaxJobs = 3
  MaxFailures = 1
INVARIANTS
  RecordsTellTruth
PROPERTIES
  FinishedForGood
  JobsSettle
  DeletedIsPurged
CHECK_DEADLOCK FALSE
