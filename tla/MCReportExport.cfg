SPECIFICATION ExportSpec
CONSTANTS
  Users = {1, 2}
  Operations <- SmallGroup
  Exports = {1}
  Readers = {s1}
  PageLimit = 1
  BatchSize = 1
  Chunks = 2
  MaxFaults = 2
INVARIANTS
  ReportWhole
  ExportsTellTruth
  SentOnce
CHECK_DEADLOCK FALSE
