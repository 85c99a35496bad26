SPECIFICATION Spec
CONSTANTS
  N = 1
  Number <- OneRow
  BringIRN = {}
  Invalid = 1
  Attempts = {a1, a2}
  Workers = {w1}
  Metered = TRUE
  Quota = 2
INVARIANTS NothingOverstated QuotaMatchesRecords RecordsPerNumber DoneIsClosed
PROPERTIES ClosedStays
CHECK_DEADLOCK FALSE
