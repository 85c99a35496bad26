SPECIFICATION Spec
CONSTANTS
  N = 1
  Number <- OneRow
  BringIRN = {1}
  Invalid = 0
  Attempts = {a1}
  Workers = {w1}
  Metered = FALSE
  Quota = 0
INVARIANTS NoRowPanics
CHECK_DEADLOCK FALSE
