SPECIFICATION FairSpec
CONSTANTS
  N = 3
  Number <- TwoNumbers
  BringIRN = {2}
  Invalid = 1
  Attempts = {a1}
  Workers = {w1, w2}
  Metered = TRUE
  Quota = 1
INVARIANTS TypeOK LogAddsUp
PROPERTIES AttemptsEnd
CHECK_DEADLOCK FALSE
