SPECIFICATION Spec
CONSTANTS
  Deliveries = {d1, d2}
  Authorisations = {a1}
  IRNs = {i1}
  NoIRN = NoIRN
  Lifetime = 2
  Margin = 1
  MaxNow = 3
  MaxTokens = 3
SYMMETRY Symmetry
CONSTRAINT Bounds
INVARIANTS ToldIsRecorded SuccessWasPerformed EndIsRecorded NewestRefreshToken FreshIsValid
CHECK_DEADLOCK FALSE
