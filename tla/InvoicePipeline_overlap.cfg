SPECIFICATION Spec
CONSTANTS
  Ops = {u1, u2}
  Payments = {}
  RowIds = {1, 2}
  MaxDay = 1
  Supplied = {0}
  Declared = {"PENDING"}
SYMMETRY Symmetry
INVARIANTS ClaimedIsSigned OneRecord SignedOnce
PROPERTIES FirsOrder SuccessWasPerformed SignedStays
CHECK_DEADLOCK FALSE
