SPECIFICATION Spec
CONSTANTS
  Ops = {u1, u2}
  Payments = {p1, p2}
  RowIds = {1}
  MaxDay = 1
  Supplied = {}
  Declared = {"PENDING", "PAID"}
SYMMETRY Symmetry
CONSTRAINT OneMishap
INVARIANTS PaymentAgrees
CHECK_DEADLOCK FALSE
