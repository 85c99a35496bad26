SPECIFICATION SequentialSpec
CONSTANTS
  Ops = {u1, u2, u3}
  Payments = {}
  RowIds = {1}
  MaxDay = 1
  Supplied = {}
  Declared = {"PENDING"}
SYMMETRY Symmetry
PROPERTIES RejectedIsNotSigned
CHECK_DEADLOCK FALSE
