SPECIFICATION Spec
CONSTANTS
  Refs = {"r1"}
  First = "r1"
  Small = 1
  Large = 2
  Quota <- MCQuota
  Deliveries = {d1, d2, d3}
  Requests = {u1, u2, u3}
  Kinds = {"success", "other"}
  Cycle = 1
  MaxNow = 2
  MaxRows = 2
SYMMETRY Symmetry
INVARIANTS AcceptedWithinGranted QuotaCovered ChargedWithinBought
PROPERTIES OnlyStaleCopiesDeactivate
CHECK_DEADLOCK FALSE
