SPECIFICATION FairSpec
CONSTANTS
  Refs = {"r1", "r2"}
  First = "r1"
  Small = 1
  Large = 2
  Quota <- MCQuota
  Deliveries = {d1, d2, d3}
  Requests = {u1}
  Kinds = {"success", "failed"}
  Cycle = 1
  MaxNow = 0
  MaxRows = 3
INVARIANTS OneGrantPerPayment
PROPERTIES PaidIsGranted OneSubscriptionRow
CHECK_DEADLOCK FALSE
