SPECIFICATION Spec
CONSTANTS
  Aggs = {a1, a2}
  Requests = {o1, o2}
  MaxInvs = 3
  None = None
SYMMETRY Symmetry
CONSTRAINT OneMishap
INVARIANTS LinkIsAccepted AcceptedIsLinked OneActiveInvitation HistoryAgrees
PROPERTIES NoTakeover
CHECK_DEADLOCK FALSE
