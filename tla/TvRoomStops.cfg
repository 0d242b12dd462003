CONSTANTS
  Keys = {k1}
  NoKey = NoKey
  Kinds = {"load", "stop"}
  QueueMax = 2
  Tries = 2
  MaxSeq = 3
  MaxRequests = 2
  MaxReloads = 0
SPECIFICATION Spec
INVARIANT DisconnectStops
CHECK_DEADLOCK FALSE
