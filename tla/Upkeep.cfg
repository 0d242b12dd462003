CONSTANTS
  Codes = {c1, c2}
  NoCode = NoCode
  MaxPush = 2
  NewDeps = {2}
  MaxTurns = 2
  Faults = {"unreachable", "stale"}
  Names = {"ann", "own"}
  Owner = "own"
  Scopes = {"storage"}
  Limit = 1
SPECIFICATION UpkeepSpec
INVARIANTS TypesOK
PROPERTIES ShowsACode CatchesUpOrMissing ComplaintsSettle OwnerGetsIn
CHECK_DEADLOCK FALSE
