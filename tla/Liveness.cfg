CONSTANTS
  Keys = {k1, k2}
  NoKey = NoKey
  Kinds = {"load", "page", "other"}
  QueueMax = 2
  Tries = 2
  MaxSeq = 4
  MaxRequests = 2
  MaxReloads = 1
  None = None
  Files = {f1}
  Hands = {h1}
  Timer = timer
  Hours = 2
  Crashes = 1
  Turns = 2
SPECIFICATION LivenessSpec
INVARIANTS TypesOK PlaysLastChosen
PROPERTIES ImplementsRoom OverdueLeaves FailureIsSaid PanelSettles
CHECK_DEADLOCK FALSE
