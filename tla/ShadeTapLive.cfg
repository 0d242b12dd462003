CONSTANTS
  NTaps = 1
  Pages = {p1, p2}
  MaxOpen = 1
  MaxTasks = 9
SPECIFICATION FairSpec
PROPERTIES EveryRoadAsks
CHECK_DEADLOCK FALSE
