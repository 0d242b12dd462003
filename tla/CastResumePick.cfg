CONSTANTS
  Films = {f1, f2}
  NoFilm = NoFilm
  MaxActs = 3
  Lives = 1
SPECIFICATION Spec
PROPERTY PickIsSent
CHECK_DEADLOCK FALSE
