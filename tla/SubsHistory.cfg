CONSTANTS
  Films = {f1, f2}
  None = None
  Keyed = TRUE
  MaxDay = 1
  MaxKept = 2
  MaxBusy = 1
SPECIFICATION Spec
PROPERTY KeptComesBack
CHECK_DEADLOCK FALSE
