SPECIFICATION Spec
CONSTANTS
  Files = {f1}
  Hands = {h1}
  Timer = timer
  Keeps = {0}
  FILE_TTL = 2
  TMP_TTL = 1
  MaxNow = 2
  MaxCrashes = 0
INVARIANT
  KeptAsPromised
