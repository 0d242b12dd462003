CONSTANTS
  Taps = {t1, t2}
  Live = 2
  Rejoin = 3
  Urls = {u1, u2}
  Devices = {d1, d2}
  Cap = 2
  Limit = 2
  MaxActs = 3
  MaxLosses = 1
  MaxWire = 2
  Films = {f1, f2}
  People = {a}
  None = None
  MaxLines = 2
  QueueCap = 1
  PreCap = 1
  MaxFaults = 1
  MaxTurns = 3
  Runs = 2
  PushTurns = 2
SPECIFICATION PartsSpec
INVARIANTS TypesOK ActXorGiveUp LogIsOfItsFilm
PROPERTIES EveryTapAnswered RowsReachDevices OffMeansOff
CHECK_DEADLOCK FALSE
