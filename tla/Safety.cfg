CONSTANTS
  Taps = {t1, t2, t3}
  Pages = {p1}
  Outcomes = {o1}
  NoOutcome = NoOutcome
  LogMax = 2
  Films = {f1, f2}
  NoFilm = NoFilm
  None = None
  Rooms = {r1, r2}
  Requests = {q1, q2}
  Conns = {c1, c2}
  Acts = 5
  Turns = 3
  Days = 1
SPECIFICATION SafetySpec
INVARIANTS TypesOK OneLinePerTap AnswerBelongsToTap NoBannerOverLive BridgeBeforeError FocusIsSeen OneBrowserPerPage NoSeam SendingIsSent OneShow SeriesOnceEach PartsLeftOut UnmarkedIsExact
PROPERTIES ResumeKeepsPlace LeftIsStopped
CHECK_DEADLOCK FALSE
