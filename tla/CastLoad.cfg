CONSTANTS
  Films = {film, hls}
  NoFilm = NoFilm
  Ours = {}
  Adaptive = {hls}
  Locked = {}
  MaxActs = 3
SPECIFICATION FairSpec
INVARIANT TvShowsTheChoice
PROPERTY LoadAnswered
CHECK_DEADLOCK FALSE
