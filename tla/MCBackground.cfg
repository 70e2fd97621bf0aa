CONSTANTS
  jpeg = jpeg  png = png  gif = gif  page = page
  Image = {jpeg, png}
  Png = {png}
  Gif = {gif}
  Page = {page}
  NULL = NULL
  Size <- Sizes
  Small = {jpeg, png}
  Limit = 2
  Hysteresis = 1
  CleanTime = 1
  UpdateInterval = 1
  CleanInterval = 2
  FrameInterval = 0
SPECIFICATION FairSpec
CHECK_DEADLOCK FALSE
INVARIANTS CacheConsistent PendingOnce WakesInTime
PROPERTIES DueIsCalled
