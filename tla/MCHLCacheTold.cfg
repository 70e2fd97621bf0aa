CONSTANTS
  Handle = {h1, h2}
  Low = {l1, l2}
  Content = {c1, c2}
  Source = {x1}
  Window = {w1, w2}
  NULL = NULL
  Enabled = {"abort", "download", "refuse", "fail", "ERROR"}
SPECIFICATION FairSpec
PROPERTIES EveryHandleTold UnusedGo
