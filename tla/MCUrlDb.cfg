CONSTANTS
  Site <- Sites
  UrlPath <- Paths
  Name = {n}
  NULL = NULL
  Empty = ""
  Segments <- Sorted
  Longer <- Begin
  Expiry <- Times
  MaxCookies = 2
  MaxUrls = 2
  MaxTime = 2
SPECIFICATION Spec
INVARIANTS FindsUrls SentIsRight
