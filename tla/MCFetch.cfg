CONSTANTS
  f1 = f1  f2 = f2  f3 = f3  f4 = f4
  Fetch = {f1, f2, f3, f4}
  NoFetch = NoFetch
  host <- Hosts
  scheme <- Schemes
  CurlSchemes = {"http"}
  RingSchemes = {"data"}
  fetchers <- DataThenHttp
  MayFail = {f2}
  max_fetchers = 2
  max_fetchers_per_host = 1
SPECIFICATION FairSpec
INVARIANTS TypeOK OneRing ActiveFlag AbortIsSafe FetchersAgree
PROPERTIES FetchEnds
