CONSTANTS
  Object = {o1}
  Handle = {h1, h2}
  Url = {u1}
  NULL = NULL
  Moved = Moved
  Enabled = {"NEED_DATA", "ERROR", "CERT_ERR", "SSL_ERR", "AUTH",
             "force_fetch", "invalidate", "force_stream"}
  NoCache = {"FRESH"}
  REDIRECT_LIMIT = 0
  MaxLen = 1
  MaxTime = 1
  MaxCandidates = 1
SPECIFICATION FairSpec
INVARIANTS WorkIsPending
PROPERTIES EveryoneIsTold
