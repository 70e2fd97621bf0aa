CONSTANTS
  Object = {o1, o2}
  Handle = {h1, h2}
  Url = {u1}
  NULL = NULL
  Moved = Moved
  Enabled = {"NOTMODIFIED", "abort"}
  NoCache = {"ALWAYS", "FRESH"}
  REDIRECT_LIMIT = 0
  MaxLen = 1
  MaxTime = 1
  MaxCandidates = 1
SPECIFICATION Spec
INVARIANTS AbortedIsNotServed
SYMMETRY Symmetry
