CONSTANTS
  Object = {o1, o2}
  Handle = {h1, h2}
  Url = {u1}
  NULL = NULL
  Moved = Moved
  Enabled = {"abort", "PROGRESS", "ERROR",
             "callback_error", "NOTMODIFIED", "REDIRECT", "clone"}
  NoCache = {"FRESH"}
  REDIRECT_LIMIT = 0
  MaxLen = 1
  MaxTime = 2
  MaxCandidates = 1
SPECIFICATION Spec
INVARIANTS TypeOK UsersConsistent WalkIsSafe CandidateIsKept ServedWhole
PROPERTIES DoneHasAll
SYMMETRY Symmetry
