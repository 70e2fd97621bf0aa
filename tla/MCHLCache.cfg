CONSTANTS
  Handle = {h1, h2, h3}
  Low = {l1, l2, l3}
  Content = {c1, c2}
  Source = {x1}
  Window = {w1, w2}
  NULL = NULL
  Enabled = {"abort", "download", "refuse", "fail", "ERROR"}
SPECIFICATION Spec
INVARIANTS OneOwner UsersConsistent CallsAreSafe ToldStatus
PROPERTIES ImplementsProtocol
SYMMETRY Symmetry
