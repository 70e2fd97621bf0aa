SPECIFICATION Spec

CONSTANTS
  Root = root
  Frame = {frame}
  Handle = {1, 2, 3, 4, 5, 6, 7, 8, 9, 10}
  Page = {p, q}
  FramePage = FramePage
  NULL = NULL
  MaxClicks = 3

INVARIANTS OneOwner AssertionsHold ThrobberShows EntryIsShown

CHECK_DEADLOCK FALSE
