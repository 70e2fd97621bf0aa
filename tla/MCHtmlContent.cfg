SPECIFICATION FairSpec

CONSTANTS
  Sync = {sync}
  Async = {async}
  Defer = {defer}
  Base = base
  Sheet = {link, style}
  Inline = {style}
  Object = {o1, o2}
  Enabled = {"abort", "refresh", "refuse", "close"}
  MaxRefresh = 2

INVARIANTS ActiveCounts NoLateCalls DoneIsLoaded

PROPERTIES StagesInOrder PageLoads

CHECK_DEADLOCK FALSE
