SPECIFICATION FairSpec

CONSTANTS
  Sync = {sync}
  Async = {async}
  Defer = {}
  Base = base
  Sheet = {link}
  Inline = {}
  Object = {o1}
  Enabled = {}
  MaxRefresh = 0

PROPERTIES EveryPageConverts

CHECK_DEADLOCK FALSE
