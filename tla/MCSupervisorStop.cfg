\* A request in flight while main shuts down.
CONSTANTS
  Users = {u1}
  Builtins = {ws}
  Tags = {}
  NeedsKeys = {}
  Lists <- ListsOf
  Handlers = {h1}
  MaxRequests = 1
  MaxFaults = 0
  MaxCrashes = 0
  MaxDrifts = 0
SPECIFICATION Spec
INVARIANTS StopIsFinal
CHECK_DEADLOCK FALSE
