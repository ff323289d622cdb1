\* One request, one failed operation, one crash.
CONSTANTS
  Users = {u1}
  Builtins = {ws}
  Tags = {t1}
  NeedsKeys = {t1}
  Lists <- ListsOf
  Handlers = {h1}
  MaxRequests = 1
  MaxFaults = 1
  MaxCrashes = 1
  MaxDrifts = 0
SPECIFICATION Spec
INVARIANTS OneEngine FingerprintHonest ActiveHonest Fresh
PROPERTIES ImplementsEngine NoNeedlessRestart
\* main may return at any time: the program stops
CHECK_DEADLOCK FALSE
