\* Convergence after one failure, one crash and one lapsed client.
CONSTANTS
  Users = {u1}
  Builtins = {ws}
  Tags = {t1}
  NeedsKeys = {t1}
  Lists <- TagLists
  Handlers = {}
  MaxRequests = 0
  MaxFaults = 1
  MaxCrashes = 1
  MaxDrifts = 1
SPECIFICATION FairSpec
PROPERTIES MuReleased UsersConverge
\* main may return at any time: the program stops
CHECK_DEADLOCK FALSE
