\* Both collectors, a restart, a crash, a failed operation, a deleted client, and
\* a quota that is reached.  Two sessions whose time runs out.
CONSTANTS
  Users = {u1}
  Quota = 2
  MaxBytes = 3
  MaxFaults = 1
  MaxCrashes = 1
  MaxRestarts = 1
  MaxDeletes = 1
  Tokens = {t1, t2}
  Requests = {r1}
  Ttl = 1
  SweepEvery = 2
  MaxClock = 2
  MaxBoots = 0
SPECIFICATION AllSpec
PROPERTIES ImplementsBilling QuotaEnforced LiveConverges ExpiredLeave
\* nothing moves once the program has stopped
CHECK_DEADLOCK FALSE
