\* A transfer while main shuts down.
CONSTANTS
  Users = {u1}
  Quota = 0
  MaxBytes = 2
  MaxFaults = 0
  MaxCrashes = 0
  MaxRestarts = 0
  MaxDeletes = 0
SPECIFICATION Spec
INVARIANTS NoLossOnRedeploy
CHECK_DEADLOCK FALSE
