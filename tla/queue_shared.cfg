\* Two servers on one store, two concurrent admin requests, a fault.
SPECIFICATION Spec
CONSTANTS
  Runners = {r1, r2}
  Admins = {a1, a2}
  MaxJobs = 1
  MaxAttempts = 2
  AdminMaxAttempts = {0}
  BatchLimit = 2
  Horizon = 0
  MaxClock = 2
  MaxFaults = 1
  MaxAdminRequests = 2
SYMMETRY AnyRunner
INVARIANTS RunningHasOwner
PROPERTIES DeletedStaysDeleted
