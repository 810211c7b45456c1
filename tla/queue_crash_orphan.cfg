\* One server that may fail and is restarted: a job stays Running for ever.
SPECIFICATION FairSpec
CONSTANTS
  Runners = {r1}
  Admins = {a1}
  MaxJobs = 1
  MaxAttempts = 2
  AdminMaxAttempts = {0}
  BatchLimit = 2
  Horizon = 0
  MaxClock = 20
  MaxFaults = 1
  MaxAdminRequests = 0
PROPERTIES DurableJobs
