\* One server, one admin request at a time, faults and restarts.
SPECIFICATION FairSpec
CONSTANTS
  Runners = {r1}
  Admins = {a1}
  MaxJobs = 2
  MaxAttempts = 2
  AdminMaxAttempts = {0, 1}
  BatchLimit = 2
  Horizon = 1
  MaxClock = 20
  MaxFaults = 2
  MaxAdminRequests = 2
INVARIANTS TypeOK OwnerSeesTruth AttemptAccounting
PROPERTIES ClaimsInScheduleOrder ImplementsLifecycle SettledOrOrphaned
