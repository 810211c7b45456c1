\* Two requests at a time, of two users, one with every operation; one call fails.
SPECIFICATION Spec
CONSTANTS
  u1 = u1  u2 = u2  g1 = g1  s1 = s1  s2 = s2  c1 = c1  r1 = r1  r2 = r2
  Users = {u1, u2}
  Games = {g1}
  Sessions = {s1, s2}
  Characters = {c1}
  Requests = {r1, r2}
  Ops <- OpsOf
  Sizes = {1}
  Default = 2
  Cap = 3
  MaxFaults = 1
SYMMETRY Alike
INVARIANTS StoreIsSound OwnRecordsOnly PagesAreStable
