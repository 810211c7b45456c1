\* One request and one job, on the boundary and above it, while two snapshots are taken.
SPECIFICATION Spec
CONSTANTS
  r1 = r1  j1 = j1
  Requests = {r1}
  Jobs = {j1}
  Bounds <- OneBound
  Elapsed = {1, 2}
  MaxDeltas = 1
  MaxScrapes = 2
INVARIANTS CountsAreTrue
PROPERTIES ScrapesNeverFall
