\* Two servers that start together, stopped twice, beside one of the old release.
SPECIFICATION FairMigrationSpec
CONSTANTS
  Servers = {s1, s2}
  Last = 3
  Statements <- FewStatements
  Ownership = 2
  DefineOwner = 1
  UpdateOwner = 2
  Games = {g1, g2}
  Users = {u}
  MaxStops = 2
INVARIANTS RecordedIsApplied ServingHasSchema EveryGameHasOwner
PROPERTIES StartsOrStops
\* Nothing is left to do when every server serves and every game exists.
CHECK_DEADLOCK FALSE
