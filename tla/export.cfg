\* Either command, beside a write and a fault.
SPECIFICATION FairSpec
CONSTANTS
  s1 = s1  s2 = s2
  Sessions = {s1, s2}
  InitialStore <- SmallGame
  Capacity = 2
  Limit = 2
  MaxWrites = 2
  MaxFaults = 1
INVARIANTS BackupIsTrue OnlyWholeIsTaken
PROPERTIES ExportEnds
