\* Two concurrent turns of a session, clients that leave, one fault.
SPECIFICATION FairSpec
CONSTANTS
  t1 = t1  t2 = t2
  Turns <- TwoTurns
  Capacity = 1
  MaxDeltas = 2
  MaxFaults = 1
INVARIANTS StoredWhole ToldTheTruth
PROPERTIES KeepsPromise EveryTurnEnds
\* The system stops when every turn has ended and every client has been told.
CHECK_DEADLOCK FALSE
