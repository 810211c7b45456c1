\* Two workers on one store, two turns, a call that fails or a worker that stops,
\* and an admin who retries or purges the job that failed.
SPECIFICATION Spec
CONSTANTS
  Workers = {w1, w2}
  Extractions <- OneExtraction
  Window = 1
  FactLimit = 1
  MaxAttempts = 1
  AdminAttempts = {}
  MaxTurns = 2
  MaxFaults = 1
  MaxReopens = 1
SYMMETRY AnyWorker
INVARIANTS UniqueEntities SucceededIsWhole 
PROPERTIES SummaryKeeps
\* The system stops when no turn is left and every job is settled or stranded.
CHECK_DEADLOCK FALSE
