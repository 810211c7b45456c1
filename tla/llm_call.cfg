\* Every operation, every answer, every way to cut a body into pieces.
SPECIFICATION FairCallSpec
CONSTANTS
  Configs <- ConfigChoices
  Ops <- AllOps
  Bodies <- TwoEvents
  Answers <- AllAnswers
  Delimiters <- BothDelimiters
  MaxRetries = 3
  BaseDelay = 3
  MaxShift = 1
INVARIANTS RepeatsAreRight ContentsAreTrue
PROPERTIES CallEnds
