\* A turn, a preview and a search, with a write by others and a failing read.
SPECIFICATION Spec
CONSTANTS
  MaxContext = 300
  Reserved = 60
  Profile = "Llama"
  MessageLimit = 3
  MemoryLimit = 1
  SearchLimit = 2
  CharacterLimit = 12
  IndexedDimension = TRUE
  PerHit = 1
  MinCandidates = 1
  MaxCandidates = 2
  DefaultLimit = 2
  MaxLimit = 3
  RowIds <- AnyId
  ChunkRow <- RowOfChunk
  NewChunk <- Chunk5
  BasePrompt <- Short
  Question <- Short
  InitialStores <- SomeStores
  NewTexts <- TwoTexts
  MaxWrites = 1
  MaxFaults = 1
INVARIANTS PreviewIsExact SearchFindsMatches BestIsSent BudgetIsKept
