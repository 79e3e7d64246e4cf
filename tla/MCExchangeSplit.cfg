SPECIFICATION Spec
CONSTANTS
  MaxTurns = 1
  MaxPieces = 1
  MaxCalls = 1
  MaxBlocks = 1
  MaxCapture = 5
  ParallelLines = FALSE
INVARIANTS
  SplitIsMetered
