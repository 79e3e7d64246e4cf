SPECIFICATION Spec
CONSTANTS
  MaxTurns = 5
  MaxPieces = 3
  MaxCalls = 2
  MaxBlocks = 3
  MaxCapture = 5
  ParallelLines = FALSE
INVARIANTS
  TypeOK
  TurnsKept
  WellShaped
  CacheKeyStable
  EffortFits
  HeardIsSaid
  ReasonIsTrue
  ReportedOnce
  ReportIsTrue
PROPERTIES
  ExchangeEnds
  IsReply
