SPECIFICATION PlannedSpec
CONSTANTS
  N = 3
  RowsOf <- MCRowsOf
  Base = 3
  Claims <- MCClaims
  ChunkRows = 2
  Plans <- MCPlans
  Away <- MCAway
  SLOTS = 2
  Slots_ <- MCSlots_
  Questions <- MCQuestions
INVARIANTS
  AcceptedTiles
  RefusedForCause
  FoldedOnce
  OpenedInPlace
  PlannedIsBest
CHECK_DEADLOCK FALSE
