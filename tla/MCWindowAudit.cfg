SPECIFICATION FairSpec
CONSTANTS
  Tapes <- SmallTapes
  Params <- SmallParams
  MaxWrong = 1
INVARIANTS
  NeverRaises
  CheckedIsBound
  C0IsTheWitness
  VerdictIsRight
  RetainedIsNeeded
  PaddedOnce
PROPERTIES
  ImplementsSession
CHECK_DEADLOCK FALSE
