SPECIFICATION Spec
CONSTANTS
  Tapes <- SmallTapes
  Budgets <- AnyBudget
  MaxProofs = 2
INVARIANTS
  NoMissingValue
  SameWitnessEverySweep
  ProjectedOncePerProof
  LiveIsNeeded
CHECK_DEADLOCK FALSE
