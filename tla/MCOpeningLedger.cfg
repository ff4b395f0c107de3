SPECIFICATION Spec
CONSTANTS
  Drivers = {d1, d2}
  Roots = {r1, r2}
  Columns = {c1, c2, c3, c4}
  T_QUERIES = 2
  Slack = 6
  NoRoot = NoRoot
SYMMETRY Symmetry
INVARIANTS
  BookedBeforeReleased
  LedgerIsFresh
PROPERTIES
  ImplementsPadBudget
