SPECIFICATION Spec
CONSTANTS
  Drivers = {d1, d2}
  LedgerOf <- OwnLedgers
  MaxProofs = 2
  NoDriver = NoDriver
PROPERTIES
  NeverReplaced
