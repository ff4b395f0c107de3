SPECIFICATION FairSpec
CONSTANTS
  Drivers = {d1, d2, d3}
  LedgerOf <- OneLedger
  MaxProofs = 3
  NoDriver = NoDriver
INVARIANTS
  OwnReservation
  PublishedIsRecorded
PROPERTIES
  NeverReplaced
  ReservationConcludes
