CONSTANTS
  Downstream = 2
  MaxEvents = 5
SPECIFICATION EvidenceSpec
INVARIANTS RowsAreCanonical OnlyRejectionDrops NothingStranded EndedIsDurableAtRest
PROPERTIES ImplementsLog
CHECK_DEADLOCK FALSE
