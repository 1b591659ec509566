\* After a raise, the host restores a state before it steps again.
CONSTANTS
  Base = 4
  HostRaises = TRUE
  HostRestores = TRUE
SPECIFICATION Spec
INVARIANTS
  TypeOK
  CyclesAreAccesses
  OperandTouchedOnce
  ListingIsConsumed
