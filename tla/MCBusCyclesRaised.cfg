\* The host steps on after one of its callables has raised.
CONSTANTS
  Base = 4
  HostRaises = TRUE
  HostRestores = FALSE
SPECIFICATION Spec
INVARIANTS
  CyclesAreAccesses
