\* Requests, resets, stalls, bus swaps and snapshots at every access.
CONSTANTS
  None = None
  Confirming = Confirming
  c1 = c1
  c2 = c2
  Callables = {c1, c2}
  PlainCycles <- TwoAndThree
  HostOps = {"lines", "reset", "stall", "bus", "roundtrip", "restore", "raise"}
  HostStates <- SavedStates
SPECIFICATION Spec
SYMMETRY CallableSymmetry
INVARIANTS
  TypeOK
  PredictsBoundary
  PollInv
  RoutesAreCurrent
PROPERTIES
  ImplementsContract
  RoundTripIsExact
  ReachesHostsCallable
  RestoredStateDecides
