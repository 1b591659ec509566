\* A host that keeps stepping, with requests, resets and DMA stalls at every access.
CONSTANTS
  None = None
  Confirming = Confirming
  c1 = c1
  Callables = {c1}
  PlainCycles <- OnlyTwo
  HostOps = {"lines", "reset", "stall"}
  HostStates <- NoStates
SPECIFICATION FairCountedSpec
INVARIANTS
  TakenWithinTwo
PROPERTIES
  OneInstructionFirst
  NMINotStarved
  IRQNotStarved
