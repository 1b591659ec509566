\* An NMI cancelled in an instruction's last cycle.
CONSTANTS
  None = None
  Confirming = Confirming
  c1 = c1
  Callables = {c1}
  PlainCycles <- OnlyTwo
  HostOps = {"lines"}
  HostStates <- NoStates
SPECIFICATION Spec
PROPERTIES
  CancelledNMINotTaken
