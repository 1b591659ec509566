CONSTANTS
  None = None
  a = a
  b = b
  c = c
  h = h
  g = g
  Sessions <- ThreeSessions
  OwnCallables <- TwoCallables
  LastFirst = TRUE
  MaxLog = 2
SPECIFICATION Spec
INVARIANT CallablesAreLastAssigned
