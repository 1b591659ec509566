CONSTANTS
  None = None
  a = a
  b = b
  c = c
  h = h
  g = g
  Sessions <- ThreeSessions
  OwnCallables <- TwoCallables
  LastFirst = TRUE
  MaxLog = 2
SYMMETRY AnySessions
SPECIFICATION Spec
INVARIANTS TypeOK EverySessionSeesEveryAccess GivesCallablesBack
