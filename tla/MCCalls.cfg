CONSTANTS
  None = None
  StackSize = 7
  Base = 2
  CallSites = {1, 2}
  Starts = {1}
  MaxBytes = 6
SPECIFICATION Spec
INVARIANTS TypeOK FramesAreHeld BackIsReturned
PROPERTIES ImplementsContract
