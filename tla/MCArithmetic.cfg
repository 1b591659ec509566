\* Every byte against every byte, both carries, both settings of D.
CONSTANTS
  Operands <- AllBytes
  DecimalMode = TRUE
SPECIFICATION Spec
CHECK_DEADLOCK FALSE
INVARIANTS
  BinarySumIsExact
  DecimalSumIsExact
  SbcAddsComplement
  DecimalDifferenceIsExact
  RotateLosesNothing
