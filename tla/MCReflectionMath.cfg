CONSTANT
  MAX_U256 = 31
SPECIFICATION MathSpec
INVARIANTS
  AbortsOnlyOutOfRange
PROPERTY
  ImplementsInteger
