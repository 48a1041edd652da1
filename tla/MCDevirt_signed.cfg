SPECIFICATION Spec
CONSTANTS
  W = 16
  Operands <- SignedSample
INVARIANT Sample4Recovers
