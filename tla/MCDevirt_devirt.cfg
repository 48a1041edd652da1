SPECIFICATION Spec
CONSTANTS
  W = 16
  Operands <- AllSamples
INVARIANTS Recovers SignsDecide FlagsOfCmp SameOptimized
