SPECIFICATION Spec
CONSTANTS
  Inputs <- MCInputs
  Garbage = {0}
  IntsPerSize = 2
INVARIANTS
  PairsKept
CHECK_DEADLOCK FALSE
