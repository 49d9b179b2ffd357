SPECIFICATION Spec
CONSTANTS
  Files = {f1, f2}
  Dots = {dot, dotdot}
  MaxEntries = 3
  Changes = {"write"}
  Nobody = Nobody
INVARIANTS
  SkipsOnlyDots
CHECK_DEADLOCK FALSE
