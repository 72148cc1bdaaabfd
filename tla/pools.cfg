SPECIFICATION Spec
CONSTANTS
  r1 = r1  r2 = r2  r3 = r3
  c1 = c1  c2 = c2
  None = None  Freed = Freed
SYMMETRY SymmetricSlots
CHECK_DEADLOCK FALSE
INVARIANTS NoneStranded WorkHoldsLoop ResponseIsOwn
PROPERTIES SweepSafe
