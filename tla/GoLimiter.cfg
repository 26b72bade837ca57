SPECIFICATION Spec
CONSTANTS
  Callers = {c1, c2, c3, c4}
  Limit = 3
  Sizes = {1, 2, 4}
  MaxTime = 5
SYMMETRY Symmetry
INVARIANT LimitKept
