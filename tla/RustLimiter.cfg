SPECIFICATION Spec
CONSTANTS
  Callers = {c1, c2, c3, c4}
  Sizes = {1, 2}
  MaxTime = 5
SYMMETRY Symmetry
INVARIANTS LimitKept SpacedEvenly AllowsLimit
