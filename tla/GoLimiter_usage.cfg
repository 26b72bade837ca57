SPECIFICATION Spec
CONSTANTS
  Callers = {c1, c2, c3}
  Limit = 3
  Sizes = {1}
  MaxTime = 3
INVARIANT AllowsLimit
