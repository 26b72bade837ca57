SPECIFICATION FairSpec
CONSTANTS
  Conns = {c1, c2}
  Workers = {w1, w2}
  WarmupTimes = 2
  Total = 3
  Faults = {"close", "malformed", "bad", "redial"}
INVARIANTS ConnConserved PutNeverBlocks AlignedUnlessBroken NoUseAfterClose AllCounted
PROPERTIES ImplementsPool RunReturns
