SPECIFICATION FairSpec
CONSTANTS
  Workers = {w1, w2}
  NumConnections = 5
  NumAddrs = 3
  RetryTimes = 2
  Faults = {"dial", "get"}
INVARIANTS NoSocketLeaks AllCounted EvenlySpread
PROPERTY RunReturns
