SPECIFICATION Spec
CONSTANTS
  NumConns = 1
  Concurrency = 1
  Batch = 2
  MaxTicks = 6
  SockCap = 9
  Faults = {"close", "malformed", "bad"}
INVARIANTS InFlightBound ReceivedBound
