SPECIFICATION FairSpec
CONSTANTS
  NumConns = 2
  Concurrency = 1
  Batch = 1
  MaxTicks = 2
  SockCap = 2
  Faults = {"close", "redial"}
INVARIANT SnapshotSkew
PROPERTIES ReportFrozen SnapshotLosesOnePerReader RunReturns
