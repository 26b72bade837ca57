SPECIFICATION Spec
CONSTANTS
    Attempts = 2
    ErrorLimit = 2
    MaxSamples = 1
    Pids = {1, 2}
    ServerPid = 1
    HereAddrs <- MCHereAddrs
    Runs <- MCRuns
    MaxFailures = 1
INVARIANTS
    NoRowMissing
    ProfileOfItsBenchmark
PROPERTIES
    SamplesKept
    SamplesTheServer
    NoSamplesMissed
    NoSampleAfterStop
    RunEnds
