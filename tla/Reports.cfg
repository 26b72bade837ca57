SPECIFICATION ReportsSpec
CONSTANTS
    Listed = 3
    SlackInverse = 10
    Runs <- MCRuns
INVARIANTS
    RankedByResult
    SharesRight
    SummaryComplete
