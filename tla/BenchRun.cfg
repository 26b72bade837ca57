SPECIFICATION Spec
CONSTANTS
    Turns <- MCTurns
    FirstCheck = 2
    StartTimeout = 3
    StopTimeout = 1
INVARIANTS
    OneServerAtATime
    ClientFindsAll
    FailuresTold
PROPERTY RunReturns
