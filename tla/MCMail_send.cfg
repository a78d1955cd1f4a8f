SPECIFICATION RetryFairSpec
CONSTANTS
    Message = {m1}
    NoMessage = NoMessage
    Campaign = {m1}
    Handler = {h1, h2}
    Process = {p1, p2}
    NoProcess = NoProcess
    MaxAttempts = 3
    Budget <- MCBudget
    Retries = 3
    Doubles = 1
    Failures = 1
    Lost = 1
    Lapses = 1
    Crashes = 1
    Requeues = 1
    Complaints = 1
CHECK_DEADLOCK FALSE
CONSTRAINT FourFaults
INVARIANTS OneOpenAttempt DuplicatesHaveACause
PROPERTIES SendsAreAccountedFor EveryDeliveryEnds
