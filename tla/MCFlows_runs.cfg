SPECIFICATION RetryFairSpec
CONSTANTS
    Flow = {f1}
    Event = {e1}
    Version = {long, short}
    long = long
    short = short
    Steps <- MCSteps
    Worker = {w1, w2}
    NoWorker = NoWorker
    Budget <- MCBudget
    Retries = 1
    Changes = 1
    Replays = 1
    Failures = 1
    Lapses = 1
CHECK_DEADLOCK FALSE
INVARIANTS EffectsFollowSteps RepeatedPostHasCause
PROPERTIES RunsOnlyAdvance RunsEnd
